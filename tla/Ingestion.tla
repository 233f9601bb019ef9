------------------------------ MODULE Ingestion ------------------------------
(***************************************************************************)
(* IngestionService.ingest (src/src/app/ingestion/pipeline.py): the worker  *)
(* that takes one uploaded document through chunking, embedding, the writes *)
(* to three stores that share no transaction, the best-effort rollback when *)
(* one of the writes fails, the sweep of superseded versions and the cache  *)
(* invalidation.                                                           *)
(*                                                                         *)
(* One action per call the worker makes on a collaborator.  A SQLite call   *)
(* succeeds or fails having changed nothing.  A Qdrant call may also fail   *)
(* having been applied (a timeout after the server took the request).  The  *)
(* process may stop between any two calls; the stores survive, the ingest   *)
(* does not.  The API admits one ingest at a time (CapacityLimiter(1)).     *)
(*                                                                         *)
(* A definition marked Faulty is the one after it with one slip, to show    *)
(* that the properties tell the difference; nothing else uses it.          *)
(***************************************************************************)
EXTENDS Stores

CONSTANT NoJob  \* the worker holds no ingest

ASSUME IngestionAssumption ==
  NoJob \notin [doc: Docs, text: Texts, version: Nat, fetched: SUBSET Entry,
                cursor: Nat, clean: BOOLEAN]

VARIABLES
  pc,         \* the call the worker makes next
  job,        \* its local variables
  result,     \* how the last ingest of each document ended
  committed   \* of each document, the last version whose writes all succeeded

workerVars == <<pc, job, result>>
vars == <<storeVars, workerVars, committed>>

Labels == {"idle", "chunk", "embed", "store", "fetch", "clearPostings",
           "clearPoints", "indexPostings", "upsertPoints", "undoPoints",
           "undoPostings", "undoChunks", "sweep", "sweepPoints",
           "sweepPostings", "sweepChunks", "invalidate"}

\* "ingested" returns an IngestResult; "unhandled" is an exception that is not
\* an IngestError; "crashed" is a process that stopped; the rest are the
\* IngestErrors by the message they carry.
Outcomes == {"none", "ingested", "nothing written", "rolled back",
             "rollback incomplete", "sweep failed", "invalidation failed",
             "unhandled", "crashed"}

Job == [doc: Docs, text: Texts, version: 0 .. MaxVersion,
        fetched: SUBSET Entry, cursor: 0 .. MaxVersion, clean: BOOLEAN]

Publication == [doc: Docs, version: Versions, text: Texts]

Init ==
  /\ StoresInit
  /\ pc = "idle"
  /\ job = NoJob
  /\ result = [d \in Docs |-> "none"]
  /\ committed = {}

-----------------------------------------------------------------------------
(* Steps of the worker's control flow. *)

Goto(label) ==
  /\ pc' = label
  /\ UNCHANGED <<job, result, committed>>

Finish(outcome) ==
  /\ pc' = "idle"
  /\ job' = NoJob
  /\ result' = [result EXCEPT ![job.doc] = outcome]
  /\ UNCHANGED committed

\* A call that raised and changed no store.
Unapplied == UNCHANGED storeVars

-----------------------------------------------------------------------------
(* ingest: nothing is written before the embedding succeeded. *)

\* An upload reaches the worker.  MaxVersion bounds the version it may take.
Submit(d, t) ==
  /\ pc = "idle"
  /\ LatestVersion(d) < MaxVersion
  /\ pc' = "chunk"
  /\ job' = [doc |-> d, text |-> t, version |-> 0, fetched |-> {},
             cursor |-> 0, clean |-> TRUE]
  /\ UNCHANGED <<storeVars, result, committed>>

ChunkText ==
  /\ pc = "chunk"
  /\ \/ ChunkCount[job.text] = 0 /\ Finish("nothing written")
     \/ ChunkCount[job.text] > 0 /\ Goto("embed")
  /\ UNCHANGED storeVars

EmbedPassages ==
  /\ pc = "embed"
  /\ \/ Goto("store")
     \/ Finish("nothing written")
  /\ UNCHANGED storeVars

-----------------------------------------------------------------------------
(* _write_new_version: any failure after the first write enters _rollback. *)

StoreChunks ==
  /\ pc = "store"
  /\ \/ /\ UpsertDocument(job.doc, job.text)
        /\ pc' = "fetch"
        /\ job' = [job EXCEPT !.version = LatestVersion(job.doc) + 1]
        /\ UNCHANGED <<result, committed>>
     \/ Unapplied /\ Finish("nothing written")

FetchChunks ==
  /\ pc = "fetch"
  /\ \/ /\ pc' = "clearPostings"
        /\ job' = [job EXCEPT !.fetched = OfVersion(chunks, job.doc, job.version)]
        /\ UNCHANGED <<result, committed>>
     \/ Goto("undoPoints")
  /\ UNCHANGED storeVars

\* Faulty: trusts same-id overwrites instead of clearing the keyword index.
ClearPostingsSkipped ==
  /\ pc = "clearPostings"
  /\ Unapplied
  /\ Goto("clearPoints") \/ Goto("undoPoints")

ClearPostings ==
  /\ pc = "clearPostings"
  /\ \/ RemovePostings(job.doc, job.version) /\ Goto("clearPoints")
     \/ Unapplied /\ Goto("undoPoints")

ClearPoints ==
  /\ pc = "clearPoints"
  /\ \/ DeletePoints(job.doc, job.version) /\ Goto("indexPostings")
     \/ DeletePoints(job.doc, job.version) /\ Goto("undoPoints")
     \/ Unapplied /\ Goto("undoPoints")

IndexPostings ==
  /\ pc = "indexPostings"
  /\ \/ IndexChunks(job.fetched) /\ Goto("upsertPoints")
     \/ Unapplied /\ Goto("undoPoints")

\* The last write: once it returned, the ingest is never undone.
IndexPoints ==
  /\ pc = "upsertPoints"
  /\ \/ /\ UpsertPoints(job.fetched, job.text)
        /\ pc' = "sweep"
        /\ job' = [job EXCEPT !.cursor = job.version - 1]
        /\ committed' = {c \in committed : c.doc # job.doc}
             \cup {[doc |-> job.doc, version |-> job.version, text |-> job.text]}
        /\ UNCHANGED result
     \/ UpsertPoints(job.fetched, job.text) /\ Goto("undoPoints")
     \/ Unapplied /\ Goto("undoPoints")

-----------------------------------------------------------------------------
(* _rollback: every store is attempted, whatever the earlier ones did. *)

GotoUnclean(label) ==
  /\ pc' = label
  /\ job' = [job EXCEPT !.clean = FALSE]
  /\ UNCHANGED <<result, committed>>

UndoPoints ==
  /\ pc = "undoPoints"
  /\ \/ DeletePoints(job.doc, job.version) /\ Goto("undoPostings")
     \/ DeletePoints(job.doc, job.version) /\ GotoUnclean("undoPostings")
     \/ Unapplied /\ GotoUnclean("undoPostings")

\* Faulty: the failure is swallowed, not reported.
UndoPostingsSilently ==
  /\ pc = "undoPostings"
  /\ \/ RemovePostings(job.doc, job.version) /\ Goto("undoChunks")
     \/ Unapplied /\ Goto("undoChunks")

UndoPostings ==
  /\ pc = "undoPostings"
  /\ \/ RemovePostings(job.doc, job.version) /\ Goto("undoChunks")
     \/ Unapplied /\ GotoUnclean("undoChunks")

UndoChunks ==
  /\ pc = "undoChunks"
  /\ \/ /\ DeleteVersion(job.doc, job.version)
        /\ Finish(IF job.clean THEN "rolled back" ELSE "rollback incomplete")
     \/ Unapplied /\ Finish("rollback incomplete")

-----------------------------------------------------------------------------
(* _sweep_superseded_versions: from version - 1 down to 1; the first failure *)
(* ends the ingest.                                                         *)

\* Faulty: only the version right before the new one is swept.
NextOlderNone ==
  /\ pc' = "invalidate"
  /\ job' = [job EXCEPT !.cursor = @ - 1]
  /\ UNCHANGED <<result, committed>>

NextOlder ==
  /\ pc' = "sweep"
  /\ job' = [job EXCEPT !.cursor = @ - 1]
  /\ UNCHANGED <<result, committed>>

\* Faulty: the loop runs one version too far.
SweepCheckPastOne ==
  /\ pc = "sweep"
  /\ \/ job.cursor = -1 /\ Goto("invalidate")
     \/ /\ job.cursor > -1
        /\ OfVersion(chunks, job.doc, job.cursor) = {}
        /\ NextOlder
     \/ /\ job.cursor > -1
        /\ OfVersion(chunks, job.doc, job.cursor) # {}
        /\ Goto("sweepPoints")
     \/ job.cursor > -1 /\ Finish("unhandled")
  /\ UNCHANGED storeVars

\* Faulty: the loop stops one version early.
SweepCheckShort ==
  /\ pc = "sweep"
  /\ \/ job.cursor \in {0, 1} /\ Goto("invalidate")
     \/ job.cursor > 1 /\ OfVersion(chunks, job.doc, job.cursor) = {} /\ NextOlder
     \/ job.cursor > 1 /\ OfVersion(chunks, job.doc, job.cursor) # {} /\ Goto("sweepPoints")
     \/ job.cursor > 1 /\ Finish("unhandled")
  /\ UNCHANGED storeVars

\* get_chunks of the next older version.  It stands outside the try block.
SweepCheck ==
  /\ pc = "sweep"
  /\ \/ job.cursor = 0 /\ Goto("invalidate")
     \/ /\ job.cursor > 0
        /\ OfVersion(chunks, job.doc, job.cursor) = {}
        /\ NextOlder
     \/ /\ job.cursor > 0
        /\ OfVersion(chunks, job.doc, job.cursor) # {}
        /\ Goto("sweepPoints")
     \/ job.cursor > 0 /\ Finish("unhandled")
  /\ UNCHANGED storeVars

SweepPoints ==
  /\ pc = "sweepPoints"
  /\ \/ DeletePoints(job.doc, job.cursor) /\ Goto("sweepPostings")
     \/ DeletePoints(job.doc, job.cursor) /\ Finish("sweep failed")
     \/ Unapplied /\ Finish("sweep failed")

\* Faulty: a failure is passed over, as in the rollback.
SweepPostingsRegardless ==
  /\ pc = "sweepPostings"
  /\ \/ RemovePostings(job.doc, job.cursor) /\ Goto("sweepChunks")
     \/ Unapplied /\ Goto("sweepChunks")

SweepPostings ==
  /\ pc = "sweepPostings"
  /\ \/ RemovePostings(job.doc, job.cursor) /\ Goto("sweepChunks")
     \/ Unapplied /\ Finish("sweep failed")

\* Faulty: a version that could not be removed is tried again, without end.
SweepChunksAgain ==
  /\ pc = "sweepChunks"
  /\ \/ DeleteVersion(job.doc, job.cursor) /\ NextOlder
     \/ Unapplied /\ Goto("sweepPoints")

SweepChunks ==
  /\ pc = "sweepChunks"
  /\ \/ DeleteVersion(job.doc, job.cursor) /\ NextOlder
     \/ Unapplied /\ Finish("sweep failed")

Invalidate ==
  /\ pc = "invalidate"
  /\ \/ Finish("ingested")
     \/ Finish("invalidation failed")
  /\ UNCHANGED storeVars

-----------------------------------------------------------------------------

\* The process stops and restarts: the stores are durable, the ingest is gone.
Crash ==
  /\ pc # "idle"
  /\ Finish("crashed")
  /\ UNCHANGED storeVars

Step ==
  \/ ChunkText \/ EmbedPassages
  \/ StoreChunks \/ FetchChunks
  \/ ClearPostings \/ ClearPoints \/ IndexPostings \/ IndexPoints
  \/ UndoPoints \/ UndoPostings \/ UndoChunks
  \/ SweepCheck \/ SweepPoints \/ SweepPostings \/ SweepChunks
  \/ Invalidate

Next ==
  \/ \E d \in Docs, t \in Texts : Submit(d, t)
  \/ Step
  \/ Crash

\* The worker thread keeps running; uploads and crashes are never owed.
Spec == Init /\ [][Next]_vars /\ WF_vars(Step)

-----------------------------------------------------------------------------

TypeOK ==
  /\ StoresTypeOK
  /\ pc \in Labels
  /\ job \in Job \cup {NoJob}
  /\ (pc = "idle") <=> (job = NoJob)
  /\ result \in [Docs -> Outcomes]
  /\ committed \subseteq Publication

Resting(d) == job = NoJob \/ job.doc # d

\* A version of a document is whole: its chunk rows, postings and points are
\* exactly those of one text.
Whole(p) ==
  /\ OfVersion(chunks, p.doc, p.version) = ChunksOf(p.doc, p.version, p.text)
  /\ OfVersion(postings, p.doc, p.version) = ChunksOf(p.doc, p.version, p.text)
  /\ OfVersion(points, p.doc, p.version) = ChunksOf(p.doc, p.version, p.text)

\* The version last written completely stays whole in all three stores
\* whatever later ingests of the document do: failures, partial rollbacks,
\* sweeps and crashes never touch it until a newer one is complete
\* (pipeline.py: "the previously active version is never deleted on a
\* failure path, so retrieval keeps serving it throughout").
CommittedServed == \A p \in committed : Whole(p)

\* An index entry whose version has no document row can only be a leftover at
\* the number the next ingest of its document takes, and clears before it
\* writes.  Nothing else would ever find it: the sweep visits a version only
\* if its chunk rows are there.
OrphansReclaimable ==
  \A e \in postings \cup points :
    e.version \in VersionsIn(documents, e.doc) \cup {LatestVersion(e.doc) + 1}

\* After an ingest that reported success, its version is the only one of the
\* document in any of the three stores, whatever earlier ingests of the
\* document left behind ("the new version is the only searchable one").
SuccessLeavesOneVersion ==
  \A d \in Docs :
    (result[d] = "ingested" /\ Resting(d)) =>
      \E p \in committed :
        /\ p.doc = d
        /\ VersionsIn(documents, d) = {p.version}
        /\ \A e \in chunks \cup postings \cup points :
             e.doc = d => e.version = p.version

\* After an ingest that reported a complete rollback, the indexes hold nothing
\* of a version the document table does not know ("all partial writes were
\* rolled back").
RollbackLeavesNoOrphans ==
  \A d \in Docs :
    (result[d] = "rolled back" /\ Resting(d)) =>
      \A e \in postings \cup points :
        e.doc = d => e.version \in VersionsIn(documents, d)

\* A document with any version left has exactly one active row, and it is the
\* one of the highest version (delete_version's docstring), through every mix
\* of upserts, rollbacks and sweeps.
OneActiveVersion ==
  \A d \in Docs :
    {row \in documents : row.doc = d /\ row.active}
      = {row \in documents : row.doc = d /\ row.version = LatestVersion(d)}

\* Every ingest that started ends: the sweep terminates and no step waits on
\* another.
IngestEnds == pc # "idle" ~> pc = "idle"

\* The stores, seen as a catalog: the versions a search can find whole.
WholeVersions ==
  {p \in {[doc |-> e.doc, version |-> e.version, text |-> e.text] : e \in points} :
     Whole(p)}

Catalog == INSTANCE DocumentCatalog
             WITH searchable <- WholeVersions, published <- committed

\* Every step of an ingest, failed or not, is a step the catalog allows: in
\* particular a published version stays searchable until the step that makes
\* a higher-numbered one searchable whole, and numbers of published versions
\* are never used again.
ImplementsCatalog == Catalog!Spec

=============================================================================
