------------------------------- MODULE Stores -------------------------------
(***************************************************************************)
(* The three stores one document ingest writes to:                         *)
(*                                                                         *)
(*   documents, chunks   the SQLite tables of ChunkStore, the source of    *)
(*                       truth (src/src/app/stores/chunk_store.py)         *)
(*   postings            the SQLite FTS5 table of Bm25Index                *)
(*                       (src/src/app/stores/bm25_index.py)                *)
(*   points              the Qdrant collection of VectorStore              *)
(*                       (src/src/app/stores/vector_store.py)              *)
(*                                                                         *)
(* A table is a set of records, one per row.  Every operation is one SQLite *)
(* transaction or one Qdrant call, hence one action on all four variables. *)
(* A text stands for the whole content of an upload; the chunk of a text    *)
(* at one position is known by the text and the position, so a chunk row    *)
(* carries the text it was cut from.                                       *)
(***************************************************************************)
EXTENDS Integers, FiniteSets, FiniteSetsExt

CONSTANTS
  Docs,        \* the document ids
  Texts,       \* the contents that can be uploaded
  ChunkCount,  \* how many chunks chunk_text cuts each text into
  MaxVersion   \* bound on version numbers, which the code does not limit

ASSUME StoresAssumption ==
  /\ ChunkCount \in [Texts -> Nat]
  /\ MaxVersion \in Nat

VARIABLES documents, chunks, postings, points

storeVars == <<documents, chunks, postings, points>>

Versions == 1 .. MaxVersion

DocumentRow == [doc: Docs, version: Versions, active: BOOLEAN]

\* A chunk row, the posting of a chunk and the point of a chunk: which chunk
\* of which document version, and the text it was built from.
Entry == [doc: Docs, version: Versions, seq: Nat, text: Texts]

\* The chunk id "{doc_id}:{version}:{seq}": unambiguous even when a doc id holds
\* colons, since the two numbers are its last fields.
Id(entry) == <<entry.doc, entry.version, entry.seq>>

\* The rows of one document version, and the table without them.
OfVersion(table, d, v) == {row \in table : row.doc = d /\ row.version = v}
Without(table, d, v) == {row \in table : ~(row.doc = d /\ row.version = v)}

\* Inserting entries whose ids replace the ones already present.
Overwrite(table, entries) ==
  {row \in table : \A e \in entries : Id(row) # Id(e)} \cup entries

\* The chunks of text t, stored as version v of document d.
ChunksOf(d, v, t) ==
  {[doc |-> d, version |-> v, seq |-> i, text |-> t] : i \in 0 .. ChunkCount[t] - 1}

VersionsIn(table, d) == {row.version : row \in {r \in table : r.doc = d}}

\* UPDATE documents SET active = ... WHERE doc_id = d [AND version = v]
Deactivate(rows, d) ==
  {IF row.doc = d THEN [row EXCEPT !.active = FALSE] ELSE row : row \in rows}
Activate(rows, d, v) ==
  {IF row.doc = d /\ row.version = v THEN [row EXCEPT !.active = TRUE] ELSE row :
     row \in rows}

\* MAX(version) of a document's rows, with 0 for the None of an unknown one.
Highest(rows, d) == Max(VersionsIn(rows, d) \cup {0})

\* Faulty: COUNT(*) where the code reads MAX(version).
LatestVersionCounted(d) == Cardinality(VersionsIn(documents, d))

LatestVersion(d) == Highest(documents, d)

-----------------------------------------------------------------------------

StoresInit ==
  /\ documents = {}
  /\ chunks = {}
  /\ postings = {}
  /\ points = {}

\* ChunkStore.upsert_document: one transaction that numbers the new version,
\* makes it the only active one and inserts its chunk rows.
UpsertDocument(d, t) ==
  LET v == LatestVersion(d) + 1
  IN  /\ documents' = Deactivate(documents, d)
                        \cup {[doc |-> d, version |-> v, active |-> TRUE]}
      /\ chunks' = chunks \cup ChunksOf(d, v, t)
      /\ UNCHANGED <<postings, points>>

\* Faulty: the rows go, but no other version is re-activated.
DeleteVersionOnly(d, v) ==
  /\ documents' = Without(documents, d, v)
  /\ chunks' = Without(chunks, d, v)
  /\ UNCHANGED <<postings, points>>

\* ChunkStore.delete_version: one transaction that drops the version's rows
\* and re-activates the highest version left.
DeleteVersion(d, v) ==
  LET rest == Without(documents, d, v)
  IN  /\ documents' = Activate(rest, d, Highest(rest, d))
      /\ chunks' = Without(chunks, d, v)
      /\ UNCHANGED <<postings, points>>

\* Bm25Index.index_chunks
IndexChunks(entries) ==
  /\ postings' = Overwrite(postings, entries)
  /\ UNCHANGED <<documents, chunks, points>>

\* Bm25Index.remove_document_version
RemovePostings(d, v) ==
  /\ postings' = Without(postings, d, v)
  /\ UNCHANGED <<documents, chunks, points>>

\* VectorStore.upsert: the payload of the chunks, with the vectors of text t.
UpsertPoints(entries, t) ==
  /\ points' = Overwrite(points, {[e EXCEPT !.text = t] : e \in entries})
  /\ UNCHANGED <<documents, chunks, postings>>

\* Faulty: the filter leaves out the version.
DeletePointsOfDocument(d, v) ==
  /\ points' = {row \in points : row.doc # d}
  /\ UNCHANGED <<documents, chunks, postings>>

\* VectorStore.delete_document_version
DeletePoints(d, v) ==
  /\ points' = Without(points, d, v)
  /\ UNCHANGED <<documents, chunks, postings>>

-----------------------------------------------------------------------------

StoresTypeOK ==
  /\ documents \subseteq DocumentRow
  /\ chunks \subseteq Entry
  /\ postings \subseteq Entry
  /\ points \subseteq Entry

=============================================================================
