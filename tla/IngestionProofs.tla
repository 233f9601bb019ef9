--------------------------- MODULE IngestionProofs ---------------------------
(***************************************************************************)
(* Theorems about Ingestion for every set of documents and texts, every    *)
(* size of the texts and every bound on the version numbers: its           *)
(* invariants, and that it implements DocumentCatalog under the refinement *)
(* mapping of module Ingestion.                                            *)
(***************************************************************************)
EXTENDS IngestionInvariants, StoresProofs

-----------------------------------------------------------------------------
(* Types *)

TypeInv == TypeOK /\ JobInv

\* The worker holds an ingest unless it is idle.
LEMMA WorkerHasJob ==
  ASSUME TypeOK, pc # "idle"
  PROVE  job \in Job
  BY DEF TypeOK

\* The absence of an ingest is none of its records.
LEMMA NoJobIsNoJob == NoJob \notin Job
<1>1. 0 .. MaxVersion \subseteq Nat
  BY StoresAssumption
<1>2. QED
  BY <1>1, IngestionAssumption DEF Job

\* The stores start empty and the worker idle.
LEMMA InitTypeInv == Init => TypeInv
  BY DEF Init, StoresInit, TypeInv, TypeOK, StoresTypeOK, JobInv, Labels, Job,
         Outcomes, Unnumbered, Numbered, Writing, Undoing, Sweeping

\* Ending the ingest keeps the types, whatever happened to the stores.
LEMMA FinishType ==
  ASSUME TypeOK, pc # "idle", NEW o \in Outcomes, Finish(o), StoresTypeOK'
  PROVE  TypeInv'
<1>1. TypeOK'
  BY NoJobIsNoJob, WorkerHasJob DEF Finish, TypeOK, Labels, Job
<1>2. JobInv'
  BY DEF Finish, JobInv, Unnumbered, Numbered, Writing, Undoing, Sweeping
<1>3. QED
  BY <1>1, <1>2 DEF TypeInv

\* So does moving to another call, if the worker is fit for that call.
LEMMA GotoType ==
  ASSUME TypeOK, pc # "idle", NEW l \in Labels \ {"idle"}, Goto(l),
         StoresTypeOK', JobInv'
  PROVE  TypeInv'
  BY NoJobIsNoJob, WorkerHasJob DEF Goto, TypeInv, TypeOK

\* Moving on after a failed undo keeps the types.
LEMMA GotoUncleanType ==
  ASSUME TypeOK, pc # "idle", NEW l \in Labels \ {"idle"}, GotoUnclean(l),
         StoresTypeOK', JobInv'
  PROVE  TypeInv'
<1>1. job' \in Job
  BY WorkerHasJob DEF GotoUnclean, Job
<1>2. QED
  BY <1>1, NoJobIsNoJob DEF GotoUnclean, TypeInv, TypeOK

\* A call that changed no store keeps the types of the stores.
LEMMA UnappliedType ==
  ASSUME StoresTypeOK, Unapplied
  PROVE  StoresTypeOK'
  BY DEF StoresTypeOK, Unapplied, storeVars

\* The writes and the undo of a numbered version move among themselves.
LEMMA WriteOrUndoGotoType ==
  ASSUME TypeInv, pc \in Writing \cup Undoing, NEW l \in Writing \cup Undoing,
         Goto(l) \/ GotoUnclean(l), StoresTypeOK'
  PROVE  TypeInv'
<1>1. pc # "idle" /\ l \in Labels \ {"idle"}
  BY DEF Writing, Undoing, Labels
<1>2. job'.version = job.version
  BY <1>1, WorkerHasJob DEF TypeInv, Goto, GotoUnclean, Job
<1>3. pc' = l
  BY DEF Goto, GotoUnclean
<1>4. JobInv'
  BY <1>2, <1>3 DEF TypeInv, JobInv, Unnumbered, Numbered, Writing, Undoing, Sweeping
<1>5. QED
  BY <1>1, <1>4, GotoType, GotoUncleanType DEF TypeInv

\* The sweep of one superseded version goes on to its next store.
LEMMA SweepGotoType ==
  ASSUME TypeInv, pc \in Sweeping, NEW l \in Labels \ {"idle"}, Goto(l),
         (l \in Sweeping /\ job.cursor > 0) \/ l = "invalidate", StoresTypeOK'
  PROVE  TypeInv'
<1>1. pc # "idle"
  BY DEF Sweeping
<1>2. JobInv'
  BY DEF TypeInv, JobInv, Goto, Unnumbered, Numbered, Writing, Undoing, Sweeping
<1>3. QED
  BY <1>1, <1>2, GotoType DEF TypeInv

\* Or to the next older version, if this one was not the last.
LEMMA NextOlderType ==
  ASSUME TypeInv, pc \in Sweeping, job.cursor > 0, NextOlder, StoresTypeOK'
  PROVE  TypeInv'
<1>1. job \in Job /\ job.version \in Versions /\ job.cursor < job.version
  BY WorkerHasJob DEF TypeInv, JobInv, Numbered, Sweeping
<1>2. job' \in Job /\ job'.version = job.version /\ job'.cursor = job.cursor - 1
  BY <1>1, StoresAssumption DEF NextOlder, Job
<1>3. job'.cursor < job'.version
  BY <1>1, <1>2 DEF Job, Versions
<1>4. TypeOK'
  BY <1>2, NoJobIsNoJob DEF NextOlder, TypeInv, TypeOK, Labels
<1>5. JobInv'
  BY <1>1, <1>2, <1>3 DEF NextOlder, JobInv, Unnumbered, Numbered, Writing, Undoing, Sweeping
<1>6. QED
  BY <1>4, <1>5 DEF TypeInv

\* Every step of the worker, every upload and every crash keeps the types.
LEMMA StepTypeInv == TypeInv /\ [Next]_vars => TypeInv'
<1> SUFFICES ASSUME TypeInv, [Next]_vars PROVE TypeInv'
  OBVIOUS
<1> USE DEF TypeInv
<1>stores. StoresTypeOK
  BY DEF TypeOK
<1>job. pc # "idle" => job \in Job
  BY WorkerHasJob
<1>fields. pc # "idle" => job.doc \in Docs /\ job.text \in Texts /\ job.fetched \subseteq Entry
  BY <1>job DEF Job
<1> DEFINE Labelled == Labels \ {"idle"}
<1>1. ASSUME NEW d \in Docs, NEW t \in Texts, Submit(d, t) PROVE TypeInv'
  <2>1. job' \in Job
    BY <1>1, StoresAssumption DEF Submit, Job
  <2>2. TypeOK'
    BY <1>1, <2>1, NoJobIsNoJob DEF Submit, TypeOK, StoresTypeOK, storeVars, Labels
  <2>3. JobInv'
    BY <1>1 DEF Submit, JobInv, LatestVersion, storeVars,
                Unnumbered, Numbered, Writing, Undoing, Sweeping
  <2>4. QED
    BY <2>2, <2>3
<1>2. CASE ChunkText
  <2>1. StoresTypeOK'
    BY <1>2, <1>stores DEF ChunkText, StoresTypeOK, storeVars
  <2>2. CASE ChunkCount[job.text] > 0 /\ Goto("embed")
    <3>1. JobInv'
      BY <1>2, <2>2 DEF ChunkText, Goto, JobInv, LatestVersion, storeVars,
                        Unnumbered, Numbered, Writing, Undoing, Sweeping
    <3>2. QED
      BY <1>2, <2>1, <2>2, <3>1, GotoType DEF ChunkText, Labels
  <2>3. CASE Finish("nothing written")
    BY <1>2, <2>1, <2>3, FinishType DEF ChunkText, Outcomes
  <2>4. QED
    BY <1>2, <2>2, <2>3 DEF ChunkText
<1>3. CASE EmbedPassages
  <2>1. StoresTypeOK'
    BY <1>3, <1>stores DEF EmbedPassages, StoresTypeOK, storeVars
  <2>2. CASE Goto("store")
    <3>1. JobInv'
      BY <1>3, <2>2 DEF EmbedPassages, Goto, JobInv, LatestVersion,
                        storeVars, Unnumbered, Numbered, Writing, Undoing, Sweeping
    <3>2. QED
      BY <1>3, <2>1, <2>2, <3>1, GotoType DEF EmbedPassages, Labels
  <2>3. CASE Finish("nothing written")
    BY <1>3, <2>1, <2>3, FinishType DEF EmbedPassages, Outcomes
  <2>4. QED
    BY <1>3, <2>2, <2>3 DEF EmbedPassages
<1>4. CASE StoreChunks
  <2>1. CASE UpsertDocument(job.doc, job.text) /\ pc' = "fetch"
    <3>1. LatestVersion(job.doc) < MaxVersion
      BY <1>4 DEF StoreChunks, JobInv, Unnumbered
    <3>2. LatestVersion(job.doc) + 1 \in Versions
      BY <1>4, <1>stores, <1>fields, <3>1, NextVersion DEF StoreChunks
    <3>3. job' \in Job /\ job'.version \in Versions
      BY <1>4, <1>job, <2>1, <3>2 DEF StoreChunks, Finish, Job, Versions
    <3>4. StoresTypeOK'
      BY <1>4, <1>stores, <1>fields, <2>1, <3>1, UpsertDocumentType DEF StoreChunks
    <3>5. TypeOK'
      BY <1>4, <2>1, <3>3, <3>4, NoJobIsNoJob DEF StoreChunks, Finish, TypeOK, Labels
    <3>6. JobInv'
      BY <2>1, <3>3 DEF JobInv, Unnumbered, Numbered, Writing, Undoing, Sweeping
    <3>7. QED
      BY <3>5, <3>6
  <2>2. CASE Unapplied /\ Finish("nothing written")
    BY <1>4, <1>stores, <2>2, UnappliedType, FinishType DEF StoreChunks, Outcomes
  <2>3. QED
    BY <1>4, <2>1, <2>2 DEF StoreChunks
<1>5. CASE FetchChunks
  <2>1. StoresTypeOK'
    BY <1>5, <1>stores DEF FetchChunks, StoresTypeOK, storeVars
  <2>2. CASE pc' = "clearPostings"
    <3>1. job' \in Job /\ job'.version = job.version
      BY <1>5, <1>job, <1>stores, <2>2
         DEF FetchChunks, Goto, Job, OfVersion, StoresTypeOK
    <3>2. TypeOK'
      BY <1>5, <2>1, <2>2, <3>1, NoJobIsNoJob DEF FetchChunks, Goto, TypeOK, Labels
    <3>3. JobInv'
      BY <1>5, <2>2, <3>1 DEF FetchChunks, JobInv, Unnumbered, Numbered, Writing, Undoing, Sweeping
    <3>4. QED
      BY <3>2, <3>3
  <2>3. CASE Goto("undoPoints")
    BY <1>5, <2>1, <2>3, WriteOrUndoGotoType DEF FetchChunks, Writing, Undoing
  <2>4. QED
    BY <1>5, <2>2, <2>3 DEF FetchChunks
<1>6. CASE ClearPostings
  <2>1. StoresTypeOK'
    BY <1>6, <1>stores, IndexType, UnappliedType, <1>fields DEF ClearPostings
  <2>2. QED
    BY <1>6, <2>1, WriteOrUndoGotoType DEF ClearPostings, Writing, Undoing
<1>7. CASE ClearPoints
  <2>1. StoresTypeOK'
    BY <1>7, <1>stores, IndexType, UnappliedType, <1>fields DEF ClearPoints
  <2>2. QED
    BY <1>7, <2>1, WriteOrUndoGotoType DEF ClearPoints, Writing, Undoing
<1>8. CASE IndexPostings
  <2>1. StoresTypeOK'
    BY <1>8, <1>stores, IndexType, UnappliedType, <1>fields DEF IndexPostings
  <2>2. QED
    BY <1>8, <2>1, WriteOrUndoGotoType DEF IndexPostings, Writing, Undoing
<1>9. CASE IndexPoints
  <2>1. StoresTypeOK'
    BY <1>9, <1>stores, IndexType, UnappliedType, <1>fields DEF IndexPoints
  <2>2. CASE pc' = "sweep"
    <3>1. job.version \in Versions
      BY <1>9 DEF IndexPoints, JobInv, Numbered, Writing
    <3>2. /\ job' \in Job
          /\ job'.version = job.version
          /\ job'.cursor = job.version - 1
      BY <1>9, <1>job, <2>2, <3>1, StoresAssumption
         DEF IndexPoints, Goto, Job, Versions
    <3>3. committed' \subseteq Publication
      BY <1>9, <1>fields, <2>2, <3>1 DEF IndexPoints, Goto, TypeOK, Publication
    <3>4. TypeOK'
      BY <1>9, <2>1, <2>2, <3>2, <3>3, NoJobIsNoJob DEF IndexPoints, Goto, TypeOK, Labels
    <3>5. JobInv'
      BY <2>2, <3>1, <3>2 DEF JobInv, Versions, Unnumbered, Numbered, Writing, Undoing, Sweeping
    <3>6. QED
      BY <3>4, <3>5
  <2>3. CASE Goto("undoPoints")
    BY <1>9, <2>1, <2>3, WriteOrUndoGotoType DEF IndexPoints, Writing, Undoing
  <2>4. QED
    BY <1>9, <2>2, <2>3 DEF IndexPoints
<1>10. CASE UndoPoints
  <2>1. StoresTypeOK'
    BY <1>10, <1>stores, IndexType, UnappliedType, <1>fields DEF UndoPoints
  <2>2. QED
    BY <1>10, <2>1, WriteOrUndoGotoType DEF UndoPoints, Writing, Undoing
<1>11. CASE UndoPostings
  <2>1. StoresTypeOK'
    BY <1>11, <1>stores, IndexType, UnappliedType, <1>fields DEF UndoPostings
  <2>2. QED
    BY <1>11, <2>1, WriteOrUndoGotoType DEF UndoPostings, Writing, Undoing
<1>12. CASE UndoChunks
  <2>1. StoresTypeOK'
    BY <1>12, <1>stores, DeleteVersionType, UnappliedType DEF UndoChunks
  <2>2. QED
    BY <1>12, <2>1, FinishType DEF UndoChunks, Outcomes
<1>13. CASE SweepCheck
  <2>1. StoresTypeOK'
    BY <1>13, <1>stores DEF SweepCheck, StoresTypeOK, storeVars
  <2>2. QED
    BY <1>13, <2>1, SweepGotoType, NextOlderType, FinishType
       DEF SweepCheck, Sweeping, Labels, Outcomes
<1>14. CASE SweepPoints
  <2>1. StoresTypeOK'
    BY <1>14, <1>stores, IndexType, UnappliedType, <1>fields DEF SweepPoints
  <2>2. job.cursor > 0
    BY <1>14 DEF SweepPoints, JobInv, Sweeping
  <2>3. QED
    BY <1>14, <2>1, <2>2, SweepGotoType, FinishType
       DEF SweepPoints, Sweeping, Labels, Outcomes
<1>15. CASE SweepPostings
  <2>1. StoresTypeOK'
    BY <1>15, <1>stores, IndexType, UnappliedType, <1>fields DEF SweepPostings
  <2>2. job.cursor > 0
    BY <1>15 DEF SweepPostings, JobInv, Sweeping
  <2>3. QED
    BY <1>15, <2>1, <2>2, SweepGotoType, FinishType
       DEF SweepPostings, Sweeping, Labels, Outcomes
<1>16. CASE SweepChunks
  <2>1. StoresTypeOK'
    BY <1>16, <1>stores, DeleteVersionType, UnappliedType DEF SweepChunks
  <2>2. job.cursor > 0
    BY <1>16 DEF SweepChunks, JobInv, Sweeping
  <2>3. QED
    BY <1>16, <2>1, <2>2, NextOlderType, FinishType DEF SweepChunks, Sweeping, Outcomes
<1>17. CASE Invalidate
  <2>1. StoresTypeOK'
    BY <1>17, <1>stores DEF Invalidate, StoresTypeOK, storeVars
  <2>2. QED
    BY <1>17, <2>1, FinishType DEF Invalidate, Outcomes
<1>18. CASE Crash
  <2>1. StoresTypeOK'
    BY <1>18, <1>stores DEF Crash, StoresTypeOK, storeVars
  <2>2. QED
    BY <1>18, <2>1, FinishType DEF Crash, Outcomes
<1>19. CASE UNCHANGED vars
  BY <1>19 DEF vars, storeVars, workerVars, TypeOK, StoresTypeOK, JobInv,
               LatestVersion
<1>20. QED
  BY <1>1, <1>2, <1>3, <1>4, <1>5, <1>6, <1>7, <1>8, <1>9, <1>10, <1>11, <1>12,
     <1>13, <1>14, <1>15, <1>16, <1>17, <1>18, <1>19 DEF Next, Step

\* Type correctness, and with it that the version number every call is keyed
\* with exists and the sweep stays below it.
THEOREM TypeCorrect == Spec => []TypeOK
<1>1. TypeInv => TypeOK
  BY DEF TypeInv
<1>2. QED
  BY <1>1, InitTypeInv, StepTypeInv, PTL DEF Spec

-----------------------------------------------------------------------------
(* What a step can be, by what it does to the tables and to the phase of   *)
(* the ingest.                                                             *)

\* The version in progress, unchanged by a step.
SameVersion ==
  job'.doc = job.doc /\ job'.text = job.text /\ job'.version = job.version

\* The steps that write the document table or publish a version.
Stored ==
  /\ pc = "store" /\ pc' = "fetch"
  /\ UpsertDocument(job.doc, job.text)
  /\ job' = [job EXCEPT !.version = LatestVersion(job.doc) + 1]
  /\ committed' = committed

Undone ==
  /\ pc = "undoChunks" /\ pc' = "idle"
  /\ DeleteVersion(job.doc, job.version)
  /\ Finish(IF job.clean THEN "rolled back" ELSE "rollback incomplete")

Swept ==
  /\ pc = "sweepChunks" /\ pc' = "sweep"
  /\ DeleteVersion(job.doc, job.cursor)
  /\ NextOlder
  /\ SameVersion

Committing ==
  /\ pc = "upsertPoints" /\ pc' = "sweep"
  /\ UpsertPoints(job.fetched, job.text)
  /\ job' = [job EXCEPT !.cursor = job.version - 1]
  /\ committed' = {c \in committed : c.doc # job.doc}
       \cup {[doc |-> job.doc, version |-> job.version, text |-> job.text]}
  /\ SameVersion

\* The others leave the document table, the chunk rows and the published
\* versions alone.
TablesKept == UNCHANGED <<documents, chunks, committed>>

Quiet ==
  /\ TablesKept
  /\ \/ pc' \in Unnumbered \cup {"idle"}
     \/ /\ pc \in Writing \cup Undoing /\ pc' \in Writing \cup Undoing
        /\ SameVersion
     \/ /\ pc \in Sweeping /\ pc' \in Sweeping \cup {"invalidate"}
        /\ SameVersion
     \/ UNCHANGED vars

\* Every step stores, undoes, sweeps or commits a version, or leaves the tables.
LEMMA StepPhases ==
  ASSUME TypeInv, [Next]_vars
  PROVE  Stored \/ Undone \/ Swept \/ Committing \/ Quiet
<1>job. pc # "idle" => job \in Job
  BY WorkerHasJob DEF TypeInv
<1> USE DEF Goto, GotoUnclean, Finish, Unapplied, NextOlder, storeVars, Quiet,
            TablesKept, Unnumbered, Writing, Undoing, Sweeping
<1>1. ASSUME NEW d \in Docs, NEW t \in Texts, Submit(d, t) PROVE Quiet
  BY <1>1 DEF Submit
<1>2. ChunkText \/ EmbedPassages => Quiet
  BY DEF ChunkText, EmbedPassages
<1>3. StoreChunks => Stored \/ Quiet
  BY DEF StoreChunks, Stored
<1>4. FetchChunks => Quiet
  BY <1>job DEF FetchChunks, SameVersion, Job
<1>5. ClearPostings \/ ClearPoints \/ IndexPostings => Quiet
  BY DEF ClearPostings, ClearPoints, IndexPostings, RemovePostings, DeletePoints,
         IndexChunks, SameVersion
<1>6. IndexPoints => Committing \/ Quiet
  BY <1>job DEF IndexPoints, UpsertPoints, SameVersion, Committing, Job
<1>7. UndoPoints \/ UndoPostings => Quiet
  BY <1>job DEF UndoPoints, UndoPostings, DeletePoints, RemovePostings, SameVersion, Job
<1>8. UndoChunks => Undone \/ Quiet
  BY DEF UndoChunks, Undone
<1>9. SweepCheck => Quiet
  BY <1>job DEF SweepCheck, SameVersion, Job
<1>10. SweepPoints \/ SweepPostings => Quiet
  BY <1>job DEF SweepPoints, SweepPostings, DeletePoints, RemovePostings, SameVersion, Job
<1>11. SweepChunks => Swept \/ Quiet
  BY <1>job DEF SweepChunks, Swept, SameVersion, Job
<1>12. Invalidate \/ Crash => Quiet
  BY DEF Invalidate, Crash
<1>13. UNCHANGED vars => Quiet
  BY DEF vars
<1>14. QED
  BY <1>1, <1>2, <1>3, <1>4, <1>5, <1>6, <1>7, <1>8, <1>9, <1>10, <1>11, <1>12, <1>13
     DEF Next, Step

-----------------------------------------------------------------------------
(* The parts of the inductive invariant *)

\* What the worker is about to delete is never a committed version.
LEMMA DeletedIsNotCommitted ==
  ASSUME IngestionInv
  PROVE  /\ pc \in Writing \cup Undoing =>
              \A p \in committed : p.doc = job.doc => p.version # job.version
         /\ pc \in Sweeping =>
              \A p \in committed : p.doc = job.doc => p.version # job.cursor
<1>1. \A p \in committed : p.version \in Nat
  BY DEF IngestionInv, TypeOK, Publication, Versions
<1>2. pc \in Writing \cup Undoing \cup Sweeping => job \in Job /\ job.version \in Nat
  BY WorkerHasJob DEF IngestionInv, JobInv, Numbered, Writing, Undoing, Sweeping, Versions
<1>3. pc \in Sweeping => job.cursor < job.version /\ job.cursor \in Nat
  BY <1>2, StoresAssumption DEF IngestionInv, JobInv, Job, Sweeping
<1>4. QED
  BY <1>1, <1>2, <1>3 DEF IngestionInv, NumberInv

\* Every step keeps the document table and the chunk rows agreeing.
LEMMA TablesStep ==
  ASSUME IngestionInv, [Next]_vars
  PROVE  TablesAgree'
<1>inv. TypeInv /\ StoresTypeOK /\ TablesAgree
  BY DEF IngestionInv, TypeInv, TypeOK
<1>1. CASE Quiet
  BY <1>1, <1>inv DEF Quiet, TablesKept, TablesAgree
<1>2. CASE Stored
  <2> DEFINE d == job.doc
             v == LatestVersion(job.doc) + 1
             new == ChunksOf(d, v, job.text)
  <2>1. job \in Job /\ ChunkCount[job.text] > 0 /\ LatestVersion(d) < MaxVersion
    BY <1>2, WorkerHasJob DEF Stored, IngestionInv, JobInv, Unnumbered
  <2>2. d \in Docs /\ job.text \in Texts /\ v \in Versions
    BY <2>1, <1>inv, NextVersion DEF Job
  <2>3. /\ \A e : e # d => VersionsIn(documents', e) = VersionsIn(documents, e)
        /\ VersionsIn(documents', d) = VersionsIn(documents, d) \cup {v}
    BY <1>2, <1>inv, UpsertDocumentVersions DEF Stored
  <2>4. chunks' = chunks \cup new /\ committed' = committed
    BY <1>2 DEF Stored, UpsertDocument
  <2>5. new # {} /\ \A c \in new : c.doc = d /\ c.version = v
    BY <2>1, <2>2, ChunksExist, ChunksOfVersion
  <2> HIDE DEF d, v, new
  <2>6. \A e \in Docs : \A w \in VersionsIn(documents', e) : OfVersion(chunks', e, w) # {}
    BY <1>inv, <2>3, <2>4, <2>5 DEF TablesAgree, OfVersion
  <2>7. \A c \in chunks' : c.version \in VersionsIn(documents', c.doc)
    BY <1>inv, <2>3, <2>4, <2>5 DEF TablesAgree
  <2>8. \A p \in committed' : p.version \in VersionsIn(documents', p.doc)
    BY <1>inv, <2>3, <2>4 DEF TablesAgree
  <2>9. QED
    BY <2>6, <2>7, <2>8 DEF TablesAgree
<1>3. ASSUME NEW n, DeleteVersion(job.doc, n), committed' = committed,
             \A p \in committed : p.doc = job.doc => p.version # n
      PROVE  TablesAgree'
  <2>1. /\ \A e : e # job.doc => VersionsIn(documents', e) = VersionsIn(documents, e)
        /\ VersionsIn(documents', job.doc) = VersionsIn(documents, job.doc) \ {n}
    BY <1>3, <1>inv, DeleteVersionVersions
  <2>2. chunks' = Without(chunks, job.doc, n)
    BY <1>3 DEF DeleteVersion
  <2>3. \A e \in Docs : \A w \in VersionsIn(documents', e) : OfVersion(chunks', e, w) # {}
    BY <1>inv, <2>1, <2>2, WithoutVersion DEF TablesAgree
  <2>4. \A c \in chunks' : c.version \in VersionsIn(documents', c.doc)
    BY <1>inv, <2>1, <2>2 DEF TablesAgree, Without
  <2>5. \A p \in committed' : p.version \in VersionsIn(documents', p.doc)
    BY <1>inv, <1>3, <2>1 DEF TablesAgree
  <2>6. QED
    BY <2>3, <2>4, <2>5 DEF TablesAgree
<1>4. CASE Undone
  BY <1>3, <1>4, DeletedIsNotCommitted DEF Undone, Undoing, Finish
<1>5. CASE Swept
  BY <1>3, <1>5, DeletedIsNotCommitted DEF Swept, Sweeping, NextOlder
<1>6. CASE Committing
  <2>1. job.version \in VersionsIn(documents, job.doc)
    BY <1>6 DEF Committing, IngestionInv, NumberInv, Numbered, Writing
  <2>2. documents' = documents /\ chunks' = chunks
    BY <1>6 DEF Committing, UpsertPoints
  <2>3. QED
    BY <1>6, <1>inv, <2>1, <2>2 DEF Committing, TablesAgree
<1>7. QED
  BY <1>1, <1>2, <1>4, <1>5, <1>6, <1>inv, StepPhases

\* The indexes gain entries only of the version in progress.
EntriesFrom(known) ==
  \A e \in postings' \cup points' :
    e \in postings \cup points \/ (known /\ e.doc = job.doc /\ e.version = job.version)

\* What each step may add to the two indexes.
LEMMA EntriesStep ==
  ASSUME IngestionInv, [Next]_vars
  PROVE  EntriesFrom(pc \in {"indexPostings", "upsertPoints"})
<1> DEFINE these == ChunksOf(job.doc, job.version, job.text)
<1>job. pc # "idle" => job \in Job
  BY WorkerHasJob DEF IngestionInv
<1>1. ASSUME pc \in {"indexPostings", "upsertPoints"}
      PROVE  /\ job.fetched = these
             /\ \A e \in these : e.doc = job.doc /\ e.version = job.version
             /\ {[e EXCEPT !.text = job.text] : e \in these} = these
  <2>1. job.fetched = these /\ job.version \in Versions
    BY <1>1 DEF IngestionInv, WriteInv, JobInv, Writing, Numbered
  <2>2. job.doc \in Docs /\ job.text \in Texts
    BY <1>1, <1>job DEF Job
  <2>3. QED
    BY <2>1, <2>2, ChunksOfVersion, ReembedChunks
<1> HIDE DEF these
<1> USE DEF EntriesFrom
<1>2. CASE UNCHANGED <<postings, points>>
  BY <1>2
<1>3. CASE ClearPostings \/ UndoPostings \/ SweepPostings
  BY <1>3 DEF ClearPostings, UndoPostings, SweepPostings, RemovePostings, Without,
              Unapplied, storeVars
<1>4. CASE ClearPoints \/ UndoPoints \/ SweepPoints
  BY <1>4 DEF ClearPoints, UndoPoints, SweepPoints, DeletePoints, Without,
              Unapplied, storeVars
<1>5. CASE IndexPostings
  BY <1>1, <1>5 DEF IndexPostings, IndexChunks, Overwrite, Unapplied, storeVars
<1>6. CASE IndexPoints
  BY <1>1, <1>6 DEF IndexPoints, UpsertPoints, Overwrite, Unapplied, storeVars
<1>7. ASSUME NEW d \in Docs, NEW t \in Texts, Submit(d, t)
      PROVE  UNCHANGED <<postings, points>>
  BY <1>7 DEF Submit, storeVars
<1>8. ChunkText \/ EmbedPassages \/ FetchChunks \/ SweepCheck \/ Invalidate \/ Crash
        => UNCHANGED <<postings, points>>
  BY DEF ChunkText, EmbedPassages, FetchChunks, SweepCheck, Invalidate, Crash, storeVars
<1>9. StoreChunks \/ UndoChunks \/ SweepChunks => UNCHANGED <<postings, points>>
  BY DEF StoreChunks, UndoChunks, SweepChunks, UpsertDocument, DeleteVersion,
         Unapplied, storeVars
<1>10. UNCHANGED vars => UNCHANGED <<postings, points>>
  BY DEF vars, storeVars
<1>11. QED
  BY <1>2, <1>3, <1>4, <1>5, <1>6, <1>7, <1>8, <1>9, <1>10 DEF Next, Step

\* Every step keeps the version in progress the highest of its document.
LEMMA NumberStep ==
  ASSUME IngestionInv, [Next]_vars
  PROVE  NumberInv'
<1>inv. TypeInv /\ StoresTypeOK /\ NumberInv
  BY DEF IngestionInv, TypeInv, TypeOK
<1>type. TypeInv' /\ StoresTypeOK'
  BY <1>inv, StepTypeInv DEF TypeInv, TypeOK
<1>labels. /\ Unnumbered \cap Numbered = {} /\ "idle" \notin Numbered
           /\ (Writing \cup Undoing) \cap (Sweeping \cup {"invalidate"}) = {}
  BY DEF Unnumbered, Numbered, Writing, Undoing, Sweeping
<1>1. CASE pc' \notin Numbered
  BY <1>1 DEF NumberInv, Numbered
<1>2. CASE TablesKept /\ SameVersion /\ pc \in Numbered
           /\ (pc' \in Writing \cup Undoing => pc \in Writing \cup Undoing)
           /\ (pc' \in Sweeping \cup {"invalidate"} => pc \in Sweeping \cup {"invalidate"})
  <2>1. \A e \in postings' \cup points' :
          e.doc = job.doc => e.version \in VersionsIn(documents, e.doc)
    BY <1>inv, <1>2, EntriesStep DEF EntriesFrom, NumberInv
  <2>2. QED
    BY <1>inv, <1>2, <2>1 DEF NumberInv, TablesKept, SameVersion, LatestVersion
<1>3. CASE Stored
  <2> DEFINE d == job.doc
             v == LatestVersion(job.doc) + 1
  <2>1. job \in Job /\ job.doc \in Docs
    BY <1>3, <1>inv, WorkerHasJob DEF Stored, TypeInv, Job
  <2>2. job'.doc = d /\ job'.version = v
    BY <1>3, <2>1 DEF Stored, Job
  <2>3. /\ VersionsIn(documents', d) = VersionsIn(documents, d) \cup {v}
        /\ Highest(documents', d) = v
    BY <1>3, <1>inv, <1>type, UpsertDocumentVersions, UpsertDocumentHighest
       DEF Stored, LatestVersion
  <2>4. LatestVersion(d) \in VersionsIn(documents, d) \cup {0} /\ LatestVersion(d) \in Nat
    BY <1>inv, LatestVersionIsHighest, StoresAssumption
  <2>5. \A e \in postings \cup points :
          e.doc = d => e.version \in VersionsIn(documents, d) \cup {v}
    BY DEF IngestionInv, OrphansReclaimable
  <2>6. postings' = postings /\ points' = points /\ committed' = committed
    BY <1>3 DEF Stored, UpsertDocument
  <2>7. \A p \in committed : p.doc = d => p.version < v
    <3>1. \A p \in committed : p.version \in VersionsIn(documents, p.doc)
      BY DEF IngestionInv, TablesAgree
    <3>2. \A w \in VersionsIn(documents, d) : w \in Nat /\ w <= LatestVersion(d)
      BY <1>inv, LatestVersionIsHighest DEF Versions
    <3>3. QED
      BY <2>4, <3>1, <3>2
  <2>8. pc' = "fetch"
    BY <1>3 DEF Stored
  <2>9. v - 1 = LatestVersion(d)
    BY <2>4
  <2> HIDE DEF d, v
  <2>10. /\ job'.version = Highest(documents', job'.doc)
         /\ job'.version \in VersionsIn(documents', job'.doc)
         /\ \A e \in postings' \cup points' :
              e.doc = job'.doc => e.version \in VersionsIn(documents', e.doc)
    BY <2>2, <2>3, <2>5, <2>6
  <2>11. /\ job'.version - 1 \in VersionsIn(documents', job'.doc) \cup {0}
         /\ \A p \in committed' : p.doc = job'.doc => p.version < job'.version
    BY <2>2, <2>3, <2>4, <2>6, <2>7, <2>9
  <2>12. QED
    BY <2>8, <2>10, <2>11 DEF NumberInv, LatestVersion, Sweeping
<1>4. CASE Swept
  <2>1. pc' = "sweep" /\ pc \in Sweeping /\ pc \in Numbered /\ committed' = committed
    BY <1>4 DEF Swept, NextOlder, Sweeping, Numbered
  <2>2. job.cursor # job.version
    BY <1>4, <1>inv, WorkerHasJob
       DEF Swept, Sweeping, TypeInv, JobInv, Job, Numbered, Versions
  <2>3. /\ VersionsIn(documents', job.doc) = VersionsIn(documents, job.doc) \ {job.cursor}
        /\ Highest(documents', job.doc) = Highest(documents, job.doc)
    BY <1>4, <1>inv, <1>type, <2>1, <2>2, DeleteVersionVersions, DeleteVersionHighest
       DEF Swept, NumberInv, LatestVersion
  <2>4. \A e \in postings \cup points : e.doc = job.doc => e.version # job.cursor
    BY <1>4 DEF Swept, IngestionInv, SweepInv, OfVersion
  <2>5. postings' = postings /\ points' = points
    BY <1>4 DEF Swept, DeleteVersion
  <2>6. SameVersion
    BY <1>4 DEF Swept
  <2>7. /\ job'.version = Highest(documents', job'.doc)
        /\ job'.version \in VersionsIn(documents', job'.doc)
        /\ \A e \in postings' \cup points' :
             e.doc = job'.doc => e.version \in VersionsIn(documents', e.doc)
    BY <1>inv, <2>1, <2>2, <2>3, <2>4, <2>5, <2>6 DEF NumberInv, SameVersion, LatestVersion
  <2>8. QED
    BY <1>inv, <2>1, <2>6, <2>7 DEF NumberInv, SameVersion, LatestVersion, Writing,
                                    Undoing, Sweeping
<1>5. CASE Committing
  <2>1. /\ pc \in Numbered /\ pc' = "sweep" /\ documents' = documents
        /\ job'.doc = job.doc /\ job'.version = job.version
    BY <1>5 DEF Committing, UpsertPoints, Numbered, Writing, SameVersion
  <2>2. \A e \in postings' \cup points' :
          e.doc = job.doc => e.version \in VersionsIn(documents, e.doc)
    BY <1>inv, <2>1, EntriesStep DEF EntriesFrom, NumberInv
  <2>3. /\ \A p \in committed' : p.doc = job.doc => p.version = job.version
        /\ \E p \in committed' : p.doc = job.doc
    <3> DEFINE new == [doc |-> job.doc, version |-> job.version, text |-> job.text]
    <3>1. new.doc = job.doc /\ new.version = job.version
      OBVIOUS
    <3> HIDE DEF new
    <3>2. committed' = {c \in committed : c.doc # job.doc} \cup {new}
      BY <1>5 DEF Committing, new
    <3>3. QED
      BY <3>1, <3>2
  <2>4. QED
    BY <1>inv, <2>1, <2>2, <2>3 DEF NumberInv, LatestVersion, Writing, Undoing, Sweeping
<1>6. CASE UNCHANGED vars
  BY <1>inv, <1>6 DEF vars, storeVars, workerVars, NumberInv, LatestVersion
<1>7. CASE Undone
  BY <1>1, <1>7, <1>labels DEF Undone
<1>8. CASE Quiet
  BY <1>1, <1>2, <1>6, <1>8, <1>labels DEF Quiet, Numbered
<1>9. QED
  BY <1>3, <1>4, <1>5, <1>7, <1>8, <1>inv, StepPhases

\* Every step keeps what the writes so far have left.
LEMMA WriteStep ==
  ASSUME IngestionInv, [Next]_vars
  PROVE  WriteInv'
<1>inv. TypeInv /\ StoresTypeOK /\ WriteInv /\ TablesAgree
  BY DEF IngestionInv, TypeInv, TypeOK
<1>job. pc # "idle" => job \in Job /\ job.doc \in Docs /\ job.text \in Texts
  BY <1>inv, WorkerHasJob DEF TypeInv, Job
<1> USE DEF Goto, GotoUnclean, Finish, Unapplied, NextOlder, storeVars
<1>1. CASE pc' \notin Writing
  BY <1>1 DEF WriteInv, Writing
<1>2. CASE Stored
  <2> DEFINE d == job.doc
             v == LatestVersion(job.doc) + 1
             new == ChunksOf(d, v, job.text)
  <2>1. job \in Job /\ LatestVersion(d) < MaxVersion
    BY <1>2, <1>job DEF Stored, IngestionInv, JobInv, Unnumbered
  <2>2. d \in Docs /\ job.text \in Texts /\ v \in Versions
    BY <2>1, <1>inv, NextVersion DEF Job
  <2>3. \A c \in new : c.doc = d /\ c.version = v
    BY <2>2, ChunksOfVersion
  <2>4. v \notin VersionsIn(documents, d)
    BY <1>inv, LatestVersionIsHighest, StoresAssumption DEF Versions
  <2>5. chunks' = chunks \cup new /\ pc' = "fetch"
    BY <1>2 DEF Stored, UpsertDocument
  <2>6. job'.doc = d /\ job'.version = v /\ job'.text = job.text
    BY <1>2, <2>1 DEF Stored, Job
  <2> HIDE DEF d, v, new
  <2>7. OfVersion(chunks', d, v) = new
    BY <1>inv, <2>3, <2>4, <2>5 DEF TablesAgree, OfVersion
  <2>8. QED
    BY <2>5, <2>6, <2>7 DEF WriteInv, new
<1>3. CASE FetchChunks /\ pc' = "clearPostings"
  <2>1. /\ SameVersion /\ chunks' = chunks
        /\ job'.fetched = OfVersion(chunks, job.doc, job.version)
    BY <1>3, <1>job DEF FetchChunks, SameVersion, Job
  <2>2. pc \in Writing
    BY <1>3 DEF FetchChunks, Writing
  <2>3. QED
    BY <1>3, <1>inv, <2>1, <2>2 DEF WriteInv, SameVersion
<1>4. CASE ClearPostings /\ pc' = "clearPoints"
  <2>1. pc = "clearPostings" /\ job' = job /\ chunks' = chunks /\ points' = points
    BY <1>4 DEF ClearPostings, RemovePostings
  <2>2. OfVersion(postings', job.doc, job.version) = {}
    BY <1>4, WithoutVersion DEF ClearPostings, RemovePostings
  <2>3. QED
    BY <1>4, <1>inv, <2>1, <2>2 DEF WriteInv, Writing
<1>5. CASE ClearPoints /\ pc' = "indexPostings"
  <2>1. pc = "clearPoints" /\ job' = job /\ chunks' = chunks /\ postings' = postings
    BY <1>5 DEF ClearPoints, DeletePoints
  <2>2. OfVersion(points', job.doc, job.version) = {}
    BY <1>5, WithoutVersion DEF ClearPoints, DeletePoints
  <2>3. QED
    BY <1>5, <1>inv, <2>1, <2>2 DEF WriteInv, Writing
<1>6. CASE IndexPostings /\ pc' = "upsertPoints"
  <2> DEFINE these == ChunksOf(job.doc, job.version, job.text)
  <2>1. pc = "indexPostings" /\ job' = job /\ chunks' = chunks /\ points' = points
    BY <1>6 DEF IndexPostings, IndexChunks
  <2>2. postings' = Overwrite(postings, these)
    BY <1>6, <1>inv, <2>1 DEF IndexPostings, IndexChunks, WriteInv, Writing
  <2>3. \A c \in these : c.doc = job.doc /\ c.version = job.version
    BY <1>inv, <1>job, <2>1, ChunksOfVersion DEF TypeInv, JobInv, Numbered, Writing
  <2>4. OfVersion(postings, job.doc, job.version) = {}
    BY <1>inv, <2>1 DEF WriteInv
  <2> HIDE DEF these
  <2>5. OfVersion(postings', job.doc, job.version) = these
    BY <2>2, <2>3, <2>4 DEF Overwrite, OfVersion, Id
  <2>6. QED
    BY <1>6, <1>inv, <2>1, <2>5 DEF WriteInv, Writing, these
<1>7. CASE UNCHANGED vars
  BY <1>7, <1>inv DEF vars, workerVars, WriteInv
<1>8. ASSUME NEW d \in Docs, NEW t \in Texts, Submit(d, t) PROVE pc' \notin Writing
  BY <1>8 DEF Submit, Writing
<1>9. /\ StoreChunks => Stored \/ pc' \notin Writing
      /\ FetchChunks => pc' = "clearPostings" \/ pc' \notin Writing
      /\ ClearPostings => pc' = "clearPoints" \/ pc' \notin Writing
      /\ ClearPoints => pc' = "indexPostings" \/ pc' \notin Writing
      /\ IndexPostings => pc' = "upsertPoints" \/ pc' \notin Writing
      /\ IndexPoints => pc' \notin Writing
  BY DEF StoreChunks, Stored, FetchChunks, ClearPostings, ClearPoints, IndexPostings,
         IndexPoints, Writing
<1>10. ChunkText \/ EmbedPassages \/ UndoPoints \/ UndoPostings \/ UndoChunks \/ SweepCheck
         \/ SweepPoints \/ SweepPostings \/ SweepChunks \/ Invalidate \/ Crash
       => pc' \notin Writing
  BY DEF ChunkText, EmbedPassages, UndoPoints, UndoPostings, UndoChunks, SweepCheck,
         SweepPoints, SweepPostings, SweepChunks, Invalidate, Crash, Writing
<1>11. QED
  BY <1>1, <1>2, <1>3, <1>4, <1>5, <1>6, <1>7, <1>8, <1>9, <1>10 DEF Next, Step

\* Every step keeps what a clean rollback has cleared.
LEMMA UndoStep ==
  ASSUME IngestionInv, [Next]_vars
  PROVE  UndoInv'
<1>inv. UndoInv
  BY DEF IngestionInv
<1>job. pc # "idle" => job \in Job
  BY WorkerHasJob DEF IngestionInv
<1> USE DEF Goto, GotoUnclean, Finish, Unapplied, NextOlder, storeVars
<1>1. CASE pc' \notin {"undoPostings", "undoChunks"}
  BY <1>1 DEF UndoInv
<1>2. CASE UndoPoints
  <2>1. CASE DeletePoints(job.doc, job.version) /\ Goto("undoPostings")
    BY <2>1, WithoutVersion DEF UndoInv, DeletePoints
  <2>2. CASE GotoUnclean("undoPostings")
    <3>1. ~ job'.clean /\ pc' = "undoPostings"
      BY <1>2, <2>2, <1>job DEF UndoPoints, Job
    <3>2. QED
      BY <3>1 DEF UndoInv
  <2>3. QED
    BY <1>2, <2>1, <2>2 DEF UndoPoints
<1>3. CASE UndoPostings
  <2>1. CASE RemovePostings(job.doc, job.version) /\ Goto("undoChunks")
    BY <1>3, <2>1, <1>inv, WithoutVersion DEF UndoPostings, UndoInv, RemovePostings
  <2>2. CASE GotoUnclean("undoChunks")
    <3>1. ~ job'.clean
      BY <1>3, <2>2, <1>job DEF UndoPostings, Job
    <3>2. QED
      BY <3>1 DEF UndoInv
  <2>3. QED
    BY <1>3, <2>1, <2>2 DEF UndoPostings
<1>4. CASE UNCHANGED vars
  BY <1>4, <1>inv DEF vars, workerVars, UndoInv
<1>5. ASSUME NEW d \in Docs, NEW t \in Texts, Submit(d, t)
      PROVE  pc' \notin {"undoPostings", "undoChunks"}
  BY <1>5 DEF Submit
<1>6. ChunkText \/ EmbedPassages \/ StoreChunks \/ FetchChunks \/ ClearPostings
        \/ ClearPoints \/ IndexPostings \/ IndexPoints \/ UndoChunks
      => pc' \notin {"undoPostings", "undoChunks"}
  BY DEF ChunkText, EmbedPassages, StoreChunks, FetchChunks, ClearPostings, ClearPoints,
         IndexPostings, IndexPoints, UndoChunks
<1>7. SweepCheck \/ SweepPoints \/ SweepPostings \/ SweepChunks \/ Invalidate \/ Crash
      => pc' \notin {"undoPostings", "undoChunks"}
  BY DEF SweepCheck, SweepPoints, SweepPostings, SweepChunks, Invalidate, Crash
<1>8. QED
  BY <1>1, <1>2, <1>3, <1>4, <1>5, <1>6, <1>7 DEF Next, Step

\* Every step keeps what the sweep has cleared.
LEMMA SweepStep ==
  ASSUME IngestionInv, [Next]_vars
  PROVE  SweepInv'
<1>inv. TypeInv /\ StoresTypeOK /\ SweepInv /\ NumberInv /\ TablesAgree
  BY DEF IngestionInv, TypeInv, TypeOK
<1>job. pc # "idle" => job \in Job /\ job.doc \in Docs
  BY <1>inv, WorkerHasJob DEF TypeInv, Job
<1>nat. pc \in Sweeping \cup {"upsertPoints"} =>
          /\ \A v \in VersionsIn(documents, job.doc) :
               v \in Nat /\ v > 0 /\ v <= job.version
          /\ job.version \in Nat /\ job.cursor \in Nat
          /\ job.version \in VersionsIn(documents, job.doc)
  <2> SUFFICES ASSUME pc \in Sweeping \cup {"upsertPoints"}
               PROVE  /\ \A v \in VersionsIn(documents, job.doc) :
                           v \in Nat /\ v > 0 /\ v <= job.version
                      /\ job.version \in Nat /\ job.cursor \in Nat
                      /\ job.version \in VersionsIn(documents, job.doc)
    OBVIOUS
  <2>1. pc \in Numbered /\ pc # "idle"
    BY DEF Numbered, Writing, Sweeping
  <2>2. job.version = LatestVersion(job.doc) /\ job.version \in VersionsIn(documents, job.doc)
    BY <1>inv, <2>1 DEF NumberInv
  <2>3. \A v \in VersionsIn(documents, job.doc) : v \in Versions /\ v <= job.version
    BY <1>inv, <2>2, LatestVersionIsHighest
  <2>4. job.cursor \in Nat
    BY <1>job, <2>1, StoresAssumption DEF Job
  <2>5. QED
    BY <2>2, <2>3, <2>4 DEF Versions
<1> USE DEF Goto, Finish, Unapplied, storeVars
<1>1. CASE pc' \notin Sweeping \cup {"invalidate"}
  BY <1>1 DEF SweepInv, Sweeping
<1>2. CASE Committing
  <2>1. /\ pc = "upsertPoints" /\ pc' = "sweep" /\ documents' = documents
        /\ job'.doc = job.doc /\ job'.version = job.version
        /\ job'.cursor = job.version - 1
    BY <1>2, <1>job DEF Committing, UpsertPoints, SameVersion, Job
  <2>2. \A v \in VersionsIn(documents, job.doc) : v = job.version \/ v <= job.version - 1
    BY <1>nat, <2>1
  <2>3. QED
    BY <2>1, <2>2 DEF SweepInv
<1>3. CASE SweepCheck
  <2>1. pc = "sweep" /\ documents' = documents
    BY <1>3 DEF SweepCheck
  <2>2. \A v \in VersionsIn(documents, job.doc) : v = job.version \/ v <= job.cursor
    BY <1>inv, <2>1 DEF SweepInv, Sweeping
  <2>3. CASE job.cursor = 0 /\ Goto("invalidate")
    <3>1. VersionsIn(documents, job.doc) = {job.version}
      BY <1>nat, <2>1, <2>2, <2>3 DEF Sweeping
    <3>2. QED
      BY <2>1, <2>3, <3>1 DEF SweepInv, Sweeping
  <2>4. CASE OfVersion(chunks, job.doc, job.cursor) = {} /\ NextOlder
    <3>1. /\ job'.doc = job.doc /\ job'.version = job.version
          /\ job'.cursor = job.cursor - 1 /\ pc' = "sweep"
      BY <1>job, <2>1, <2>4 DEF NextOlder, Job
    <3>2. job.cursor \notin VersionsIn(documents, job.doc)
      BY <1>inv, <1>job, <2>1, <2>4 DEF TablesAgree
    <3>3. \A v \in VersionsIn(documents, job.doc) : v = job.version \/ v <= job.cursor - 1
      BY <1>nat, <2>1, <2>2, <3>2 DEF Sweeping
    <3>4. QED
      BY <2>1, <3>1, <3>3 DEF SweepInv
  <2>5. CASE Goto("sweepPoints")
    BY <2>1, <2>2, <2>5 DEF SweepInv
  <2>6. CASE Finish("unhandled")
    BY <1>1, <2>6 DEF Sweeping
  <2>7. QED
    BY <1>3, <2>3, <2>4, <2>5, <2>6 DEF SweepCheck
<1>4. CASE SweepPoints
  <2>1. CASE DeletePoints(job.doc, job.cursor) /\ Goto("sweepPostings")
    BY <1>4, <2>1, <1>inv, WithoutVersion DEF SweepPoints, SweepInv, DeletePoints, Sweeping
  <2>2. QED
    BY <1>1, <1>4, <2>1 DEF SweepPoints, Sweeping
<1>5. CASE SweepPostings
  <2>1. CASE RemovePostings(job.doc, job.cursor) /\ Goto("sweepChunks")
    BY <1>5, <2>1, <1>inv, WithoutVersion
       DEF SweepPostings, SweepInv, RemovePostings, Sweeping
  <2>2. QED
    BY <1>1, <1>5, <2>1 DEF SweepPostings, Sweeping
<1>6. CASE Swept
  <2>1. /\ pc \in Sweeping /\ pc' = "sweep"
        /\ job'.doc = job.doc /\ job'.version = job.version
        /\ job'.cursor = job.cursor - 1
    BY <1>6, <1>job DEF Swept, NextOlder, Sweeping, SameVersion, Job
  <2>2. VersionsIn(documents', job.doc) = VersionsIn(documents, job.doc) \ {job.cursor}
    BY <1>6, <1>inv, DeleteVersionVersions DEF Swept
  <2>3. \A v \in VersionsIn(documents', job.doc) : v = job.version \/ v <= job.cursor - 1
    BY <1>inv, <1>nat, <2>1, <2>2 DEF SweepInv
  <2>4. QED
    BY <2>1, <2>3 DEF SweepInv
<1>7. CASE UNCHANGED vars
  BY <1>7, <1>inv DEF vars, workerVars, SweepInv
<1>8. ASSUME NEW d \in Docs, NEW t \in Texts, Submit(d, t)
      PROVE  pc' \notin Sweeping \cup {"invalidate"}
  BY <1>8 DEF Submit, Sweeping
<1>9. ChunkText \/ EmbedPassages \/ StoreChunks \/ FetchChunks \/ ClearPostings
        \/ ClearPoints \/ IndexPostings
      => pc' \notin Sweeping \cup {"invalidate"}
  BY DEF ChunkText, EmbedPassages, StoreChunks, FetchChunks, ClearPostings, ClearPoints,
         IndexPostings, Sweeping
<1>10. UndoPoints \/ UndoPostings \/ UndoChunks \/ Invalidate \/ Crash
      => pc' \notin Sweeping \cup {"invalidate"}
  BY DEF UndoPoints, UndoPostings, UndoChunks, Invalidate, Crash, GotoUnclean, Sweeping
<1>11. /\ IndexPoints => Committing \/ pc' \notin Sweeping \cup {"invalidate"}
       /\ SweepChunks => Swept \/ pc' \notin Sweeping \cup {"invalidate"}
  BY <1>job DEF IndexPoints, Committing, SweepChunks, Swept, NextOlder, SameVersion, Job,
                Sweeping
<1>12. QED
  BY <1>1, <1>2, <1>3, <1>4, <1>5, <1>6, <1>7, <1>8, <1>9, <1>10, <1>11 DEF Next, Step

-----------------------------------------------------------------------------
(* The safety properties *)

\* A step that keeps the committed versions and acts on another version keeps
\* them whole.
LEMMA ServedElsewhere ==
  ASSUME CommittedServed, NEW d, NEW v, TouchesOnly(d, v),
         \A p \in committed' : p \in committed /\ (p.doc = d => p.version # v)
  PROVE  CommittedServed'
  BY DEF CommittedServed, Whole, TouchesOnly

\* No step touches a committed version before a newer one is complete.
LEMMA ServedStep ==
  ASSUME IngestionInv, [Next]_vars
  PROVE  CommittedServed'
<1>inv. TypeInv /\ StoresTypeOK /\ CommittedServed /\ NumberInv /\ WriteInv /\ JobInv
  BY DEF IngestionInv, TypeInv, TypeOK
<1>job. pc # "idle" => job \in Job /\ job.doc \in Docs /\ job.text \in Texts
  BY <1>inv, WorkerHasJob DEF TypeInv, Job
<1>clear. /\ pc \in Writing \cup Undoing =>
               \A p \in committed : p.doc = job.doc => p.version # job.version
          /\ pc \in Sweeping =>
               \A p \in committed : p.doc = job.doc => p.version # job.cursor
  BY DeletedIsNotCommitted
<1>these. pc \in {"indexPostings", "upsertPoints"} =>
            /\ job.version \in Versions
            /\ job.fetched = ChunksOf(job.doc, job.version, job.text)
  BY <1>inv DEF WriteInv, JobInv, Writing, Numbered
<1> USE DEF Goto, GotoUnclean, Finish, Unapplied, NextOlder
<1>1. CASE UNCHANGED <<storeVars, committed>>
  BY <1>1, <1>inv DEF storeVars, CommittedServed, Whole
<1>2. ASSUME NEW d \in Docs, NEW t \in Texts, Submit(d, t)
      PROVE  UNCHANGED <<storeVars, committed>>
  BY <1>2 DEF Submit, storeVars
<1>3. ChunkText \/ EmbedPassages \/ FetchChunks \/ SweepCheck \/ Invalidate \/ Crash
      => UNCHANGED <<storeVars, committed>>
  BY DEF ChunkText, EmbedPassages, FetchChunks, SweepCheck, Invalidate, Crash, storeVars
<1>4. CASE Stored
  <2> DEFINE v == LatestVersion(job.doc) + 1
  <2>1. job.doc \in Docs /\ job.text \in Texts /\ v \in Versions
    BY <1>4, <1>inv, <1>job, NextVersion DEF Stored, JobInv, Unnumbered
  <2>2. TouchesOnly(job.doc, v)
    BY <1>4, <2>1, UpsertDocumentTouchesOneVersion DEF Stored
  <2>3. \A p \in committed : p.doc = job.doc => p.version # v
    BY <1>inv, LatestVersionIsHighest, StoresAssumption DEF IngestionInv, TablesAgree, Versions
  <2>4. committed' = committed
    BY <1>4 DEF Stored
  <2>5. QED
    BY <1>inv, <2>2, <2>3, <2>4, ServedElsewhere
<1>5. CASE ClearPostings \/ ClearPoints \/ UndoPoints \/ UndoPostings
  <2>1. TouchesOnly(job.doc, job.version)
    BY <1>5, OperationsTouchOneVersion
       DEF ClearPostings, ClearPoints, UndoPoints, UndoPostings
  <2>2. committed' = committed /\ pc \in Writing \cup Undoing
    BY <1>5 DEF ClearPostings, ClearPoints, UndoPoints, UndoPostings, Writing, Undoing
  <2>3. QED
    BY <1>inv, <1>clear, <2>1, <2>2, ServedElsewhere
<1>6. CASE IndexPostings
  <2>1. TouchesOnly(job.doc, job.version)
    BY <1>6, <1>job, <1>these, OperationsTouchOneVersion, IndexingTouchesOneVersion
       DEF IndexPostings
  <2>2. committed' = committed /\ pc \in Writing
    BY <1>6 DEF IndexPostings, Writing
  <2>3. QED
    BY <1>inv, <1>clear, <2>1, <2>2, ServedElsewhere
<1>7. CASE IndexPoints
  <2>1. TouchesOnly(job.doc, job.version)
    BY <1>7, <1>job, <1>these, OperationsTouchOneVersion, IndexingTouchesOneVersion
       DEF IndexPoints
  <2>2. pc \in Writing
    BY <1>7 DEF IndexPoints, Writing
  <2>3. CASE committed' = committed
    BY <1>inv, <1>clear, <2>1, <2>2, <2>3, ServedElsewhere
  <2>4. CASE Committing
    <3> DEFINE new == [doc |-> job.doc, version |-> job.version, text |-> job.text]
               these == ChunksOf(job.doc, job.version, job.text)
    <3>1. pc = "upsertPoints" /\ chunks' = chunks /\ postings' = postings
      BY <2>4 DEF Committing, UpsertPoints
    <3>2. /\ OfVersion(chunks, job.doc, job.version) = these
          /\ OfVersion(postings, job.doc, job.version) = these
          /\ OfVersion(points, job.doc, job.version) = {}
      BY <1>inv, <3>1 DEF WriteInv, Writing
    <3>3. \A c \in these : c.doc = job.doc /\ c.version = job.version
      BY <1>job, <1>these, <3>1, ChunksOfVersion
    <3>4. points' = Overwrite(points, these)
      BY <1>job, <1>these, <2>4, <3>1, ReembedChunks DEF Committing, UpsertPoints
    <3> HIDE DEF these
    <3>5. OfVersion(points', job.doc, job.version) = these
      BY <3>2, <3>3, <3>4 DEF Overwrite, OfVersion, Id
    <3>6. Whole(new)'
      <4>1. /\ OfVersion(chunks', job.doc, job.version) = these
            /\ OfVersion(postings', job.doc, job.version) = these
        BY <3>1, <3>2
      <4>2. new.doc = job.doc /\ new.version = job.version /\ new.text = job.text
        OBVIOUS
      <4>3. new' = [doc |-> job'.doc, version |-> job'.version, text |-> job'.text]
        OBVIOUS
      <4>4. job'.doc = job.doc /\ job'.version = job.version /\ job'.text = job.text
        BY <2>4 DEF Committing, SameVersion
      <4>5. QED
        BY <3>5, <4>1, <4>4 DEF Whole, these
    <3>7. \A p \in committed : p.doc # job.doc => Whole(p)'
      BY <1>inv, <2>1 DEF CommittedServed, Whole, TouchesOnly
    <3>8. committed' = {c \in committed : c.doc # job.doc} \cup {new'}
      BY <2>4 DEF Committing, SameVersion
    <3>9. QED
      BY <3>6, <3>7, <3>8 DEF CommittedServed
  <2>5. QED
    BY <1>7, <1>job, <2>3, <2>4 DEF IndexPoints, Committing, SameVersion, Job
<1>8. CASE Undone
  <2>1. TouchesOnly(job.doc, job.version) /\ pc \in Undoing /\ committed' = committed
    BY <1>8, OperationsTouchOneVersion DEF Undone, Undoing
  <2>2. QED
    BY <1>inv, <1>clear, <2>1, ServedElsewhere
<1>9. CASE SweepPoints \/ SweepPostings \/ Swept
  <2>1. TouchesOnly(job.doc, job.cursor)
    BY <1>9, OperationsTouchOneVersion DEF SweepPoints, SweepPostings, Swept
  <2>2. committed' = committed /\ pc \in Sweeping
    BY <1>9 DEF SweepPoints, SweepPostings, Swept, Sweeping
  <2>3. QED
    BY <1>inv, <1>clear, <2>1, <2>2, ServedElsewhere
<1>10. /\ StoreChunks => Stored \/ UNCHANGED <<storeVars, committed>>
       /\ UndoChunks => Undone \/ UNCHANGED <<storeVars, committed>>
       /\ SweepChunks => Swept \/ UNCHANGED <<storeVars, committed>>
  BY <1>job DEF StoreChunks, Stored, UndoChunks, Undone, SweepChunks, Swept, SameVersion, Job
<1>11. UNCHANGED vars => UNCHANGED <<storeVars, committed>>
  BY DEF vars
<1>12. QED
  BY <1>1, <1>2, <1>3, <1>4, <1>5, <1>6, <1>7, <1>8, <1>9, <1>10, <1>11 DEF Next, Step

\* Every step keeps the highest version the only active one.
LEMMA ActiveStep ==
  ASSUME IngestionInv, [Next]_vars
  PROVE  OneActiveVersion'
<1>inv. TypeInv /\ StoresTypeOK
  BY DEF IngestionInv, TypeInv, TypeOK
<1>type. StoresTypeOK'
  BY <1>inv, StepTypeInv DEF TypeInv, TypeOK
<1>active. \A d \in Docs : ActiveIsHighest(documents, d)
  BY DEF IngestionInv, OneActiveVersion, ActiveIsHighest, LatestVersion
<1> SUFFICES ASSUME NEW d \in Docs PROVE ActiveIsHighest(documents', d)
  BY DEF OneActiveVersion, ActiveIsHighest, LatestVersion
<1>1. CASE documents' = documents
  BY <1>1, <1>active
<1>2. CASE Stored
  BY <1>2, <1>inv, <1>type, <1>active, UpsertDocumentActive DEF Stored
<1>3. CASE Undone \/ Swept
  BY <1>3, <1>inv, <1>type, <1>active, DeleteVersionActive DEF Undone, Swept
<1>4. Committing \/ Quiet => documents' = documents
  BY DEF Committing, UpsertPoints, Quiet, TablesKept
<1>5. QED
  BY <1>1, <1>2, <1>3, <1>4, <1>inv, StepPhases

\* A step leaves the versions of a document it does not work on, and the
\* entries of it in the indexes, as they were, but for entries that go.
LEMMA VersionsStep ==
  ASSUME IngestionInv, [Next]_vars
  PROVE  /\ \A d : (pc = "idle" \/ d # job.doc) =>
              VersionsIn(documents', d) = VersionsIn(documents, d)
         /\ \A d : (pc = "idle" \/ d # job.doc) =>
              Highest(documents', d) = Highest(documents, d)
         /\ \A d : ~Stored /\ ~Undone /\ ~Swept =>
              VersionsIn(documents', d) = VersionsIn(documents, d)
         /\ \A c \in chunks' : (pc = "idle" \/ c.doc # job.doc) => c \in chunks
         /\ \A e \in postings' \cup points' :
              (pc = "idle" \/ e.doc # job.doc) => e \in postings \cup points
<1>inv. TypeInv /\ StoresTypeOK
  BY DEF IngestionInv, TypeInv, TypeOK
<1>1. \A e \in postings' \cup points' :
        (pc = "idle" \/ e.doc # job.doc) => e \in postings \cup points
  BY EntriesStep DEF EntriesFrom
<1>2. CASE Committing \/ Quiet
  BY <1>1, <1>2 DEF Committing, UpsertPoints, Quiet, TablesKept
<1>3. CASE Stored
  <2>1. job.doc \in Docs /\ job.text \in Texts /\ LatestVersion(job.doc) < MaxVersion
    BY <1>3, <1>inv, WorkerHasJob DEF Stored, TypeInv, JobInv, Job, Unnumbered
  <2>2. \A c \in ChunksOf(job.doc, LatestVersion(job.doc) + 1, job.text) : c.doc = job.doc
    BY <1>inv, <2>1, NextVersion, ChunksOfVersion
  <2>3. \A d : d # job.doc => VersionsIn(documents', d) = VersionsIn(documents, d)
    BY <1>3, <1>inv, UpsertDocumentVersions DEF Stored
  <2>4. chunks' = chunks \cup ChunksOf(job.doc, LatestVersion(job.doc) + 1, job.text)
    BY <1>3 DEF Stored, UpsertDocument
  <2>5. pc # "idle"
    BY <1>3 DEF Stored
  <2>6. QED
    BY <1>1, <1>3, <2>2, <2>3, <2>4, <2>5 DEF Highest
<1>4. CASE Undone \/ Swept
  <2>1. PICK n : DeleteVersion(job.doc, n)
    BY <1>4 DEF Undone, Swept
  <2>2. \A d : d # job.doc => VersionsIn(documents', d) = VersionsIn(documents, d)
    BY <1>inv, <2>1, DeleteVersionVersions
  <2>3. chunks' \subseteq chunks
    BY <2>1 DEF DeleteVersion, Without
  <2>4. pc # "idle"
    BY <1>4 DEF Undone, Swept
  <2>5. QED
    BY <1>1, <1>4, <2>2, <2>3, <2>4 DEF Highest
<1>5. QED
  BY <1>2, <1>3, <1>4, <1>inv, StepPhases

\* Every step leaves unknown entries only at the number taken next.
LEMMA OrphansStep ==
  ASSUME IngestionInv, [Next]_vars
  PROVE  OrphansReclaimable'
<1>inv. /\ TypeInv /\ StoresTypeOK /\ NumberInv /\ SweepInv
        /\ \A e \in postings \cup points :
             e.version \in VersionsIn(documents, e.doc) \cup {Highest(documents, e.doc) + 1}
  BY DEF IngestionInv, TypeInv, TypeOK, OrphansReclaimable, LatestVersion
<1>type. StoresTypeOK'
  BY <1>inv, StepTypeInv DEF TypeInv, TypeOK
<1> SUFFICES ASSUME NEW e \in postings' \cup points'
             PROVE  e.version \in VersionsIn(documents', e.doc)
                                     \cup {Highest(documents', e.doc) + 1}
  BY DEF OrphansReclaimable, LatestVersion
<1>1. CASE pc = "idle" \/ e.doc # job.doc
  BY <1>1, <1>inv, VersionsStep
<1>2. CASE pc # "idle" /\ e.doc = job.doc
  <2>1. \/ e \in postings \cup points
        \/ pc \in {"indexPostings", "upsertPoints"} /\ e.version = job.version
    BY EntriesStep DEF EntriesFrom
  <2>2. pc \in Numbered => e.version \in VersionsIn(documents, job.doc)
    BY <1>2, <1>inv, <2>1 DEF NumberInv, Numbered, Writing
  <2>3. CASE Stored
    <3>1. /\ VersionsIn(documents', job.doc)
                = VersionsIn(documents, job.doc) \cup {Highest(documents, job.doc) + 1}
          /\ postings' = postings /\ points' = points
      BY <1>inv, <2>3, UpsertDocumentVersions DEF Stored, UpsertDocument, LatestVersion
    <3>2. QED
      BY <1>2, <1>inv, <3>1
  <2>4. CASE Undone
    <3>1. /\ pc \in Numbered /\ pc \in Undoing
          /\ job.version \in Versions
          /\ VersionsIn(documents', job.doc) = VersionsIn(documents, job.doc) \ {job.version}
      BY <1>inv, <2>4, DeleteVersionVersions
         DEF Undone, Undoing, Numbered, TypeInv, JobInv
    <3>2. Highest(documents', job.doc) = job.version - 1
      BY <1>inv, <1>type, <2>4, <3>1, DeleteVersionHighest
         DEF Undone, NumberInv, LatestVersion
    <3>3. job.version = Highest(documents', job.doc) + 1
      BY <3>1, <3>2 DEF Versions
    <3>4. QED
      BY <1>2, <2>2, <3>1, <3>3
  <2>5. CASE Swept
    <3>1. /\ pc \in Numbered /\ pc \notin {"indexPostings", "upsertPoints"}
          /\ VersionsIn(documents', job.doc) = VersionsIn(documents, job.doc) \ {job.cursor}
      BY <1>inv, <2>5, DeleteVersionVersions DEF Swept, Sweeping, Numbered
    <3>2. e.version # job.cursor
      BY <1>2, <1>inv, <2>1, <2>5, <3>1 DEF Swept, SweepInv, OfVersion
    <3>3. QED
      BY <1>2, <2>2, <3>1, <3>2
  <2>6. CASE Committing \/ Quiet
    <3>1. documents' = documents
      BY <2>6 DEF Committing, UpsertPoints, Quiet, TablesKept
    <3>2. QED
      BY <1>2, <1>inv, <2>1, <2>2, <3>1 DEF Numbered, Writing
  <2>7. QED
    BY <2>3, <2>4, <2>5, <2>6, <1>inv, StepPhases
<1>3. QED
  BY <1>1, <1>2

\* A step of an ingest goes on with it or ends it.  It reports success only
\* after the sweep, and a complete rollback only after the last undo.
GoesOn == pc' # "idle" /\ job'.doc = job.doc /\ result' = result

EndsWith(o) ==
  /\ Finish(o)
  /\ o = "rolled back" => Undone /\ job.clean
  /\ o = "ingested" => pc = "invalidate" /\ UNCHANGED <<storeVars, committed>>

\* A step of an ingest goes on with it or ends it with an outcome.
LEMMA EndStep ==
  ASSUME IngestionInv, [Next]_vars, pc # "idle"
  PROVE  GoesOn \/ (\E o \in Outcomes : EndsWith(o)) \/ UNCHANGED vars
<1>job. job \in Job
  BY WorkerHasJob DEF IngestionInv
<1>1. \A o : Finish(o) /\ o \in Outcomes \ {"rolled back", "ingested"} => EndsWith(o)
  BY DEF EndsWith
<1>2. \A l : Goto(l) /\ l # "idle" => GoesOn
  BY DEF Goto, GoesOn
<1>3. \A l : GotoUnclean(l) /\ l # "idle" => GoesOn
  BY <1>job DEF GotoUnclean, GoesOn, Job
<1>4. NextOlder => GoesOn
  BY <1>job DEF NextOlder, GoesOn, Job
<1>5. ChunkText \/ EmbedPassages \/ FetchChunks
      => GoesOn \/ \E o \in Outcomes : EndsWith(o)
  BY <1>job, <1>1, <1>2 DEF ChunkText, EmbedPassages, FetchChunks, GoesOn, Outcomes, Job
<1>6. StoreChunks => GoesOn \/ \E o \in Outcomes : EndsWith(o)
  BY <1>job, <1>1 DEF StoreChunks, GoesOn, Outcomes, Job
<1>7. ClearPostings \/ ClearPoints \/ IndexPostings => GoesOn
  BY <1>2 DEF ClearPostings, ClearPoints, IndexPostings
<1>8. IndexPoints => GoesOn
  BY <1>job, <1>2 DEF IndexPoints, GoesOn, Job
<1>9. UndoPoints \/ UndoPostings => GoesOn
  BY <1>2, <1>3 DEF UndoPoints, UndoPostings
<1>10. UndoChunks => \E o \in Outcomes : EndsWith(o)
  <2>1. ASSUME UndoChunks, DeleteVersion(job.doc, job.version), job.clean,
               Finish("rolled back")
        PROVE  EndsWith("rolled back")
    BY <2>1 DEF UndoChunks, EndsWith, Undone, Finish
  <2>2. QED
    BY <1>1, <2>1 DEF UndoChunks, Outcomes
<1>11. SweepCheck \/ SweepPoints \/ SweepPostings \/ SweepChunks
       => GoesOn \/ \E o \in Outcomes : EndsWith(o)
  BY <1>1, <1>2, <1>4 DEF SweepCheck, SweepPoints, SweepPostings, SweepChunks, Outcomes
<1>12. Invalidate \/ Crash => \E o \in Outcomes : EndsWith(o)
  <2>1. Invalidate /\ Finish("ingested") => EndsWith("ingested")
    BY DEF Invalidate, EndsWith, Finish
  <2>2. QED
    BY <1>1, <2>1 DEF Invalidate, Crash, Outcomes
<1>13. ASSUME NEW d \in Docs, NEW t \in Texts, Submit(d, t) PROVE FALSE
  BY <1>13 DEF Submit
<1>14. QED
  BY <1>5, <1>6, <1>7, <1>8, <1>9, <1>10, <1>11, <1>12, <1>13 DEF Next, Step

\* What a step does not say about a document it does not work on.
LEMMA RestStep ==
  ASSUME IngestionInv, [Next]_vars, NEW d \in Docs, pc = "idle" \/ d # job.doc,
         Resting(d)'
  PROVE  /\ Resting(d) /\ result'[d] = result[d]
         /\ \A p \in committed : p.doc = d => p \in committed'
<1>inv. TypeInv
  BY DEF IngestionInv, TypeInv
<1>1. CASE pc = "idle"
  <2>1. job = NoJob
    BY <1>1, <1>inv DEF TypeInv, TypeOK
  <2>2. ~Stored /\ ~Undone /\ ~Swept /\ ~Committing
    BY <1>1 DEF Stored, Undone, Swept, Committing
  <2>3. committed' = committed
    BY <1>inv, <2>2, StepPhases DEF Quiet, TablesKept
  <2>4. result' = result
    <3>1. ASSUME NEW e \in Docs, NEW t \in Texts, Submit(e, t) PROVE result' = result
      BY <3>1 DEF Submit
    <3>2. ~Step /\ ~Crash
      BY <1>1 DEF Step, Crash, ChunkText, EmbedPassages, StoreChunks, FetchChunks,
                  ClearPostings, ClearPoints, IndexPostings, IndexPoints, UndoPoints,
                  UndoPostings, UndoChunks, SweepCheck, SweepPoints, SweepPostings,
                  SweepChunks, Invalidate
    <3>3. QED
      BY <3>1, <3>2 DEF Next, vars, workerVars
  <2>5. QED
    BY <2>1, <2>3, <2>4 DEF Resting
<1>2. CASE pc # "idle"
  <2>1. job \in Job /\ job.doc \in Docs /\ result \in [Docs -> Outcomes] /\ d # job.doc
    BY <1>2, <1>inv, WorkerHasJob DEF TypeInv, TypeOK, Job
  <2>2. result'[d] = result[d]
    BY <1>2, <2>1, EndStep DEF GoesOn, EndsWith, Finish, vars, workerVars
  <2>3. \A p \in committed : p.doc = d => p \in committed'
    BY <1>inv, <2>1, StepPhases
       DEF Stored, Undone, Swept, Committing, Quiet, TablesKept, Finish, NextOlder
  <2>4. QED
    BY <2>1, <2>2, <2>3 DEF Resting
<1>3. QED
  BY <1>1, <1>2

\* The document an ingest works on rests only when the ingest has ended.
LEMMA OverStep ==
  ASSUME IngestionInv, [Next]_vars, NEW d, pc # "idle", d = job.doc, Resting(d)'
  PROVE  \E o \in Outcomes : EndsWith(o) /\ result'[d] = o
<1>inv. TypeInv
  BY DEF IngestionInv, TypeInv
<1>type. TypeInv'
  BY <1>inv, StepTypeInv
<1>job. job \in Job /\ job # NoJob /\ job.doc \in Docs /\ result \in [Docs -> Outcomes]
  BY <1>inv, WorkerHasJob DEF TypeInv, TypeOK, Job
<1>1. ~GoesOn
  BY <1>type DEF GoesOn, Resting, TypeInv, TypeOK
<1>2. ~UNCHANGED vars
  BY <1>job DEF Resting, vars, workerVars
<1>3. \A o : EndsWith(o) => result'[d] = o
  BY <1>job DEF EndsWith, Finish
<1>4. QED
  BY <1>1, <1>2, <1>3, EndStep

\* Every step keeps what a reported rollback says.
LEMMA RollbackStep ==
  ASSUME IngestionInv, [Next]_vars
  PROVE  RollbackLeavesNoOrphans'
<1>inv. TypeInv /\ StoresTypeOK /\ NumberInv /\ UndoInv /\ RollbackLeavesNoOrphans
  BY DEF IngestionInv, TypeInv, TypeOK
<1> SUFFICES ASSUME NEW d \in Docs, result'[d] = "rolled back", Resting(d)',
                    NEW e \in postings' \cup points', e.doc = d
             PROVE  e.version \in VersionsIn(documents', d)
  BY DEF RollbackLeavesNoOrphans, Resting
<1>1. CASE pc = "idle" \/ d # job.doc
  <2>1. Resting(d) /\ result[d] = "rolled back"
    BY <1>1, RestStep
  <2>2. e \in postings \cup points /\ VersionsIn(documents', d) = VersionsIn(documents, d)
    BY <1>1, VersionsStep
  <2>3. QED
    BY <1>inv, <2>1, <2>2 DEF RollbackLeavesNoOrphans
<1>2. CASE pc # "idle" /\ d = job.doc
  <2>1. Undone /\ job.clean
    BY <1>2, OverStep DEF EndsWith
  <2>2. /\ pc = "undoChunks" /\ pc \in Numbered
        /\ postings' = postings /\ points' = points
        /\ VersionsIn(documents', d) = VersionsIn(documents, d) \ {job.version}
    BY <1>2, <1>inv, <2>1, DeleteVersionVersions
       DEF Undone, DeleteVersion, Numbered, Undoing
  <2>3. e.version \in VersionsIn(documents, d)
    BY <1>2, <1>inv, <2>2 DEF NumberInv
  <2>4. e.version # job.version
    BY <1>2, <1>inv, <2>1, <2>2 DEF UndoInv, OfVersion
  <2>5. QED
    BY <2>2, <2>3, <2>4
<1>3. QED
  BY <1>1, <1>2

\* Every step keeps what a reported success says.
LEMMA SuccessStep ==
  ASSUME IngestionInv, [Next]_vars
  PROVE  SuccessLeavesOneVersion'
<1>inv. /\ TypeInv /\ NumberInv /\ SweepInv /\ TablesAgree /\ SuccessLeavesOneVersion
  BY DEF IngestionInv, TypeInv
<1> SUFFICES ASSUME NEW d \in Docs, result'[d] = "ingested", Resting(d)'
             PROVE  \E p \in committed' :
                      /\ p.doc = d
                      /\ VersionsIn(documents', d) = {p.version}
                      /\ \A e \in chunks' \cup postings' \cup points' :
                           e.doc = d => e.version = p.version
  BY DEF SuccessLeavesOneVersion, Resting
<1>1. CASE pc = "idle" \/ d # job.doc
  <2>1. Resting(d) /\ result[d] = "ingested"
    BY <1>1, RestStep
  <2>2. PICK p \in committed :
          /\ p.doc = d
          /\ VersionsIn(documents, d) = {p.version}
          /\ \A e \in chunks \cup postings \cup points : e.doc = d => e.version = p.version
    BY <1>inv, <2>1 DEF SuccessLeavesOneVersion
  <2>3. p \in committed'
    BY <1>1, <2>2, RestStep
  <2>4. /\ VersionsIn(documents', d) = VersionsIn(documents, d)
        /\ \A e \in chunks' \cup postings' \cup points' :
             e.doc = d => e \in chunks \cup postings \cup points
    BY <1>1, VersionsStep
  <2>5. QED
    BY <2>2, <2>3, <2>4
<1>2. CASE pc # "idle" /\ d = job.doc
  <2>1. pc = "invalidate" /\ UNCHANGED <<storeVars, committed>>
    BY <1>2, OverStep DEF EndsWith
  <2>2. VersionsIn(documents, d) = {job.version}
    BY <1>2, <1>inv, <2>1 DEF SweepInv
  <2>3. PICK p \in committed : p.doc = d /\ p.version = job.version
    BY <1>2, <1>inv, <2>1 DEF NumberInv
  <2>4. \A e \in chunks \cup postings \cup points :
          e.doc = d => e.version \in VersionsIn(documents, d)
    BY <1>2, <1>inv, <2>1 DEF NumberInv, TablesAgree, Numbered
  <2>5. QED
    BY <2>1, <2>2, <2>3, <2>4 DEF storeVars
<1>3. QED
  BY <1>1, <1>2

-----------------------------------------------------------------------------
(* The theorems *)

\* The invariant holds of the empty stores.
LEMMA InitIngestionInv == Init => IngestionInv
<1> SUFFICES ASSUME Init PROVE IngestionInv
  OBVIOUS
<1>1. TypeOK /\ JobInv
  BY InitTypeInv DEF TypeInv
<1>2. /\ documents = {} /\ chunks = {} /\ postings = {} /\ points = {}
      /\ pc = "idle" /\ committed = {} /\ result = [d \in Docs |-> "none"]
  BY DEF Init, StoresInit
<1>3. TablesAgree /\ NumberInv /\ WriteInv /\ UndoInv /\ SweepInv
  BY <1>2 DEF TablesAgree, NumberInv, WriteInv, UndoInv, SweepInv, VersionsIn,
              Numbered, Writing, Undoing, Sweeping
<1>4. /\ CommittedServed /\ OrphansReclaimable /\ SuccessLeavesOneVersion
      /\ RollbackLeavesNoOrphans /\ OneActiveVersion
  BY <1>2 DEF CommittedServed, OrphansReclaimable, SuccessLeavesOneVersion,
              RollbackLeavesNoOrphans, OneActiveVersion
<1>5. QED
  BY <1>1, <1>3, <1>4 DEF IngestionInv

\* The invariant is kept by every step of the system.
LEMMA StepIngestionInv == IngestionInv /\ [Next]_vars => IngestionInv'
<1> SUFFICES ASSUME IngestionInv, [Next]_vars PROVE IngestionInv'
  OBVIOUS
<1>1. TypeOK' /\ JobInv'
  BY StepTypeInv DEF IngestionInv, TypeInv
<1>2. TablesAgree' /\ NumberInv' /\ WriteInv' /\ UndoInv' /\ SweepInv'
  BY TablesStep, NumberStep, WriteStep, UndoStep, SweepStep
<1>3. /\ CommittedServed' /\ OrphansReclaimable' /\ SuccessLeavesOneVersion'
      /\ RollbackLeavesNoOrphans' /\ OneActiveVersion'
  BY ServedStep, OrphansStep, SuccessStep, RollbackStep, ActiveStep
<1>4. QED
  BY <1>1, <1>2, <1>3 DEF IngestionInv

\* The whole inductive invariant holds of every run of an ingest worker.
THEOREM IngestionInvariant == Spec => []IngestionInv
  BY InitIngestionInv, StepIngestionInv, PTL DEF Spec

\* Whatever fails or crashes during later ingests, the last version of a
\* document whose writes all succeeded stays complete in all three stores:
\* retrieval keeps serving it throughout.
THEOREM CommittedIsServed == Spec => []CommittedServed
<1>1. IngestionInv => CommittedServed
  BY DEF IngestionInv
<1>2. QED
  BY <1>1, IngestionInvariant, PTL

\* Index entries without a document row are only ever found at the version
\* number the next ingest takes, which clears it first: no entry is lost
\* where neither that nor the sweep would find it.
THEOREM OrphansAreReclaimable == Spec => []OrphansReclaimable
<1>1. IngestionInv => OrphansReclaimable
  BY DEF IngestionInv
<1>2. QED
  BY <1>1, IngestionInvariant, PTL

\* A reported success leaves exactly the committed version of the document in
\* every store, whatever earlier ingests of it left behind.
THEOREM SuccessIsExclusive == Spec => []SuccessLeavesOneVersion
<1>1. IngestionInv => SuccessLeavesOneVersion
  BY DEF IngestionInv
<1>2. QED
  BY <1>1, IngestionInvariant, PTL

\* A reported complete rollback leaves no index entry of the document that the
\* document table does not know.
THEOREM RollbackIsClean == Spec => []RollbackLeavesNoOrphans
<1>1. IngestionInv => RollbackLeavesNoOrphans
  BY DEF IngestionInv
<1>2. QED
  BY <1>1, IngestionInvariant, PTL

\* Exactly the highest version of a document is active.
THEOREM HighestIsActive == Spec => []OneActiveVersion
<1>1. IngestionInv => OneActiveVersion
  BY DEF IngestionInv
<1>2. QED
  BY <1>1, IngestionInvariant, PTL

-----------------------------------------------------------------------------
(* The versions a search can find whole *)

\* A publication is searchable when it is whole and has a point.
FoundWhole ==
  /\ WholeVersions \subseteq Publication
  /\ \A p \in Publication :
       p \in WholeVersions <=> Whole(p) /\ OfVersion(points, p.doc, p.version) # {}

\* Its chunk rows, postings and points say so.
LEMMA FoundAreWhole == StoresTypeOK => FoundWhole
<1> SUFFICES ASSUME StoresTypeOK PROVE FoundWhole
  OBVIOUS
<1> DEFINE pub(e) == [doc |-> e.doc, version |-> e.version, text |-> e.text]
<1>1. \A e \in points : pub(e) \in Publication
  BY DEF StoresTypeOK, Entry, Publication
<1>2. WholeVersions = {p \in {pub(e) : e \in points} : Whole(p)}
  BY DEF WholeVersions
<1>3. \A e : pub(e).doc = e.doc /\ pub(e).version = e.version /\ pub(e).text = e.text
  OBVIOUS
<1>4. \A p \in Publication : \A e : (e.doc = p.doc /\ e.version = p.version /\ e.text = p.text) => p = pub(e)
  BY DEF Publication
<1> HIDE DEF pub
<1>5. ASSUME NEW p \in Publication
      PROVE  p \in WholeVersions <=> Whole(p) /\ OfVersion(points, p.doc, p.version) # {}
  <2>1. ASSUME p \in WholeVersions
        PROVE  Whole(p) /\ OfVersion(points, p.doc, p.version) # {}
    <3>1. PICK e \in points : p = pub(e)
      BY <2>1, <1>2
    <3>2. e \in OfVersion(points, p.doc, p.version)
      BY <3>1, <1>3 DEF OfVersion
    <3>3. QED
      BY <2>1, <3>2, <1>2
  <2>2. ASSUME Whole(p), OfVersion(points, p.doc, p.version) # {}
        PROVE  p \in WholeVersions
    <3>1. PICK e : e \in OfVersion(points, p.doc, p.version)
      BY <2>2
    <3>2. e \in ChunksOf(p.doc, p.version, p.text)
      BY <2>2, <3>1 DEF Whole
    <3>3. p.doc \in Docs /\ p.version \in Versions /\ p.text \in Texts
      BY DEF Publication
    <3>4. e.doc = p.doc /\ e.version = p.version /\ e.text = p.text
      BY <3>2, <3>3, ChunksOfVersion
    <3>5. e \in points
      BY <3>1 DEF OfVersion
    <3>6. QED
      BY <2>2, <3>4, <3>5, <1>2, <1>4
  <2>3. QED
    BY <2>1, <2>2
<1>6. QED
  BY <1>1, <1>2, <1>5 DEF FoundWhole

\* The committed versions are searchable.
LEMMA CommittedAreFound == IngestionInv => committed \subseteq WholeVersions
<1> SUFFICES ASSUME IngestionInv, NEW p \in committed PROVE p \in WholeVersions
  OBVIOUS
<1>1. StoresTypeOK /\ p \in Publication /\ Whole(p)
  BY DEF IngestionInv, TypeOK, CommittedServed
<1>2. p.doc \in Docs /\ p.version \in VersionsIn(documents, p.doc)
  BY <1>1 DEF IngestionInv, TablesAgree, Publication
<1>3. OfVersion(chunks, p.doc, p.version) # {}
  BY <1>2 DEF IngestionInv, TablesAgree
<1>4. OfVersion(points, p.doc, p.version) # {}
  BY <1>1, <1>3 DEF Whole
<1>5. QED
  BY <1>1, <1>4, FoundAreWhole DEF FoundWhole

\* The chunk rows of a version tell its text.
LEMMA RowsTellText ==
  ASSUME NEW rows, rows # {}, NEW p \in Publication, NEW q \in Publication,
         p.doc = q.doc, p.version = q.version,
         rows = ChunksOf(p.doc, p.version, p.text),
         rows = ChunksOf(q.doc, q.version, q.text)
  PROVE  p = q
<1>1. /\ p.doc \in Docs /\ p.version \in Versions /\ p.text \in Texts /\ q.text \in Texts
      /\ p.text = q.text => p = q
  BY DEF Publication
<1>2. PICK e : e \in rows
  OBVIOUS
<1>3. e.text = p.text /\ e.text = q.text
  <2>1. /\ e \in ChunksOf(p.doc, p.version, p.text)
        /\ e \in ChunksOf(p.doc, p.version, q.text)
    BY <1>2
  <2>2. \A c \in ChunksOf(p.doc, p.version, p.text) : c.text = p.text
    BY DEF ChunksOf
  <2>3. \A c \in ChunksOf(p.doc, p.version, q.text) : c.text = q.text
    BY DEF ChunksOf
  <2>4. QED
    BY <2>1, <2>2, <2>3
<1>4. QED
  BY <1>1, <1>3

-----------------------------------------------------------------------------
(* Steps *)

\* What a step of the ingest is for the catalog.
CatalogStep == Catalog!Next \/ UNCHANGED <<WholeVersions, committed>>

\* After the step the version is incomplete.
Gone(d, v) ==
  \/ OfVersion(chunks', d, v) = {}
  \/ OfVersion(postings', d, v) = {}
  \/ OfVersion(points', d, v) = {}

\* A step that publishes nothing and touches one version, which it leaves
\* incomplete or which is above the published one and keeps its text, makes
\* at most that version appear or vanish.
LEMMA OneVersionStep ==
  ASSUME IngestionInv, IngestionInv', committed' = committed,
         NEW d, NEW v, TouchesOnly(d, v),
         \/ Gone(d, v)
         \/ /\ \A p \in committed : p.doc = d => p.version < v
            /\ \/ OfVersion(chunks, d, v) = {}
               \/ OfVersion(chunks', d, v) = OfVersion(chunks, d, v)
  PROVE  CatalogStep
<1> DEFINE now == WholeVersions
           next == WholeVersions'
           At(p) == p.doc = d /\ p.version = v
<1>found. FoundWhole /\ FoundWhole'
  <2>1. StoresTypeOK /\ StoresTypeOK'
    BY DEF IngestionInv, TypeOK
  <2>2. QED
    BY <2>1, FoundAreWhole, PTL
<1>1. /\ now \subseteq Publication /\ next \subseteq Publication
      /\ committed \subseteq now /\ committed \subseteq next
  <2>1. committed \subseteq now
    BY CommittedAreFound
  <2>2. (IngestionInv => committed \subseteq WholeVersions)'
    BY CommittedAreFound, PTL
  <2>3. QED
    BY <2>1, <2>2, <1>found DEF FoundWhole
<1>2. ASSUME NEW p \in Publication, ~At(p) PROVE p \in next <=> p \in now
  <2>1. /\ OfVersion(chunks', p.doc, p.version) = OfVersion(chunks, p.doc, p.version)
        /\ OfVersion(postings', p.doc, p.version) = OfVersion(postings, p.doc, p.version)
        /\ OfVersion(points', p.doc, p.version) = OfVersion(points, p.doc, p.version)
    BY <1>2 DEF TouchesOnly
  <2>2. Whole(p)' <=> Whole(p)
    BY <2>1 DEF Whole
  <2>3. p \in next <=> Whole(p)' /\ OfVersion(points', p.doc, p.version) # {}
    BY <1>found DEF FoundWhole
  <2>4. p \in now <=> Whole(p) /\ OfVersion(points, p.doc, p.version) # {}
    BY <1>found DEF FoundWhole
  <2>5. QED
    BY <2>1, <2>2, <2>3, <2>4
<1>3. ASSUME NEW p \in now
      PROVE  /\ OfVersion(chunks, p.doc, p.version) # {}
             /\ OfVersion(chunks, p.doc, p.version) = ChunksOf(p.doc, p.version, p.text)
  BY <1>1, <1>found DEF FoundWhole, Whole
<1>4. ASSUME NEW p \in next
      PROVE  /\ OfVersion(chunks', p.doc, p.version) # {}
             /\ OfVersion(postings', p.doc, p.version) # {}
             /\ OfVersion(points', p.doc, p.version) # {}
             /\ OfVersion(chunks', p.doc, p.version) = ChunksOf(p.doc, p.version, p.text)
  <2>1. Whole(p)' /\ OfVersion(points', p.doc, p.version) # {}
    BY <1>1, <1>found DEF FoundWhole
  <2>2. QED
    BY <2>1 DEF Whole
<1> HIDE DEF now, next
<1>5. /\ \A p, q \in now : At(p) /\ At(q) => p = q
      /\ \A p, q \in next : At(p) /\ At(q) => p = q
  <2>1. \A p, q \in now : At(p) /\ At(q) => p = q
    BY <1>1, <1>3, RowsTellText
  <2>2. \A p, q \in next : At(p) /\ At(q) => p = q
    BY <1>1, <1>4, RowsTellText
  <2>3. QED
    BY <2>1, <2>2
<1>6. \A p \in now : \A q \in next : At(p) /\ At(q) => p = q
  <2> SUFFICES ASSUME NEW p \in now, NEW q \in next, At(p), At(q) PROVE p = q
    OBVIOUS
  <2>1. OfVersion(chunks, d, v) # {} /\ ~Gone(d, v)
    BY <1>3, <1>4 DEF Gone
  <2>2. OfVersion(chunks', d, v) = OfVersion(chunks, d, v)
    BY <2>1
  <2>3. QED
    BY <2>1, <2>2, <1>1, <1>3, <1>4, RowsTellText
<1>7. CASE next = now
  BY <1>7 DEF CatalogStep, now, next
<1>8. CASE next # now
  <2>1. PICK p : At(p) /\ p \in Publication /\ ((p \in next /\ p \notin now) \/ (p \in now /\ p \notin next))
    BY <1>1, <1>2, <1>8
  <2>2. CASE p \in next /\ p \notin now
    <3>1. \A q \in now : ~At(q)
      BY <2>1, <2>2, <1>6
    <3>2. next = now \cup {p}
      BY <3>1, <2>1, <2>2, <1>1, <1>2, <1>5
    <3>3. ~Gone(d, v)
      BY <2>1, <2>2, <1>4 DEF Gone
    <3>4. \A q \in committed : q.doc = p.doc => q.version < p.version
      BY <3>3, <2>1
    <3>5. \A q \in now : q.doc = p.doc => q.version # p.version
      BY <3>1, <2>1
    <3>6. Catalog!Appear(p)
      BY <3>2, <3>4, <3>5 DEF Catalog!Appear, Catalog!Of, now, next
    <3>7. QED
      BY <3>6, <2>1 DEF CatalogStep, Catalog!Next, Catalog!Publication, Publication, Versions
  <2>3. CASE p \in now /\ p \notin next
    <3>1. \A q \in next : ~At(q)
      BY <2>1, <2>3, <1>6
    <3>2. next = now \ {p}
      BY <3>1, <2>1, <2>3, <1>1, <1>2, <1>5
    <3>3. p \notin committed
      BY <2>3, <1>1
    <3>4. Catalog!Vanish(p)
      BY <3>2, <3>3, <2>3 DEF Catalog!Vanish, now, next
    <3>5. QED
      BY <3>4, <2>1 DEF CatalogStep, Catalog!Next, Catalog!Publication, Publication, Versions
  <2>4. QED
    BY <2>1, <2>2, <2>3
<1>9. QED
  BY <1>7, <1>8

\* Completing the writes publishes the version in progress.
LEMMA CommitStep ==
  ASSUME IngestionInv, IngestionInv', Committing
  PROVE  CatalogStep
<1> DEFINE d == job.doc
           v == job.version
           new == [doc |-> d, version |-> v, text |-> job.text]
<1>inv. StoresTypeOK /\ StoresTypeOK' /\ NumberInv /\ WriteInv /\ JobInv /\ TablesAgree
  BY DEF IngestionInv, TypeOK
<1>found. FoundWhole /\ FoundWhole'
  BY <1>inv, FoundAreWhole, PTL
<1>1. pc = "upsertPoints" /\ chunks' = chunks /\ postings' = postings
  BY DEF Committing, UpsertPoints
<1>2. d \in Docs /\ v \in Versions /\ job.text \in Texts /\ new \in Publication
  BY <1>1, <1>inv, WorkerHasJob DEF IngestionInv, Job, JobInv, Numbered, Writing, Publication
<1>3. job.fetched = ChunksOf(d, v, job.text)
  BY <1>1, <1>inv DEF WriteInv, Writing
<1>4. TouchesOnly(d, v)
  BY <1>2, <1>3, IndexingTouchesOneVersion DEF Committing
<1>5. committed' = {c \in committed : c.doc # d} \cup {new}
  BY DEF Committing
<1>6. (IngestionInv => committed \subseteq WholeVersions)'
  BY CommittedAreFound, PTL
<1>7. new \in WholeVersions'
  BY <1>5, <1>6
<1>8. ASSUME NEW p \in WholeVersions, p.doc = d PROVE p.version < v
  <2>1. p \in Publication /\ Whole(p) /\ OfVersion(points, d, p.version) # {}
    BY <1>8, <1>found DEF FoundWhole
  <2>2. OfVersion(chunks, d, p.version) # {}
    BY <2>1, <1>8 DEF Whole
  <2>3. p.version \in VersionsIn(documents, d)
    BY <2>2, <1>inv DEF OfVersion, TablesAgree
  <2>4. p.version <= LatestVersion(d) /\ LatestVersion(d) = v
    BY <2>3, <1>1, <1>inv, LatestVersionIsHighest DEF NumberInv, Numbered, Writing
  <2>5. p.version # v
    BY <2>1, <1>1, <1>inv DEF WriteInv
  <2>6. QED
    BY <2>1, <2>4, <2>5, <1>2 DEF Publication, Versions
<1>9. ASSUME NEW p \in Publication, ~(p.doc = d /\ p.version = v)
      PROVE  p \in WholeVersions' <=> p \in WholeVersions
  <2>1. /\ OfVersion(chunks', p.doc, p.version) = OfVersion(chunks, p.doc, p.version)
        /\ OfVersion(postings', p.doc, p.version) = OfVersion(postings, p.doc, p.version)
        /\ OfVersion(points', p.doc, p.version) = OfVersion(points, p.doc, p.version)
    BY <1>4, <1>9 DEF TouchesOnly
  <2>2. Whole(p)' <=> Whole(p)
    BY <2>1 DEF Whole
  <2>3. QED
    BY <2>1, <2>2, <1>found DEF FoundWhole
<1>10. ASSUME NEW p \in WholeVersions', p.doc = d, p.version = v PROVE p = new
  <2>1. p \in Publication /\ Whole(p)' /\ OfVersion(points', d, v) # {}
    BY <1>10, <1>found DEF FoundWhole
  <2>2. \A q \in committed' : OfVersion(points', q.doc, q.version) = ChunksOf(q.doc, q.version, q.text)
    BY DEF IngestionInv, CommittedServed, Whole
  <2>3. OfVersion(points', p.doc, p.version) = ChunksOf(p.doc, p.version, p.text)
    BY <2>1 DEF Whole
  <2>4. new \in committed' /\ new.doc = d /\ new.version = v
    BY <1>5
  <2> HIDE DEF d, v, new
  <2>5. OfVersion(points', new.doc, new.version) = ChunksOf(new.doc, new.version, new.text)
    BY <2>2, <2>4
  <2>6. QED
    BY <1>2, <1>10, <2>1, <2>3, <2>4, <2>5, RowsTellText
<1>11. WholeVersions' = WholeVersions \cup {new}
  <2>1. WholeVersions \subseteq Publication /\ WholeVersions' \subseteq Publication
    BY <1>found DEF FoundWhole
  <2>2. \A p \in WholeVersions : ~(p.doc = d /\ p.version = v)
    BY <1>2, <1>8 DEF Versions
  <2> HIDE DEF d, v, new
  <2>3. QED
    BY <2>1, <2>2, <1>7, <1>9, <1>10
<1>12. Catalog!Publish(new)
  <2>1. new.doc = d /\ new.version = v
    OBVIOUS
  <2> HIDE DEF new
  <2>2. committed' = (committed \ {p \in committed : p.doc = new.doc}) \cup {new}
    BY <1>5, <2>1
  <2>3. QED
    BY <1>8, <1>11, <2>1, <2>2 DEF Catalog!Publish, Catalog!Of
<1>13. QED
  BY <1>2, <1>12 DEF CatalogStep, Catalog!Next, Catalog!Publication, Publication, Versions

\* Every step of the ingest is a step of the catalog or none.
LEMMA StepImplementsCatalog ==
  ASSUME IngestionInv, [Next]_vars
  PROVE  CatalogStep
<1>inv. /\ IngestionInv' /\ TypeInv /\ StoresTypeOK /\ NumberInv /\ WriteInv /\ JobInv
        /\ TablesAgree /\ committed \subseteq Publication
  BY StepIngestionInv DEF IngestionInv, TypeInv, TypeOK
<1>job. pc # "idle" => job \in Job /\ job.doc \in Docs /\ job.text \in Texts
  BY <1>inv, WorkerHasJob DEF TypeInv, Job
<1>below. pc \in Writing \cup Undoing => \A p \in committed : p.doc = job.doc => p.version < job.version
  BY <1>inv DEF NumberInv
<1>these. pc \in {"indexPostings", "upsertPoints"} =>
            /\ job.version \in Versions
            /\ job.fetched = ChunksOf(job.doc, job.version, job.text)
  BY <1>inv DEF WriteInv, JobInv, Writing, Numbered
<1> USE DEF Goto, GotoUnclean, Finish, Unapplied, NextOlder
<1>1. CASE UNCHANGED <<storeVars, committed>>
  BY <1>1 DEF CatalogStep, WholeVersions, Whole, storeVars
<1>2. ASSUME NEW d \in Docs, NEW t \in Texts, Submit(d, t)
      PROVE  UNCHANGED <<storeVars, committed>>
  BY <1>2 DEF Submit, storeVars
<1>3. ChunkText \/ EmbedPassages \/ FetchChunks \/ SweepCheck \/ Invalidate \/ Crash
      => UNCHANGED <<storeVars, committed>>
  BY DEF ChunkText, EmbedPassages, FetchChunks, SweepCheck, Invalidate, Crash, storeVars
<1>4. CASE Stored
  <2> DEFINE v == LatestVersion(job.doc) + 1
  <2>1. job.doc \in Docs /\ job.text \in Texts /\ v \in Versions
    BY <1>4, <1>inv, <1>job, NextVersion DEF Stored, JobInv, Unnumbered
  <2>2. TouchesOnly(job.doc, v)
    BY <1>4, <2>1, UpsertDocumentTouchesOneVersion DEF Stored
  <2>3. \A w \in VersionsIn(documents, job.doc) : w < v
    BY <1>inv, <2>1, LatestVersionIsHighest, StoresAssumption DEF Versions
  <2>4. \A p \in committed : p.doc = job.doc => p.version < v
    BY <1>inv, <2>3 DEF TablesAgree
  <2>5. OfVersion(chunks, job.doc, v) = {}
    <3>1. v \notin VersionsIn(documents, job.doc)
      BY <2>1, <2>3 DEF Versions
    <3> HIDE DEF v
    <3>2. QED
      BY <3>1, <1>inv DEF TablesAgree, OfVersion
  <2>6. committed' = committed
    BY <1>4 DEF Stored
  <2> HIDE DEF v
  <2>7. QED
    BY <1>inv, <2>2, <2>4, <2>5, <2>6, OneVersionStep
<1>5. CASE ClearPostings \/ ClearPoints \/ UndoPoints \/ UndoPostings
  <2>1. TouchesOnly(job.doc, job.version)
    BY <1>5, OperationsTouchOneVersion
       DEF ClearPostings, ClearPoints, UndoPoints, UndoPostings
  <2>2. committed' = committed /\ chunks' = chunks /\ pc \in Writing \cup Undoing
    BY <1>5 DEF ClearPostings, ClearPoints, UndoPoints, UndoPostings, RemovePostings,
                DeletePoints, Writing, Undoing, storeVars
  <2>3. QED
    BY <1>inv, <1>below, <2>1, <2>2, OneVersionStep
<1>6. CASE IndexPostings
  <2>1. TouchesOnly(job.doc, job.version)
    BY <1>6, <1>job, <1>these, OperationsTouchOneVersion, IndexingTouchesOneVersion
       DEF IndexPostings
  <2>2. committed' = committed /\ chunks' = chunks /\ pc \in Writing
    BY <1>6 DEF IndexPostings, IndexChunks, Writing, storeVars
  <2>3. QED
    BY <1>inv, <1>below, <2>1, <2>2, OneVersionStep
<1>7. CASE IndexPoints
  <2>1. TouchesOnly(job.doc, job.version)
    BY <1>7, <1>job, <1>these, OperationsTouchOneVersion, IndexingTouchesOneVersion
       DEF IndexPoints
  <2>2. chunks' = chunks /\ pc \in Writing
    BY <1>7 DEF IndexPoints, UpsertPoints, Writing, storeVars
  <2>3. CASE committed' = committed
    BY <1>inv, <1>below, <2>1, <2>2, <2>3, OneVersionStep
  <2>4. Committing \/ committed' = committed
    BY <1>7, <1>job DEF IndexPoints, Committing, SameVersion, Job
  <2>5. QED
    BY <1>inv, <2>3, <2>4, CommitStep
<1>8. CASE Undone
  <2>1. TouchesOnly(job.doc, job.version) /\ committed' = committed
    BY <1>8, OperationsTouchOneVersion DEF Undone
  <2>2. Gone(job.doc, job.version)
    BY <1>8, WithoutVersion DEF Undone, DeleteVersion, Gone
  <2>3. QED
    BY <1>inv, <2>1, <2>2, OneVersionStep
<1>9. CASE SweepPoints \/ SweepPostings \/ Swept
  <2>1. TouchesOnly(job.doc, job.cursor) /\ committed' = committed
    BY <1>9, OperationsTouchOneVersion DEF SweepPoints, SweepPostings, Swept
  <2>2. /\ DeletePoints(job.doc, job.cursor) => Gone(job.doc, job.cursor)
        /\ RemovePostings(job.doc, job.cursor) => Gone(job.doc, job.cursor)
        /\ DeleteVersion(job.doc, job.cursor) => Gone(job.doc, job.cursor)
    BY WithoutVersion DEF DeletePoints, RemovePostings, DeleteVersion, Gone
  <2>3. Gone(job.doc, job.cursor) \/ UNCHANGED storeVars
    BY <1>9, <2>2 DEF SweepPoints, SweepPostings, Swept
  <2>4. QED
    BY <1>inv, <1>1, <2>1, <2>3, OneVersionStep
<1>10. /\ StoreChunks => Stored \/ UNCHANGED <<storeVars, committed>>
       /\ UndoChunks => Undone \/ UNCHANGED <<storeVars, committed>>
       /\ SweepChunks => Swept \/ UNCHANGED <<storeVars, committed>>
  BY <1>job DEF StoreChunks, Stored, UndoChunks, Undone, SweepChunks, Swept, SameVersion, Job
<1>11. UNCHANGED vars => UNCHANGED <<storeVars, committed>>
  BY DEF vars
<1>12. QED
  BY <1>1, <1>2, <1>3, <1>4, <1>5, <1>6, <1>7, <1>8, <1>9, <1>10, <1>11 DEF Next, Step

\* An ingest, with all its failures, rollbacks, sweeps and crashes, implements
\* the catalog: a published version stays searchable until the step that
\* publishes a higher one, and numbers are never published twice.
THEOREM IngestionImplementsCatalog == Spec => ImplementsCatalog
<1>1. Init => Catalog!Init
  BY DEF Init, StoresInit, Catalog!Init, WholeVersions
<1>2. IngestionInv /\ [Next]_vars => [Catalog!Next]_(Catalog!vars)
  BY StepImplementsCatalog DEF CatalogStep, Catalog!vars
<1>3. QED
  BY <1>1, <1>2, IngestionInvariant, PTL DEF Spec, ImplementsCatalog, Catalog!Spec

=============================================================================
