---------------------------- MODULE StoresProofs ----------------------------
(***************************************************************************)
(* What the operators of module Stores return and leave alone, for tables  *)
(* of any size.  The proofs about the components that use the stores cite  *)
(* these lemmas.                                                           *)
(***************************************************************************)
EXTENDS Stores, WellFoundedInduction, TLAPS

-----------------------------------------------------------------------------
(* Version numbers *)

\* A non-empty set of naturals with an upper bound has a maximum, which Max
\* returns: latest_version is well defined.
LEMMA MaxOfBounded ==
  ASSUME NEW N \in Nat, NEW S, S \subseteq 0 .. N, S # {}
  PROVE  /\ Max(S) \in S
         /\ \A x \in S : x <= Max(S)
<1> DEFINE T == {N - x : x \in S}
<1>1. \A x \in S : x \in Nat /\ x <= N
  OBVIOUS
<1>2. T \subseteq Nat /\ T # {}
  <2>1. \A x \in S : N - x \in Nat
    BY <1>1
  <2>2. PICK x \in S : TRUE
    OBVIOUS
  <2>3. N - x \in T
    BY <2>2
  <2>4. QED
    BY <2>1, <2>3
<1>3. PICK m \in T : \A y \in T : ~ (<<y, m>> \in OpToRel(<, Nat))
  <2> HIDE DEF T
  <2>1. QED
    BY <1>2, NatLessThanWellFounded, WFMin
<1>4. \A y \in T : m <= y
  <2> HIDE DEF T
  <2>1. SUFFICES ASSUME NEW y \in T PROVE ~ (y < m)
    BY <1>2
  <2>2. y \in Nat /\ m \in Nat
    BY <1>2
  <2>3. QED
    BY <1>3, <2>2 DEF OpToRel
<1>5. PICK s \in S : m = N - s
  OBVIOUS
<1>6. \A x \in S : s >= x
  BY <1>1, <1>4, <1>5
<1>7. QED
  BY <1>1, <1>6 DEF Max

\* The versions in a document table are natural numbers up to the bound, and
\* Highest is the highest of a document's, or 0 when it has none.
LEMMA HighestIsHighest ==
  ASSUME NEW rows, rows \subseteq DocumentRow, NEW d
  PROVE  /\ VersionsIn(rows, d) \subseteq Versions
         /\ Highest(rows, d) \in VersionsIn(rows, d) \cup {0}
         /\ Highest(rows, d) \in 0 .. MaxVersion
         /\ \A v \in VersionsIn(rows, d) : v <= Highest(rows, d)
<1> DEFINE S == VersionsIn(rows, d) \cup {0}
<1>1. VersionsIn(rows, d) \subseteq Versions
  BY DEF DocumentRow, VersionsIn
<1>2. S \subseteq 0 .. MaxVersion /\ S # {}
  BY <1>1, StoresAssumption DEF Versions
<1>3. Max(S) \in S /\ \A x \in S : x <= Max(S)
  BY <1>2, StoresAssumption, MaxOfBounded
<1>4. QED
  BY <1>1, <1>2, <1>3 DEF Highest

\* Nothing else is.
LEMMA HighestUnique ==
  ASSUME NEW rows, rows \subseteq DocumentRow, NEW d,
         NEW n \in VersionsIn(rows, d) \cup {0},
         \A v \in VersionsIn(rows, d) : v <= n
  PROVE  Highest(rows, d) = n
<1>1. /\ Highest(rows, d) \in VersionsIn(rows, d) \cup {0}
      /\ \A v \in VersionsIn(rows, d) : v \in Nat /\ v <= Highest(rows, d)
      /\ Highest(rows, d) \in Nat
  BY HighestIsHighest, StoresAssumption DEF Versions
<1>2. n \in Nat
  BY <1>1
<1>3. n <= Highest(rows, d)
  BY <1>1, <1>2
<1>4. Highest(rows, d) <= n
  BY <1>1, <1>2
<1>5. QED
  BY <1>1, <1>2, <1>3, <1>4

\* The same, of the stored document table.
LEMMA LatestVersionIsHighest ==
  ASSUME StoresTypeOK, NEW d
  PROVE  /\ VersionsIn(documents, d) \subseteq Versions
         /\ LatestVersion(d) \in VersionsIn(documents, d) \cup {0}
         /\ LatestVersion(d) \in 0 .. MaxVersion
         /\ \A v \in VersionsIn(documents, d) : v <= LatestVersion(d)
  BY HighestIsHighest DEF StoresTypeOK, LatestVersion

\* The number upsert_document gives is one above, and within the bound.
LEMMA NextVersion ==
  ASSUME StoresTypeOK, NEW d, LatestVersion(d) < MaxVersion
  PROVE  LatestVersion(d) + 1 \in Versions
<1>1. LatestVersion(d) \in 0 .. MaxVersion
  BY LatestVersionIsHighest
<1>2. QED
  BY <1>1, StoresAssumption DEF Versions

-----------------------------------------------------------------------------
(* Rows of one version *)

\* Deleting a version leaves nothing of it and every other version as it was.
LEMMA WithoutVersion ==
  ASSUME NEW table, NEW d, NEW v
  PROVE  /\ Without(table, d, v) \subseteq table
         /\ OfVersion(Without(table, d, v), d, v) = {}
         /\ \A e, w : (e # d \/ w # v) =>
              OfVersion(Without(table, d, v), e, w) = OfVersion(table, e, w)
  BY DEF Without, OfVersion

\* The chunks of a text are entries of the version they were stored under.
LEMMA ChunksOfVersion ==
  ASSUME NEW d \in Docs, NEW v \in Versions, NEW t \in Texts
  PROVE  /\ ChunksOf(d, v, t) \subseteq Entry
         /\ \A c \in ChunksOf(d, v, t) : c.doc = d /\ c.version = v /\ c.text = t
  BY StoresAssumption DEF ChunksOf, Entry

\* A text with chunks has a first one.
LEMMA ChunksExist ==
  ASSUME NEW d, NEW v, NEW t \in Texts, ChunkCount[t] > 0
  PROVE  ChunksOf(d, v, t) # {}
<1>1. 0 \in 0 .. ChunkCount[t] - 1
  BY StoresAssumption
<1>2. [doc |-> d, version |-> v, seq |-> 0, text |-> t] \in ChunksOf(d, v, t)
  BY <1>1 DEF ChunksOf
<1>3. QED
  BY <1>2

\* Embedding the chunks of a text again gives the same entries.
LEMMA ReembedChunks ==
  ASSUME NEW d \in Docs, NEW v \in Versions, NEW t \in Texts
  PROVE  {[e EXCEPT !.text = t] : e \in ChunksOf(d, v, t)} = ChunksOf(d, v, t)
<1>1. \A c \in ChunksOf(d, v, t) : [c EXCEPT !.text = t] = c
  BY DEF ChunksOf
<1>2. QED
  BY <1>1

-----------------------------------------------------------------------------
(* Types *)

\* A new version within the bound keeps the tables well typed.
LEMMA UpsertDocumentType ==
  ASSUME StoresTypeOK, NEW d \in Docs, NEW t \in Texts,
         LatestVersion(d) < MaxVersion, UpsertDocument(d, t)
  PROVE  StoresTypeOK'
<1> DEFINE v == LatestVersion(d) + 1
<1>1. v \in Versions
  BY NextVersion
<1>2. documents' \subseteq DocumentRow
  <2>1. Deactivate(documents, d) \subseteq DocumentRow
    BY DEF Deactivate, StoresTypeOK, DocumentRow
  <2>2. [doc |-> d, version |-> v, active |-> TRUE] \in DocumentRow
    BY <1>1 DEF DocumentRow
  <2>3. QED
    BY <2>1, <2>2 DEF UpsertDocument
<1>3. chunks' \subseteq Entry
  BY <1>1, ChunksOfVersion DEF UpsertDocument, StoresTypeOK
<1>4. QED
  BY <1>2, <1>3 DEF UpsertDocument, StoresTypeOK

\* Dropping a version keeps the tables well typed.
LEMMA DeleteVersionType ==
  ASSUME StoresTypeOK, NEW d, NEW v, DeleteVersion(d, v)
  PROVE  StoresTypeOK'
<1>1. documents' \subseteq DocumentRow
  BY DEF DeleteVersion, Activate, StoresTypeOK, DocumentRow, Without
<1>2. chunks' \subseteq Entry
  BY DEF DeleteVersion, StoresTypeOK, Without
<1>3. QED
  BY <1>1, <1>2 DEF DeleteVersion, StoresTypeOK

\* So do the calls on the two indexes.
LEMMA IndexType ==
  ASSUME StoresTypeOK, NEW d, NEW v, NEW entries \in SUBSET Entry, NEW t \in Texts
  PROVE  /\ RemovePostings(d, v) => StoresTypeOK'
         /\ DeletePoints(d, v) => StoresTypeOK'
         /\ IndexChunks(entries) => StoresTypeOK'
         /\ UpsertPoints(entries, t) => StoresTypeOK'
<1>1. \A e \in entries : [e EXCEPT !.text = t] \in Entry
  BY DEF Entry
<1>2. QED
  BY <1>1 DEF StoresTypeOK, RemovePostings, DeletePoints, IndexChunks,
              UpsertPoints, Without, Overwrite

-----------------------------------------------------------------------------
(* What one operation leaves alone *)

\* A step changes no row of another document version in any of the stores.
TouchesOnly(d, v) ==
  \A e, w : (e # d \/ w # v) =>
    /\ OfVersion(chunks', e, w) = OfVersion(chunks, e, w)
    /\ OfVersion(postings', e, w) = OfVersion(postings, e, w)
    /\ OfVersion(points', e, w) = OfVersion(points, e, w)

\* Every operation of the stores is about one document version.
LEMMA OperationsTouchOneVersion ==
  ASSUME NEW d, NEW v
  PROVE  /\ RemovePostings(d, v) => TouchesOnly(d, v)
         /\ DeletePoints(d, v) => TouchesOnly(d, v)
         /\ DeleteVersion(d, v) => TouchesOnly(d, v)
         /\ UNCHANGED storeVars => TouchesOnly(d, v)
  BY WithoutVersion
     DEF RemovePostings, DeletePoints, DeleteVersion, TouchesOnly, storeVars

\* The index writes leave every other version alone.
LEMMA IndexingTouchesOneVersion ==
  ASSUME NEW d \in Docs, NEW v \in Versions, NEW t \in Texts
  PROVE  /\ IndexChunks(ChunksOf(d, v, t)) => TouchesOnly(d, v)
         /\ UpsertPoints(ChunksOf(d, v, t), t) => TouchesOnly(d, v)
<1> DEFINE new == ChunksOf(d, v, t)
<1>1. \A c \in new : c.doc = d /\ c.version = v
  BY ChunksOfVersion
<1>2. {[e EXCEPT !.text = t] : e \in new} = new
  BY ReembedChunks
<1> HIDE DEF new
<1>3. \A table, e, w : (e # d \/ w # v) =>
        OfVersion(Overwrite(table, new), e, w) = OfVersion(table, e, w)
  BY <1>1 DEF Overwrite, OfVersion, Id
<1>4. QED
  BY <1>2, <1>3 DEF IndexChunks, UpsertPoints, TouchesOnly, new

\* Storing a version leaves the rows of every other version alone.
LEMMA UpsertDocumentTouchesOneVersion ==
  ASSUME NEW d \in Docs, NEW t \in Texts, LatestVersion(d) + 1 \in Versions,
         UpsertDocument(d, t)
  PROVE  TouchesOnly(d, LatestVersion(d) + 1)
<1> DEFINE v == LatestVersion(d) + 1
           new == ChunksOf(d, v, t)
<1>1. \A c \in new : c.doc = d /\ c.version = v
  BY ChunksOfVersion
<1>2. /\ chunks' = chunks \cup new
      /\ postings' = postings /\ points' = points
  BY DEF UpsertDocument
<1> HIDE DEF v, new
<1>3. \A e, w : (e # d \/ w # v) =>
        OfVersion(chunks \cup new, e, w) = OfVersion(chunks, e, w)
  BY <1>1 DEF OfVersion
<1>4. QED
  BY <1>2, <1>3 DEF TouchesOnly, v

-----------------------------------------------------------------------------
(* Which versions the document table knows *)

\* A version is in a table when one of its rows is.
LEMMA VersionsMember ==
  ASSUME NEW table, NEW d, NEW v
  PROVE  v \in VersionsIn(table, d) <=> \E row \in table : row.doc = d /\ row.version = v
  BY DEF VersionsIn

\* Setting the flag of some rows changes no version number.
LEMMA FlagsKeepVersions ==
  ASSUME NEW rows \in SUBSET DocumentRow, NEW d, NEW v, NEW e
  PROVE  /\ VersionsIn(Deactivate(rows, d), e) = VersionsIn(rows, e)
         /\ VersionsIn(Activate(rows, d, v), e) = VersionsIn(rows, e)
<1> DEFINE off(row) == IF row.doc = d THEN [row EXCEPT !.active = FALSE] ELSE row
           on(row) == IF row.doc = d /\ row.version = v
                      THEN [row EXCEPT !.active = TRUE] ELSE row
<1>1. \A row \in rows : off(row).doc = row.doc /\ off(row).version = row.version
  BY DEF DocumentRow
<1>2. \A row \in rows : on(row).doc = row.doc /\ on(row).version = row.version
  BY DEF DocumentRow
<1>3. /\ Deactivate(rows, d) = {off(row) : row \in rows}
      /\ Activate(rows, d, v) = {on(row) : row \in rows}
  BY DEF Deactivate, Activate
<1> HIDE DEF off, on
<1>4. \A w : w \in VersionsIn({off(row) : row \in rows}, e) <=> w \in VersionsIn(rows, e)
  BY <1>1, VersionsMember
<1>5. \A w : w \in VersionsIn({on(row) : row \in rows}, e) <=> w \in VersionsIn(rows, e)
  BY <1>2, VersionsMember
<1>6. QED
  BY <1>3, <1>4, <1>5

\* upsert_document adds one version, one above the highest, to one document.
LEMMA UpsertDocumentVersions ==
  ASSUME NEW d, NEW t, UpsertDocument(d, t), StoresTypeOK
  PROVE  /\ \A e : e # d => VersionsIn(documents', e) = VersionsIn(documents, e)
         /\ VersionsIn(documents', d) = VersionsIn(documents, d) \cup {LatestVersion(d) + 1}
<1> DEFINE old == Deactivate(documents, d)
           new == [doc |-> d, version |-> LatestVersion(d) + 1, active |-> TRUE]
<1>1. \A e : VersionsIn(old, e) = VersionsIn(documents, e)
  BY FlagsKeepVersions DEF StoresTypeOK
<1>2. documents' = old \cup {new}
  BY DEF UpsertDocument
<1>3. new.doc = d /\ new.version = LatestVersion(d) + 1
  OBVIOUS
<1> HIDE DEF old, new
<1>4. \A e, w : w \in VersionsIn(documents', e) <=>
                 w \in VersionsIn(old, e) \/ (e = d /\ w = LatestVersion(d) + 1)
  BY <1>2, <1>3, VersionsMember
<1>5. QED
  BY <1>1, <1>4

\* delete_version takes one version away from one document.
LEMMA DeleteVersionVersions ==
  ASSUME NEW d, NEW v, DeleteVersion(d, v), StoresTypeOK
  PROVE  /\ \A e : e # d => VersionsIn(documents', e) = VersionsIn(documents, e)
         /\ VersionsIn(documents', d) = VersionsIn(documents, d) \ {v}
<1> DEFINE rest == Without(documents, d, v)
<1>1. \A e : VersionsIn(documents', e) = VersionsIn(rest, e)
  BY FlagsKeepVersions DEF DeleteVersion, StoresTypeOK, Without
<1>2. \A e, w : w \in VersionsIn(rest, e) <=>
                 w \in VersionsIn(documents, e) /\ ~(e = d /\ w = v)
  BY VersionsMember DEF Without
<1>3. QED
  BY <1>1, <1>2

-----------------------------------------------------------------------------
(* How the highest version moves *)

\* The stored version is the highest of its document.
LEMMA UpsertDocumentHighest ==
  ASSUME NEW d, NEW t, UpsertDocument(d, t), StoresTypeOK, StoresTypeOK'
  PROVE  /\ \A e : e # d => Highest(documents', e) = Highest(documents, e)
         /\ Highest(documents', d) = Highest(documents, d) + 1
<1>1. \A e : e # d => VersionsIn(documents', e) = VersionsIn(documents, e)
  BY UpsertDocumentVersions
<1>2. VersionsIn(documents', d) = VersionsIn(documents, d) \cup {Highest(documents, d) + 1}
  BY UpsertDocumentVersions DEF LatestVersion
<1>3. \A v \in VersionsIn(documents', d) : v <= Highest(documents, d) + 1
  <2>1. \A v \in VersionsIn(documents, d) : v \in Nat /\ v <= Highest(documents, d)
    BY LatestVersionIsHighest DEF LatestVersion, Versions
  <2>2. Highest(documents, d) \in Nat
    BY LatestVersionIsHighest, StoresAssumption DEF LatestVersion
  <2>3. QED
    BY <1>2, <2>1, <2>2
<1>4. documents' \subseteq DocumentRow
  BY DEF StoresTypeOK
<1>5. Highest(documents', d) = Highest(documents, d) + 1
  BY <1>2, <1>3, <1>4, HighestUnique
<1>6. QED
  BY <1>1, <1>5 DEF Highest

\* The highest version after deleting one.
LEMMA DeleteVersionHighest ==
  ASSUME NEW d, NEW v, DeleteVersion(d, v), StoresTypeOK, StoresTypeOK'
  PROVE  /\ \A e : e # d => Highest(documents', e) = Highest(documents, e)
         /\ v # Highest(documents, d) => Highest(documents', d) = Highest(documents, d)
         /\ v \in Versions /\ v = Highest(documents, d)
              /\ v - 1 \in VersionsIn(documents, d) \cup {0}
            => Highest(documents', d) = v - 1
<1>1. \A e : e # d => VersionsIn(documents', e) = VersionsIn(documents, e)
  BY DeleteVersionVersions
<1>2. VersionsIn(documents', d) = VersionsIn(documents, d) \ {v}
  BY DeleteVersionVersions
<1>3. documents' \subseteq DocumentRow
  BY DEF StoresTypeOK
<1>4. /\ Highest(documents, d) \in VersionsIn(documents, d) \cup {0}
      /\ \A w \in VersionsIn(documents, d) : w \in Nat /\ w <= Highest(documents, d)
  BY LatestVersionIsHighest DEF LatestVersion, Versions
<1>5. ASSUME v # Highest(documents, d)
      PROVE  Highest(documents', d) = Highest(documents, d)
  BY <1>2, <1>3, <1>4, <1>5, HighestUnique
<1>6. ASSUME v \in Versions, v = Highest(documents, d),
             v - 1 \in VersionsIn(documents, d) \cup {0}
      PROVE  Highest(documents', d) = v - 1
  <2>1. v \in Nat
    BY <1>6 DEF Versions
  <2>2. v - 1 \in VersionsIn(documents', d) \cup {0}
    BY <1>2, <1>6, <2>1
  <2>3. \A w \in VersionsIn(documents', d) : w <= v - 1
    BY <1>2, <1>4, <1>6, <2>1
  <2>4. QED
    BY <1>3, <2>2, <2>3, HighestUnique
<1>7. QED
  BY <1>1, <1>5, <1>6 DEF Highest

-----------------------------------------------------------------------------
(* Which rows are active *)

\* The active rows of a document are those of its highest version.
ActiveIsHighest(rows, d) ==
  {row \in rows : row.doc = d /\ row.active}
    = {row \in rows : row.doc = d /\ row.version = Highest(rows, d)}

\* After storing a version exactly the highest row is active.
LEMMA UpsertDocumentActive ==
  ASSUME NEW d, NEW t, UpsertDocument(d, t), StoresTypeOK, StoresTypeOK',
         NEW e, ActiveIsHighest(documents, e)
  PROVE  ActiveIsHighest(documents', e)
<1> DEFINE v == LatestVersion(d) + 1
           off(row) == IF row.doc = d THEN [row EXCEPT !.active = FALSE] ELSE row
           new == [doc |-> d, version |-> v, active |-> TRUE]
<1>1. documents' = {off(row) : row \in documents} \cup {new}
  BY DEF UpsertDocument, Deactivate
<1>2. \A row \in documents :
        /\ off(row).doc = row.doc /\ off(row).version = row.version
        /\ row.doc = d => ~ off(row).active
        /\ row.doc # d => off(row) = row
  BY DEF StoresTypeOK, DocumentRow
<1>3. new.doc = d /\ new.version = v /\ new.active
  OBVIOUS
<1>4. \A row \in documents : row.doc = d => row.version # v
  <2>1. \A row \in documents : row.doc = d => row.version \in VersionsIn(documents, d)
    BY DEF VersionsIn
  <2>2. QED
    BY <2>1, LatestVersionIsHighest, StoresAssumption DEF Versions
<1>5. /\ Highest(documents', d) = v
      /\ e # d => Highest(documents', e) = Highest(documents, e)
  BY UpsertDocumentHighest DEF LatestVersion
<1> HIDE DEF off, new, v
<1>6. CASE e = d
  <2>1. {row \in documents' : row.doc = d /\ row.active} = {new}
    BY <1>1, <1>2, <1>3
  <2>2. {row \in documents' : row.doc = d /\ row.version = v} = {new}
    BY <1>1, <1>2, <1>3, <1>4
  <2>3. QED
    BY <1>5, <1>6, <2>1, <2>2 DEF ActiveIsHighest
<1>7. CASE e # d
  <2>1. {row \in documents' : row.doc = e} = {row \in documents : row.doc = e}
    BY <1>1, <1>2, <1>3, <1>7
  <2>2. QED
    BY <1>5, <1>7, <2>1 DEF ActiveIsHighest
<1>8. QED
  BY <1>6, <1>7

\* After deleting a version exactly the highest row left is active.
LEMMA DeleteVersionActive ==
  ASSUME NEW d, NEW v, DeleteVersion(d, v), StoresTypeOK, StoresTypeOK',
         NEW e, ActiveIsHighest(documents, e)
  PROVE  ActiveIsHighest(documents', e)
<1> DEFINE rest == Without(documents, d, v)
           top == Highest(rest, d)
           on(row) == IF row.doc = d /\ row.version = top
                      THEN [row EXCEPT !.active = TRUE] ELSE row
<1>1. documents' = {on(row) : row \in rest}
  BY DEF DeleteVersion, Activate
<1>2. rest \subseteq documents /\ rest \subseteq DocumentRow
  BY DEF StoresTypeOK, Without
<1>3. \A row \in rest :
        /\ on(row).doc = row.doc /\ on(row).version = row.version
        /\ row.doc = d /\ row.version = top => on(row).active
        /\ ~(row.doc = d /\ row.version = top) => on(row) = row
  BY <1>2 DEF DocumentRow
<1>4. \A row \in rest : ~(row.doc = d /\ row.version = v)
  BY DEF Without
<1>5. \A row \in documents : row.doc # d => row \in rest
  BY DEF Without
<1>6. /\ \A f : f # d => Highest(documents', f) = Highest(documents, f)
      /\ v # Highest(documents, d) => Highest(documents', d) = Highest(documents, d)
  BY DeleteVersionHighest
<1>7. Highest(documents', d) = top
  BY <1>2, FlagsKeepVersions DEF DeleteVersion, Highest
<1> HIDE DEF rest, top, on
<1>8. CASE e = d
  <2>1. \A row \in rest : row.doc = d /\ row.active => row.version = Highest(documents, d)
    BY <1>2, <1>8 DEF ActiveIsHighest
  <2>2. \A row \in rest : row.doc = d /\ row.active => row.version = top
    BY <1>4, <1>6, <1>7, <2>1
  <2>3. \A row \in documents' : row.doc = d => (row.active <=> row.version = top)
    BY <1>1, <1>3, <2>2
  <2>4. QED
    BY <1>7, <1>8, <2>3 DEF ActiveIsHighest
<1>9. CASE e # d
  <2>1. {row \in documents' : row.doc = e} = {row \in documents : row.doc = e}
    BY <1>1, <1>2, <1>3, <1>5, <1>9
  <2>2. QED
    BY <1>6, <1>9, <2>1 DEF ActiveIsHighest
<1>10. QED
  BY <1>8, <1>9

=============================================================================
