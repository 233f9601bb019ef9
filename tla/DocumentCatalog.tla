--------------------------- MODULE DocumentCatalog ---------------------------
(***************************************************************************)
(* What ingestion promises a reader of the stores, without its calls: which *)
(* versions of a document a search can find whole, and which one of them    *)
(* the service stands by.                                                   *)
(*                                                                         *)
(*   - the published version of a document is always searchable;            *)
(*   - publishing replaces it, in one step, by a version numbered above     *)
(*     every version of the document a search could have found;             *)
(*   - a version that is not published may turn up, numbered above the      *)
(*     published one (a write that failed late), and go again;              *)
(*   - a superseded version may go, at any time after it was superseded.    *)
(*                                                                         *)
(* It states the docstring of src/src/app/ingestion/pipeline.py, lines 3-47. *)
(***************************************************************************)
EXTENDS Integers

CONSTANTS Docs, Texts, MaxVersion

VARIABLES
  searchable,  \* the versions whose every chunk is in all three stores
  published    \* the version of each document whose ingest completed its writes

vars == <<searchable, published>>

Publication == [doc: Docs, version: 1 .. MaxVersion, text: Texts]

\* The publications of a document, in either set.
Of(set, d) == {p \in set : p.doc = d}

Init ==
  /\ searchable = {}
  /\ published = {}

\* The new version becomes searchable and replaces the published one.
Publish(p) ==
  /\ \A q \in Of(searchable, p.doc) : q.version < p.version
  /\ searchable' = searchable \cup {p}
  /\ published' = (published \ Of(published, p.doc)) \cup {p}

\* A version is searchable although its ingest has not completed.
Appear(p) ==
  /\ \A q \in Of(published, p.doc) : q.version < p.version
  /\ \A q \in Of(searchable, p.doc) : q.version # p.version
  /\ searchable' = searchable \cup {p}
  /\ UNCHANGED published

\* A version nobody was promised stops being searchable.
Vanish(p) ==
  /\ p \in searchable \ published
  /\ searchable' = searchable \ {p}
  /\ UNCHANGED published

Next == \E p \in Publication : Publish(p) \/ Appear(p) \/ Vanish(p)

Spec == Init /\ [][Next]_vars

=============================================================================
