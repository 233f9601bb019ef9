---------------------------- MODULE ResponseCache ----------------------------
(***************************************************************************)
(* The response cache in Redis (src/src/app/stores/cache.py): one answer    *)
(* per fingerprint of a first question, and for each document the set of    *)
(* the keys whose answer cites it.  Each operation is one Redis command or  *)
(* one MULTI/EXEC pipeline, hence one step; callers decide what an error    *)
(* means.  Redis outlives the service.                                     *)
(***************************************************************************)

CONSTANTS
  Fingerprints,  \* the keys of first questions
  NoAnswer       \* no entry at a key

VARIABLES
  entries,  \* cache:{fingerprint}: the answer, if there is one
  tags      \* doc_tag:{doc_id}: the keys tagged with each document

cacheVars == <<entries, tags>>

CacheInit(docs) ==
  /\ entries = [f \in Fingerprints |-> NoAnswer]
  /\ tags = [d \in docs |-> {}]

\* Faulty: the tags are not in the pipeline of the entry, and are lost.
SetUntagged(f, answer, docs) ==
  /\ entries' = [entries EXCEPT ![f] = answer]
  /\ UNCHANGED tags

\* ResponseCache.set: the entry and its tags in one pipeline.
Set(f, answer, docs) ==
  /\ entries' = [entries EXCEPT ![f] = answer]
  /\ tags' = [d \in DOMAIN tags |-> IF d \in docs THEN tags[d] \cup {f} ELSE tags[d]]

\* invalidate_document, second round trip: the keys read and the tag set go.
Drop(keys, d) ==
  /\ entries' = [f \in Fingerprints |-> IF f \in keys THEN NoAnswer ELSE entries[f]]
  /\ tags' = [tags EXCEPT ![d] = {}]

\* The TTL of an entry passes; SADD set none on the tags.
Expire(f) ==
  /\ entries[f] # NoAnswer
  /\ entries' = [entries EXCEPT ![f] = NoAnswer]
  /\ UNCHANGED tags

=============================================================================
