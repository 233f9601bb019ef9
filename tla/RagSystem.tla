------------------------------ MODULE RagSystem ------------------------------
(***************************************************************************)
(* The service as its users see it: chat requests (src/src/app/api/chat.py) *)
(* that read the stores (src/src/app/retrieval/hybrid.py) while an ingest   *)
(* writes them, answer from the response cache or fill it, and keep the     *)
(* history of their session; and the ingest of module Ingestion, whose call *)
(* of the cache invalidator is here the two round trips of                 *)
(* RedisCacheInvalidator.                                                   *)
(*                                                                         *)
(* A chat is one request.  A step is what it does between two points where *)
(* another request or the ingest may act: one call of a store, or the      *)
(* reranking, the gate, the prompt and the generation together, which read *)
(* nothing but what the request has already got.                           *)
(*                                                                         *)
(* A definition marked Faulty is the one after it with one slip, to show    *)
(* that the properties tell the difference; nothing else uses it.          *)
(***************************************************************************)
EXTENDS Ingestion, ResponseCache, Sessions

CONSTANTS
  Chats,      \* the chat requests
  KEach,      \* how many hits each index returns
  TopN,       \* how many chunks a retrieval returns
  RerankTopN, \* _RERANK_TOP_N: how many of them reach the model
  HistoryLimit \* _HISTORY_LIMIT

ASSUME RagSystemAssumption == {KEach, TopN, RerankTopN, HistoryLimit} \subseteq Nat \ {0}

VARIABLES
  stage,     \* what each chat does next, or how it ended
  request,   \* the session and the fingerprint of its question
  local,     \* what it has read so far
  members,   \* the keys the invalidator has read and has yet to drop
  reported,  \* the version of each document last reported ingested
  evicted,   \* the version whose invalidation last took effect
  raced      \* the keys whose entry was stale already when it was written, or
             \* was written between the two round trips of an invalidation

chatVars == <<stage, request, local>>
systemVars == <<vars, chatVars, cacheVars, turns, members, reported, evicted, raced>>

Ended == {"answered", "refused", "unavailable", "failed"}
Stages == {"outside", "lookup", "keywords", "vectors", "hydrate",
           "generate", "user", "assistant", "write"} \cup Ended

\* bare: the history it read was empty; cacheable: its fingerprint is not None;
\* hits: the ids its searches found; cites: the chunks it retrieved, then those
\* its answer cites (none of its own on a cache hit).  Of the models: floor,
\* what was reported when it began; promised, what was committed when it
\* searched the vectors.
Locals == [bare: BOOLEAN, cacheable: BOOLEAN, hits: SUBSET (Docs \X Versions \X Nat),
           cites: SUBSET Entry, floor: [Docs -> 0 .. MaxVersion],
           promised: SUBSET Publication]

Nothing == [bare |-> FALSE, cacheable |-> FALSE, hits |-> {}, cites |-> {},
            floor |-> [d \in Docs |-> 0], promised |-> {}]

\* The n best of a set, by a ranking the model leaves open.
BestOf(n, set) == {best \in SUBSET set : Cardinality(best) = Min({n, Cardinality(set)})}

SystemInit ==
  /\ Init
  /\ CacheInit(Docs)
  /\ SessionsInit
  /\ stage = [c \in Chats |-> "outside"]
  /\ request \in [Chats -> [session: SessionIds, key: Fingerprints]]
  /\ local = [c \in Chats |-> Nothing]
  /\ members = {}
  /\ reported = [d \in Docs |-> 0]
  /\ evicted = [d \in Docs |-> 0]
  /\ raced = {}

-----------------------------------------------------------------------------
(* A chat request *)

\* The request goes on, with these locals.
Enter(c, to, now) ==
  /\ stage' = [stage EXCEPT ![c] = to]
  /\ local' = [local EXCEPT ![c] = now]
  /\ UNCHANGED <<vars, request, members, reported, evicted>>

End(c, outcome) == Enter(c, outcome, Nothing)

\* Faulty: fingerprint leaves the history out of account.
ReadHistoryAnyTurn(c) ==
  /\ stage[c] = "outside"
  /\ LET none == History(request[c].session, HistoryLimit) = <<>>
     IN  \/ Enter(c, "lookup", [Nothing EXCEPT !.bare = none, !.cacheable = TRUE,
                                              !.floor = reported])
         \/ End(c, "failed")
  /\ UNCHANGED <<cacheVars, turns, raced>>

\* A valid request arrives: get_history, and fingerprint, which makes only a
\* first turn cacheable.  An exception, here and below, is a 500.
ReadHistory(c) ==
  /\ stage[c] = "outside"
  /\ LET none == History(request[c].session, HistoryLimit) = <<>>
     IN  \/ Enter(c, IF none THEN "lookup" ELSE "keywords",
                  [Nothing EXCEPT !.bare = none, !.cacheable = none, !.floor = reported])
         \/ End(c, "failed")
  /\ UNCHANGED <<cacheVars, turns, raced>>

\* _cache_get: an error is a miss.
LookUp(c) ==
  /\ stage[c] = "lookup"
  /\ \/ entries[request[c].key] # NoAnswer /\ Enter(c, "user", local[c])
     \/ Enter(c, "keywords", local[c])
  /\ UNCHANGED <<cacheVars, turns, raced>>

(* retrieve: three reads of three stores *)

KeywordSearch(c) ==
  /\ stage[c] = "keywords"
  /\ \/ \E found \in SUBSET {Id(e) : e \in postings} :
          /\ Cardinality(found) <= KEach
          /\ Enter(c, "vectors", [local[c] EXCEPT !.hits = found])
     \/ End(c, "failed")
  /\ UNCHANGED <<cacheVars, turns, raced>>

\* embed_query and the search, which finds the nearest points, however far.
VectorSearch(c) ==
  /\ stage[c] = "vectors"
  /\ \/ \E found \in BestOf(KEach, {Id(e) : e \in points}) :
          Enter(c, "hydrate",
                [local[c] EXCEPT !.hits = @ \cup found, !.promised = committed])
     \/ End(c, "failed")
  /\ UNCHANGED <<cacheVars, turns, raced>>

\* get_chunks_by_ids: an id without a row is skipped; no chunk is a refusal.
Hydrate(c) ==
  LET rows == {e \in chunks : Id(e) \in local[c].hits}
  IN  /\ stage[c] = "hydrate"
      /\ \/ /\ rows # {}
            /\ \E best \in BestOf(TopN, rows) :
                 Enter(c, "generate", [local[c] EXCEPT !.hits = {}, !.promised = {},
                                                       !.cites = best])
         \/ rows = {} /\ End(c, "refused")
         \/ End(c, "failed")
      /\ UNCHANGED <<cacheVars, turns, raced>>

Question(c) == [chat |-> c, role |-> "user"]
Reply(c) == [chat |-> c, role |-> "assistant"]

\* Faulty: the question is stored before the model has answered.
GenerateAfterTurn(c) ==
  /\ stage[c] = "generate"
  /\ \/ \E kept \in BestOf(RerankTopN, local[c].cites) :
          Enter(c, "assistant", [local[c] EXCEPT !.cites = kept])
     \/ \E outcome \in {"refused", "unavailable", "failed"} : End(c, outcome)
  /\ AppendTurn(request[c].session, Question(c))
  /\ UNCHANGED <<cacheVars, raced>>

\* rerank_scored, the relevance gate, assemble_context and complete: the model
\* answers from the kept chunks, the gate refuses, the generation fails or is
\* blank (503), or something else is raised.
Generate(c) ==
  /\ stage[c] = "generate"
  /\ \/ \E kept \in BestOf(RerankTopN, local[c].cites) :
          Enter(c, "user", [local[c] EXCEPT !.cites = kept])
     \/ \E outcome \in {"refused", "unavailable", "failed"} : End(c, outcome)
  /\ UNCHANGED <<cacheVars, turns, raced>>

\* _append_turns: two calls; each may raise, applied or not.
AppendQuestion(c) ==
  /\ stage[c] = "user"
  /\ \/ AppendTurn(request[c].session, Question(c)) /\ Enter(c, "assistant", local[c])
     \/ AppendTurn(request[c].session, Question(c)) /\ End(c, "failed")
     \/ UNCHANGED turns /\ End(c, "failed")
  /\ UNCHANGED <<cacheVars, raced>>

AppendAnswer(c) ==
  /\ stage[c] = "assistant"
  /\ \/ /\ AppendTurn(request[c].session, Reply(c))
        /\ \/ /\ local[c].cacheable /\ local[c].cites # {}
              /\ Enter(c, "write", local[c])
           \/ /\ ~(local[c].cacheable /\ local[c].cites # {})
              /\ End(c, "answered")
     \/ AppendTurn(request[c].session, Reply(c)) /\ End(c, "failed")
     \/ UNCHANGED turns /\ End(c, "failed")
  /\ UNCHANGED <<cacheVars, raced>>

\* An answer that cites a version below the one last evicted, or whose tags
\* an invalidation between its round trips is about to drop.
RacedWrite(c) ==
  \E e \in local[c].cites :
    e.version < evicted[e.doc] \/ (members # {} /\ job.doc = e.doc)

\* _cache_set: the answer is cached, or an error is swallowed.
WriteCache(c) ==
  /\ stage[c] = "write"
  /\ \/ /\ Set(request[c].key, [sources |-> local[c].cites, firstTurn |-> local[c].bare],
               {e.doc : e \in local[c].cites})
        /\ raced' = {f \in raced : f # request[c].key}
                      \cup {f \in {request[c].key} : RacedWrite(c)}
     \/ UNCHANGED <<cacheVars, raced>>
  /\ End(c, "answered")
  /\ UNCHANGED turns

ChatStep(c) ==
  \/ ReadHistory(c) \/ LookUp(c)
  \/ KeywordSearch(c) \/ VectorSearch(c) \/ Hydrate(c)
  \/ Generate(c)
  \/ AppendQuestion(c) \/ AppendAnswer(c) \/ WriteCache(c)

-----------------------------------------------------------------------------
(* The ingest, with the invalidator of the response cache *)

EndIngest ==
  /\ Finish("ingested")
  /\ members' = {}
  /\ reported' = [reported EXCEPT ![job.doc] = job.version]
  /\ UNCHANGED <<storeVars, chatVars, turns>>

\* The first round trip: an error ends the invalidation, and so does an empty
\* tag set, of which there is then nothing to evict.
ReadTags ==
  /\ pc = "invalidate" /\ members = {}
  /\ \/ /\ tags[job.doc] # {}
        /\ members' = tags[job.doc]
        /\ UNCHANGED <<vars, chatVars, turns, reported, evicted>>
     \/ /\ tags[job.doc] = {}
        /\ evicted' = [evicted EXCEPT ![job.doc] = job.version]
        /\ EndIngest
     \/ UNCHANGED evicted /\ EndIngest
  /\ UNCHANGED <<cacheVars, raced>>

\* The second: the pipeline is applied and returns, is applied and raises, or
\* raises; an error is swallowed.
DropTagged ==
  /\ pc = "invalidate" /\ members # {}
  /\ EndIngest
  /\ \/ /\ Drop(members, job.doc)
        /\ raced' = raced \ members
        /\ evicted' = [evicted EXCEPT ![job.doc] = job.version]
     \/ UNCHANGED <<cacheVars, raced, evicted>>

IngestStep ==
  \/ /\ Step /\ pc # "invalidate"
     /\ UNCHANGED <<chatVars, cacheVars, turns, members, reported, evicted, raced>>
  \/ ReadTags
  \/ DropTagged

SubmitUpload ==
  /\ \E d \in Docs, t \in Texts : Submit(d, t)
  /\ UNCHANGED <<chatVars, cacheVars, turns, members, reported, evicted, raced>>

-----------------------------------------------------------------------------

\* The process stops: the ingest and the chats under way are gone, the stores
\* and Redis stay.
Stop ==
  /\ IF pc = "idle" THEN UNCHANGED vars ELSE Crash
  /\ stage' = [c \in Chats |->
                 IF stage[c] \in Ended \cup {"outside"} THEN stage[c] ELSE "failed"]
  /\ local' = [c \in Chats |-> Nothing]
  /\ members' = {}
  /\ UNCHANGED <<request, cacheVars, turns, reported, evicted, raced>>

\* Time passes in Redis.  A session does not expire between the two appends
\* of an answer, which restart its clock of a day.
Expiry ==
  /\ \/ /\ \E f \in Fingerprints : Expire(f) /\ raced' = raced \ {f}
        /\ UNCHANGED turns
     \/ /\ \E s \in SessionIds :
             /\ \A c \in Chats : stage[c] = "assistant" => request[c].session # s
             /\ ExpireSession(s)
        /\ UNCHANGED <<cacheVars, raced>>
  /\ UNCHANGED <<vars, chatVars, members, reported, evicted>>

SystemNext ==
  \/ SubmitUpload \/ IngestStep
  \/ \E c \in Chats : ChatStep(c)
  \/ Stop
  \/ Expiry

SystemSpec == SystemInit /\ [][SystemNext]_systemVars

-----------------------------------------------------------------------------

Answer == [sources: SUBSET Entry, firstTurn: BOOLEAN]

SystemTypeOK ==
  /\ TypeOK
  /\ entries \in [Fingerprints -> Answer \cup {NoAnswer}]
  /\ tags \in [Docs -> SUBSET Fingerprints]
  /\ \A s \in SessionIds :
       /\ Len(turns[s]) <= MaxTurns
       /\ \A i \in DOMAIN turns[s] : turns[s][i] \in [chat: Chats, role: {"user", "assistant"}]
  /\ stage \in [Chats -> Stages]
  /\ request \in [Chats -> [session: SessionIds, key: Fingerprints]]
  /\ local \in [Chats -> Locals]
  /\ members \subseteq Fingerprints
  /\ {reported, evicted} \subseteq [Docs -> 0 .. MaxVersion]
  /\ raced \subseteq Fingerprints

\* Once an upload was answered "ingested", no request that begins later takes
\* a chunk of an older version from the stores, wherever its three reads fall
\* between the writes of later ingests, their failures and their crashes.
LiveAnswersAreFresh ==
  \A c \in Chats : \A e \in local[c].cites : e.version >= local[c].floor[e.doc]

\* Ingests that fail do not hide a published document from a retrieval under
\* way: if the version that was committed when the vectors were searched is
\* still the committed one, its chunks are among the hits and hydrate to its
\* text (pipeline.py: "retrieval keeps serving it throughout").  Stated where
\* KEach does not cut the hits off.
PublishedIsRetrieved ==
  \A c \in Chats :
    stage[c] = "hydrate" =>
      \A p \in local[c].promised \cap committed :
        \A e \in ChunksOf(p.doc, p.version, p.text) : Id(e) \in local[c].hits /\ e \in chunks

\* An answer from a version below the last one whose invalidation took effect
\* is in the cache by a race alone: its chat had read the old version before and
\* wrote after, or it was written between the two round trips.  No other
\* entry loses a tag, by TTLs, lost writes, crashes or failed invalidations, so
\* that the next invalidation to take effect finds it.  What an invalidation
\* that failed left (it moves no evicted), or a version later rolled back
\* (RolledBackIsNotCached), is not stale in this sense.
StaleOnlyByRace ==
  \A f \in Fingerprints \ raced :
    entries[f] # NoAnswer =>
      \A e \in entries[f].sources :
        /\ e.version >= evicted[e.doc]
        /\ f \in tags[e.doc]

\* No answer composed from a conversation is ever in the cache that all
\* sessions share, whatever other requests of the session do meanwhile.
CacheHoldsNoConversation ==
  \A f \in Fingerprints : entries[f] # NoAnswer => entries[f].firstTurn

\* A request that refused or could not generate left its session as it was,
\* an answered one left its answer after its question where the cap still
\* shows it, and a question without an answer is one whose request
\* failed with an exception, was lost with the process, or is under way.
SessionMatchesOutcome ==
  \A s \in SessionIds : \A i \in DOMAIN turns[s] :
    LET c == turns[s][i].chat
    IN  /\ stage[c] \notin {"refused", "unavailable"}
        /\ (turns[s][i].role = "user" /\ stage[c] = "answered") =>
             \E j \in i + 1 .. Len(turns[s]) : turns[s][j] = Reply(c)

\* Seen without the chats, the composed system runs the ingest of module
\* Ingestion and nothing else: its theorems hold here.
ImplementsIngestion == Init /\ [][Next]_vars

\* What cache.py says: "a stale answer is dropped the moment its source
\* document changes".
CachedAnswersAreFresh ==
  \A f \in Fingerprints :
    entries[f] # NoAnswer =>
      \A e \in entries[f].sources : e.version >= evicted[e.doc]

\* What pipeline.py says of an ingest whose writes failed: "the cache is still
\* right (retrieval kept the prior version)".  Of a published document whose
\* last ingest was undone completely, no cached answer cites a version the
\* document table does not know.
RolledBackIsNotCached ==
  \A p \in committed :
    (result[p.doc] = "rolled back" /\ Resting(p.doc)) =>
      \A f \in Fingerprints :
        entries[f] # NoAnswer =>
          \A e \in entries[f].sources : e.doc = p.doc => e.version <= LatestVersion(p.doc)

=============================================================================
