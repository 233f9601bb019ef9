# Verification of the customer-service RAG service

TLA+ models, TLC runs and TLAPS proofs for the program in `src/`: a FastAPI
service that ingests uploaded documents into three stores (SQLite chunk tables,
a SQLite FTS5 keyword index, a Qdrant vector index), answers chat questions
from them by hybrid retrieval, reranking and a language model, and caches
answers in Redis. All paths below are relative to the directory above this one.

Contents: [inventory](#inventory) · [plan](#plan) · [modules](#modules-and-the-code) ·
[runs](#runs) · [assumptions](#assumptions-of-the-models) · [proofs](#proofs) ·
[findings](#findings) · [what is left out](#what-is-not-modelled)

## Inventory

### Components

| Component | Code (`src/src/app/...`) | State | Operations | Module |
|---|---|---|---|---|
| ChunkStore | `stores/chunk_store.py` | SQLite `documents`, `chunks`; one connection, one lock | `upsert_document`, `get_chunks`, `get_chunks_by_ids`, `latest_version`, `delete_version` | `Stores`, `RagSystem` |
| Bm25Index | `stores/bm25_index.py` | SQLite FTS5 postings; one connection, one lock | `index_chunks`, `remove_document_version`, `search` | `Stores`, `RagSystem` |
| VectorStore | `stores/vector_store.py` | Qdrant collection (another process) | `ensure_collection`, `upsert`, `delete_document_version`, `search` | `Stores`, `RagSystem`, `Lifecycle` |
| IngestionService | `ingestion/pipeline.py` | locals of one call | `ingest` with `_write_new_version`, `_rollback`, `_sweep_superseded_versions` | `Ingestion` |
| Chunker | `ingestion/chunker.py` | none | `split_sentences`, `chunk_text` | `Chunker` |
| Extractors | `ingestion/extractors.py` | the process-wide warnings filter | `extract` for txt, md and pdf | `Requests` |
| Upload API | `api/documents.py` | a capacity limiter of one | `POST /documents`, `PUT /documents/{doc_id}` | `Requests` |
| RetrieverPool | `retrieval/pool.py` | semaphore, lock, `_idle`, `_all`, `_closed` | `retrieve`, `close` | `RetrieverPool` |
| HybridRetriever | `retrieval/hybrid.py` | none | `retrieve`: two searches, rank fusion, hydration | `RagSystem`, `Ranking` |
| Reranker | `retrieval/reranker.py` | thread pool of scorers | `rerank_scored`, `parse_score`, `_merge` | `Ranking` |
| Chat API | `api/chat.py` | locals of one request | `POST /chat` | `RagSystem`, `Requests` |
| Response cache, invalidator | `stores/cache.py` | Redis entries with a TTL, a tag set per document | `get`, `set`, `invalidate_document` | `ResponseCache` |
| SessionStore | `stores/sessions.py` | Redis list per session, with expiry | `get_history`, `append_turn` | `Sessions` |
| Fingerprint, context | `chat/fingerprint.py`, `chat/context.py` | none | cache key of a first turn; prompt and cited sources | `RagSystem` (partly) |
| Embedder, LLM clients | `retrieval/embedder.py`, `chat/llm.py` | HTTP clients | `dim`, `embed_query`, `embed_passages`; `complete` | calls that return or raise |
| Application lifecycle | `main.py` | everything it opened | startup, shutdown, `/health`, `/ready` | `Lifecycle`, `Requests` |
| Observability | `observability.py` | log context | middleware, readiness pings | `Requests` (the pings) |
| Evaluation | `eval/` | a throwaway database and collection | build, ingest, rank, metrics, teardown | `EvalRun`, `Ranking`, `Chunker` |
| Settings, shared types | `config.py`, `models.py` | none | configuration, dataclasses | constants and record sets |

### Interactions

- **Upload → IngestionService → three stores → invalidator.** The handler reads
  a capped body on the event loop; one upload at a time passes the ingest
  limiter to a worker thread, which extracts the text and calls the
  collaborators one after the other. The stores share no transaction, so every
  failure between two calls leaves them different, and the worker itself undoes
  or sweeps. After the sweep it tells the response cache to drop what it
  answered from the document.
- **Chat → cache → RetrieverPool → HybridRetriever → stores → Reranker → LLM →
  sessions, cache.** Each stage takes a thread of the default pool. Chats read the
  stores through connections of their own while an ingest writes. The cache
  write of a chat and the invalidation of an ingest meet in Redis, and so do
  the turns of requests of one session.
- **Lifecycle → everything.** Startup opens in order and undoes what it opened
  on failure; shutdown closes the pool under running retrievals. Several
  processes share one Qdrant collection, which the first of them creates.
- **Evaluation** builds a second retrieval stack from the same classes, on stores
  it has to remove again.

### What is hard here

- *Partial failure without a transaction*: any of a dozen calls of an ingest may
  fail, and so may each call that tries to repair it.
- *Ambiguous network failure*: a Qdrant or Redis call that raises may have been
  applied.
- *Crash* between two calls: nothing repairs the leftovers but later ingests.
- *Reuse of numbers*: a rolled-back version number is taken again by another text.
- *Concurrency*: a bounded pool that builds outside its lock and closes while it
  is in use; the three reads of a retrieval between the writes of an ingest;
  two-round-trip invalidation against concurrent cache writes; session appends
  of concurrent requests; a process-wide filter changed by a worker thread.
- *Waiting*: a limiter of one and a pool of 40 threads that everything else shares.
- *Limits and edges*: the sweep's bounds, the chunker's moving window, the cap of
  a body, score parsing, ties in a ranking, TTLs.

`PROJECT.json` lists these as hazards, each at its line with the properties that
would catch it.

### What makes each component correct

- **ChunkStore**: exactly one active version per document, the highest
  (`OneActiveVersion`).
- **IngestionService with the stores**: the last completely written version
  stays whole whatever fails later (`CommittedServed`); whatever a failure leaves
  behind, something will find (`OrphansReclaimable`); what a caller is told is
  true (`SuccessLeavesOneVersion`, `RollbackLeavesNoOrphans`); every ingest ends
  (`IngestEnds`); readers see versions come and go only as an abstract catalog
  allows (`ImplementsCatalog`).
- **RetrieverPool**: exclusive use of a connection (`ExclusiveCheckout`), no permit
  lost (`PermitsConserved`), nothing left open (`CloseLeavesNothingOpen`), every call
  returns (`CloseReturns`, `RetrieveReturns`); threads see connections lent, opened and
  closed only as an abstract pool allows (`ImplementsLending`), hence a bounded
  number of them (`ConnectionsBounded`) and none closed in use (`NoUseAfterClose`).
- **HybridRetriever, chat and ingest together**: a request that began after an
  upload was reported never reads an older version (`LiveAnswersAreFresh`); a
  document that stays published is found whatever else fails meanwhile
  (`PublishedIsRetrieved`).
- **Cache**: an answer from a version below the last one whose invalidation took
  effect is there by a race alone, and every other entry keeps the tags by which it is
  found (`StaleOnlyByRace`); no conversation enters the cache all sessions share
  (`CacheHoldsNoConversation`).
- **SessionStore**: what a history shows agrees with how its requests ended
  (`SessionMatchesOutcome`), within the cap (`SystemTypeOK`).
- **Upload API, Extractors**: the cap is exact (`CapIsExact`), damage is never
  ingested (`DamagedNeverIngested`), the filter is restored (`FilterIsRestored`),
  one upload works at a time (`OneWorker`), no request keeps a token it has no work for
  (`TokensAreReturned`), so none keeps the permit (`UploadsEnd`), and none keeps chats or probes
  waiting (`OthersEnd`).
- **Lifecycle**: everything opened is closed once, in reverse order
  (`ClosedInReverse`), not under a running retrieval
  (`RetrievalKeepsItsClients`), and startup and shutdown end (`Settles`); a process
  that serves has the collection's vector size (`EnsuredMatchesCollection`).
- **Chunker, ranking, evaluation**: every sentence is covered and the budget kept
  (`ChunksCoverText`, `ChunksKeepBudget`); the fusion respects both indexes
  (`FusionRespectsIndexes`); reranking loses nothing (`RerankKeepsPlaces`); the
  metrics agree with one another (`MetricsAgree`); a run removes what it made
  (`TeardownLeavesNothing`).

## Plan

What can lose or corrupt documents came first, then what threads share, then
what a user sees as a stale answer, then the pure algorithms.

| # | Modules | Composes | Abstract specification or reference | State |
|---|---|---|---|---|
| 1 | `Stores`, `Ingestion` with `IngestionInvariants`, `StoresProofs`, `IngestionProofs` | `Ingestion` extends `Stores` | `DocumentCatalog` | done; safety proved |
| 2 | the refinement, in `IngestionProofs` | | `Ingestion` implements `DocumentCatalog` | done; proved |
| 3 | `RetrieverPool` with `RetrieverPoolInvariants`, `RetrieverPoolProofs` | | `ConnectionLending` | done; safety and refinement proved |
| 4 | `ResponseCache`, `Sessions`, `RagSystem` with `RagSystemInvariants`, `RagSystemProofs` | ingest, cache, sessions and chats | `Ingestion`, and through it `DocumentCatalog` | done; safety proved, `PublishedIsRetrieved` where `KEach` cuts nothing off |
| 5 | `Lifecycle` with `LifecycleProofs` | processes over one collection | | done; safety proved |
| 6 | `Requests` with `RequestsProofs` | uploads, chats and probes on two limiters | | done; safety proved |
| 7 | `Chunker` with `ChunkerProofs` | | | done; safety proved |
| 8 | `Ranking`, `EvalRun` with `EvalRunProofs` | `EvalRun` extends `Chunker`, `Ranking` | definitions of a right order | done; safety proved |

Every safety property of a run that passes is stated by a theorem; what is left to
TLC is listed at the end of [Proofs](#proofs). The rest of the program is listed under
[what is not modelled](#what-is-not-modelled).

## Modules and the code

### Stores

`documents` and `chunks` are the two tables of `ChunkStore`, `postings` is the
FTS5 table and `points` the Qdrant collection; each is a set of records, one per
row. One operation of a store class is one action on all four variables:
`UpsertDocument`, `DeleteVersion`, `IndexChunks`, `RemovePostings`,
`UpsertPoints`, `DeletePoints`. A SQLite operation is one transaction under one
lock, so it is one step. A text is a model value with a number of chunks
(`ChunkCount`); a chunk is identified by document, version and position, as in
`"{doc_id}:{version}:{seq}"`, and carries the text it was cut from, so that the
model notices a row of one text under the number of another.

### Ingestion

One action per call of the worker, in the order of `pipeline.py`:

| Code | Actions |
|---|---|
| `ingest`: chunking, embedding | `Submit`, `ChunkText`, `EmbedPassages` |
| `_write_new_version` | `StoreChunks`, `FetchChunks`, `ClearPostings`, `ClearPoints`, `IndexPostings`, `IndexPoints` |
| `_rollback` | `UndoPoints`, `UndoPostings`, `UndoChunks` |
| `_sweep_superseded_versions` | `SweepCheck`, `SweepPoints`, `SweepPostings`, `SweepChunks` |
| cache invalidation | `Invalidate` |
| the process stops | `Crash` |

Each action has one disjunct for the call that returns and one for each way it
can fail; a failing disjunct goes where the code's `except` clause goes. `job` holds
the locals of the call (`clean` is the absence of collected rollback failures,
`cursor` the loop variable of the sweep), `result` how the last ingest of each
document ended, `committed` is a history variable: the last version of each
document whose writes all returned.

`DocumentCatalog` is the promise to a reader: a published version is always
searchable whole, and is replaced in one step by a higher-numbered one; other
versions may appear above it and vanish. `Ingestion` implements it under the
mapping `searchable <- WholeVersions`, `published <- committed`.

### RetrieverPool

Each thread calling `retrieve` or `close` has a program counter; a step is what it
does between two points where another thread can run: an operation on the
semaphore, one block under the lock, or one call made outside the lock
(factory, retriever, connection close). `Checkout`, `Register`, `GiveBack`,
`BeginClose` and `Collect` are the blocks under the lock; `AcquireSlot`,
`ReleaseSlot` and `Drain` are semaphore operations; `Build` is the factory,
outside the lock, with its failure path. `open` and `stuck` are what the factory
built and what failed to close, which the code does not record.

`ConnectionLending` is the promise to the threads, without semaphore, lock and lists:
an open entry is lent to one thread at a time, at most `Size` are open, idle ones are
lent no more once `close` was called, and entries are closed only when all have come
back, after which none is opened. `RetrieverPool` implements it under the mapping
`live <- open`, `lent <- held`, `phase <- Phase`.

### ResponseCache, Sessions, RagSystem

`ResponseCache` and `Sessions` are the two Redis stores, one action per command
or pipeline: `Set`, `Drop`, `Expire`, `AppendTurn`, `ExpireSession`, and `History`
for a read. `RagSystem` extends them and `Ingestion`, and composes the chats with
the ingest. A chat is a request at a `stage`, with what it has read in `local`:

| Code | Actions |
|---|---|
| `chat`: `get_history`, `fingerprint` | `ReadHistory` |
| `_cache_get` | `LookUp` |
| `HybridRetriever.retrieve` | `KeywordSearch`, `VectorSearch`, `Hydrate` |
| reranking, relevance gate, context, `complete` | `Generate` |
| `_append_turns` | `AppendQuestion`, `AppendAnswer` |
| `_cache_set` | `WriteCache` |
| `RedisCacheInvalidator.invalidate_document` | `ReadTags`, `DropTagged` |
| the process stops; time passes in Redis | `Stop`, `Expiry` |

The steps of the ingest are those of `Ingestion`, but for `Invalidate`, which is
refined into its two round trips. Which postings match, which points are near,
and what the reranker prefers is any choice of the right number (`BestOf`). The
history variables are `reported` (the version of each document last reported to an
uploader), `evicted` (the version whose invalidation last took effect), `raced`
(the keys written stale, or between the round trips), and of each chat `floor`
(what was reported when it began) and `promised` (what was committed at its
vector search).

### Lifecycle

The three builders of `main.py` are sequences of steps (`IngestSteps`, `ChatSteps`,
`ReadySteps`); a process goes through them with the closers its code keeps:
`Start`, `OpenNext`, `CallReturns`, `BuilderReturns`, `Serve`; any step may fail
(`StepFails`), which closes what the builder and the ones before it opened.
`CheckExists`, `Create` and `Validate` are the three calls of
`ensure_collection`, with other processes between them. `Retrieve` and
`RetrieveReturns` are a retrieval on a worker thread that outlives a cancelled
request; `Shutdown`, `CloseReader` (the pool's pair of connections),
`CloseNext` and `Exit` the end; `Restart` a crash or a restart, perhaps with
another embedding model.

### Requests

Uploads, chats and probes are at a place; `pool` and `permit` are the lines of the
default limiter and of the ingest limiter, whose first members hold the tokens.
`Arrive` and `Ask` enter; `Resolve`, `ReadHistory`, `Retrieve`, `Generate`,
`AppendTurns` and `Probe` are jobs that end and return their thread; `ReadBody` is
one turn of the loop of `_read_capped`; `AskPermit`, `ExtractByType`, `Parse`,
`Restore` and `IngestText` are the worker, the middle three with the warnings
filter of `catch_warnings`. What an ingest does is module `Ingestion`; here it ends
with a status, or never.

### Chunker, Ranking, EvalRun

`Chunker`: `Split` and `SplitEnds` make sentences of the stretches between
possible ends, which an abbreviation is not; `AddSentence` and `CutWindow` are the
inner and outer loop of the packing, with `NextStart` the overlap. A sentence is its
number of words, and `ceil(1.4 * words)` is integer arithmetic, which agrees with
the code's floating-point one for every sentence of less than two million words.

`Ranking`: `Search` and `Fuse` are the fusion; a score is a sum of fractions (`Plus`),
compared by cross-multiplying (`Exceeds`), where the code adds floating-point numbers
(which orders and ties the same sums for lists of up to 20, the default; from some length
up to 61 rounding separates a few exact ties), and a
stable sort is one by score and then by place of insertion (`Precedes`, `Place`); what is
sorted is defined by the order it must have (`Sorted`). `BeginRerank`,
`ScoreOne` (replies in any order) and `EndRerank` the reranking, with `ParseScore`
over digits, the other characters `str.isdigit` accepts, and the rest; then the
metrics of `retrieval_eval.py`.

`EvalRun` is `eval/__main__.py`: `Build`, `Built`, `ChunkSample`, `SampleStored`,
`Evaluate`; `Leave`, at any failure or at the end; `CloseReranker`, `CloseNext`,
`End`.

### Invariants, proofs, instances

`IngestionInvariants`, `RetrieverPoolInvariants` and `RagSystemInvariants` hold
inductive invariants as conjunctions of named parts; those of `Requests`,
`Lifecycle`, `Chunker` and `EvalRun` stand in their proof modules. `MC...` modules
give constants their values for TLC; `Lifecycle` needs none.

A definition whose comment starts with *Faulty* is the definition after it with
one slip (a skipped clear, a swallowed failure, a kept permit, a loop bound). No
specification uses one: substituted for the original, each makes the property
named beside it in `PROJECT.json` fail, which shows what the properties can
tell apart.

## Runs

| Run | Shows | Bounds |
|---|---|---|
| `ingestion` | types and the five safety properties of the ingest, that it implements `DocumentCatalog`, that it ends | one document, versions up to 3, texts of 0, 1 and 2 chunks |
| `pool` | types, exclusive use, permits and what `close` leaves, that the pool implements `ConnectionLending` (which bounds the connections and forbids their use after the close); `close` and `retrieve` return | 3 callers of one call, 2 closers, 3 retrievers, size 2 |
| `pool_closed` | a `retrieve` after `close` blocks (expected violation) | 2 callers, 1 closer, size 1 |
| `rag_system` | what a live answer may be made of, what the cache may hold, what a history shows | one document, versions up to 2, one text of one chunk, 2 chats of one session with one question, `MaxTurns` 2 |
| `stale_answer` | a stale answer may stay in the cache (expected violation) | the same, one chat |
| `rolled_back` | an answer from a version that was rolled back may stay in the cache (expected violation) | the same, one chat |
| `lifecycle` | order of closes, clients of a running retrieval, size of the collection, startup and shutdown end | 2 processes, embedding models of 2 sizes |
| `lifecycle_leak` | a failing close may leave a connection open (expected violation) | one process |
| `requests` | the cap, the filter, damaged files, tokens, who may wait for whom; no deadlock | 2 uploads, a chat, a probe, one thread, cap 3, reads of 2, bodies of 3 of each type, one of 4 and one of 8 |
| `health` | slow generations make `/health` wait (expected violation) | an upload, 2 chats, a probe, 2 threads |
| `evaluation` | covering and budget of the chunks, fusion, reranking, metrics, teardown | texts of up to 5 sentences of up to 8 words, budget 10, overlap 2; 4 chunks of 2 documents, lists of up to 3, 7 replies |
| `rerank_failopen` | a reply with a superscript fails the request (expected violation) | the same |

Why the bounds are enough.

- `ingestion`. *Versions up to 3*: one version to keep, one that fails beside it,
  and the number after it; the sweep then passes over two older versions, one of
  which is gone and one of which is there. *Texts of one and two chunks*: a number
  can be reused by a text with fewer chunks, where a stale entry at a higher
  position would survive an overwrite by id, and with more. *The empty text* is the
  one chunking refuses. *One document*: the ingest touches rows of its own document
  only, and the theorems hold for any set of documents.
- `pool`. *Three callers on a pool of two*: one always waits; a waiter may be
  overtaken between its permit and the lock. *Two closers*: the second finds the
  pool closed. *Three retrievers*: a pool that built one too many is able to show it.
- `rag_system`. *Two versions*: one superseded, or one that fails beside a published
  one, with its number used again. *Two chats of one session*: appends interleave,
  a second turn meets a first one, two writes of one key meet one invalidation.
  *`MaxTurns` 2*: the smallest cap the code's even number allows, reached by one
  answer. *`KEach` 3* exceeds the two chunks there can be, so that hits are cut off
  nowhere (`NothingCutOff`) and `PublishedIsRetrieved` may ask for all of them; *`TopN` 2,
  `RerankTopN` 1* cut. One text suffices for the versions, which is what the
  freshness properties compare. For `PublishedIsRetrieved`, where a number used
  again by *another text* matters, use `Texts = {t1, t2}` and `Chats = {c1}` in
  `MCRagSystem.cfg`: all six invariants hold there too (654 000 states; chats do
  not influence the stores, so one is enough for that property). Both sizes together
  exceed five minutes; the theorems hold for all.
- `lifecycle`. *Two processes, two sizes*: a race for the collection, with the same
  model or with different ones, and a restart with the other one.
- `requests`. *One thread* for a chat, a probe and the dependencies of two uploads:
  everyone waits for everyone who could be waited for. *Cap 3, reads of 2*: a body
  of the size of the cap ends within a read, a body of 4 passes it by one, a body of 8
  in one read.
- `evaluation`. *Budget 10, overlap 2, words of 1, 3, 6 and their sums up to 8*:
  sentences that fit three to a window, two, one, or not at all, and an overlap
  larger than a window. *Lists of three out of four*: ids in both lists, in one, and
  ties. *The replies*: in range, at its end, after other text, out of range, too long,
  no digit, and a digit that is not decimal.

`CHECK_DEADLOCK FALSE` is set where a system may really stop: an ingest that has
used up the version numbers, chats that have ended, threads that need not call
again (or, in a closed pool, wait for ever, which `pool_closed` is about), stopped
processes that nobody starts again, an evaluation that has ended. `requests` and
`health` check deadlock: a probe comes again and again.

## Assumptions of the models

- **SQLite**: an operation is atomic, durable, and fails having changed nothing
  (each runs in one transaction). Any call may fail.
- **Qdrant**: a call is applied to the whole batch, or not at all, before it
  returns or raises; a call that raises may have been applied. No call is
  applied after a later one of the same worker. The collection survives a
  restart of the service.
- **Redis**: a command or MULTI/EXEC pipeline is one step; one that raises may have
  been applied, but for the cache write, whose failure is its absence (applied and
  raised, it leaves the state of a write that returned, since the error is
  swallowed). It survives the service; entries and sessions expire at any time,
  except that a session does not expire between the two appends of one answer,
  which restart its clock of a day.
- **Crash**: between any two calls; the ingest and the chats are gone, the stores stay.
- **One ingest at a time** in `Ingestion` and `RagSystem`, which the ingest limiter
  enforces within one process (`OneWorker`, proved of `Requests`).
- **The limiters** of anyio serve in order and admit exactly as many as they have
  tokens: an external component, modelled from its use. The three kinds of requests
  are disjoint.
- **Bounds.** `MaxVersion`, `MaxCalls`, `MaxSentences` and `MaxWords` are bounds of the
  models, not of the code. Each chat is one request; a chat that has ended does
  not come again.
- **Fairness.** `Ingestion`: `WF(Step)`, the worker thread keeps running; uploads and
  crashes are never owed. `RetrieverPool`: weak fairness for each thread's steps except
  the calls themselves. A semaphore wake-up is not fair in Python, and weak
  fairness does not make it so: the liveness properties hold because the number
  of calls is bounded, so that the waiters run out of competitors. They say
  that nobody waits for something that never comes, and not that a waiter is never
  overtaken. `Requests`: weak fairness for each request's `PoolStep` and `UploadStep`:
  the event loop runs what is ready, and jobs of the pool end because their clients
  have timeouts, which for Redis are redis-py's own defaults, since the code sets none; none for arrivals, and none for an ingest, which may hang
  (`UploadsEnd` assumes in its statement that it does not, `OthersEnd` does not).
  `Lifecycle`: `WF(Work)` for each process; nobody has to start it, shut it down or
  crash it. `RagSystem` and `EvalRun` are checked for safety only.

## Proofs

Every theorem holds for all values of the constants that meet the assumptions
named in the modules: `ChunkCount` gives each text a natural number; `MaxVersion`
is a natural number; sizes, caps, limits and thread counts are positive; the sets of
threads of the pool are finite, and so are the chunks there are to rank; `NoJob` and
`NoEntry` are not an ingest and not a retriever. The sets of documents, texts, chats,
sessions, fingerprints, processes and requests are arbitrary. Two theorems have a
hypothesis of their own: `FusionIsRespectful` that lists are not longer than
`RRF_K + 1`, and `PublishedStayRetrieved` that the vector search cuts nothing off.

**Ingestion** (`IngestionProofs`, `StoresProofs`). `IngestionInv` is inductive
(`IngestionInvariant`). The properties alone are not: that the committed version
stays whole needs that the version in progress has another number (`NumberInv`);
that no orphan is out of reach needs that clearing happened at that number before
the writes and in the undo (`WriteInv`, `UndoInv`); that a success leaves one
version needs what the sweep has already passed (`SweepInv`) and that the document
table and the chunk rows know the same versions (`TablesAgree`), since the sweep
looks at chunk rows only. There is one lemma per action and conjunct group;
`StoresProofs` holds what each store operation does to the rows of a version, to the
highest version and to the tables' types. From the invariant: `TypeCorrect`,
`CommittedIsServed`, `OrphansAreReclaimable`, `SuccessIsExclusive`,
`RollbackIsClean`, `HighestIsActive`.

**Catalog** (`IngestionProofs`). `IngestionImplementsCatalog`: each step of the ingest is
one of `DocumentCatalog` or a stutter under the mapping, by cases over the actions.
Only the last write makes a version whole and committed in one step; every removal
concerns a version other than the published one, by `IngestionInv`.

**RetrieverPool** (`RetrieverPoolProofs`). `PoolInv` is inductive (`PoolInvariant`): who
holds an entry depends on the program counter (`HeldInv`); every open entry is held,
idle, or about to be closed (`EntriesInv`, `IdleInv`); a closing thread past the drain
has all `Size` permits, so no caller holds one (`CloserInv`, with `PermitsConserved`);
and the open entries and the builds under way together never exceed the size, because
a thread goes on to build only when every open entry is checked out (`BuildInv`).
Permits are counted with the cardinality theorems of the library. From it:
`PoolTypeCorrect`, `CheckoutIsExclusive`, `PermitsAreConserved`,
`ConnectionsAreBounded`, `NoConnectionUsedAfterClose`, `CloseIsComplete`, and
`NobodyWaitsInVain`: with no permit left, some thread holds one it will release, which is
the part of the liveness properties that needs no fairness. `PoolImplementsLending`: each
step of a thread is one of `ConnectionLending` or a stutter; a build is within the bound by
`BuildInv`, and not after the drain since its thread would have a permit.

**RagSystem** (`RagSystemProofs`). `SystemRunsIngestion`: every step of the system is a
step of `Ingestion` or leaves its variables alone, so that the theorems about the
ingest, and its refinement of the catalog, hold of the service. `SystemInv` adds to
`IngestionInv`: what was reported is committed or superseded, and no chunk of an older
version is left (`ReportedInv`, which is where `SuccessLeavesOneVersion` enters); what
a chat holds is from no older version than it was promised (`ChatInv`), also for ids
found before a sweep, since hydration reads the rows; an invalidation between its
round trips has read every key it still has to drop (`EntriesInv`); and turns stand
where the progress of their chat says (`TurnsInv`), which the cap keeps since it
removes from the front. From it: `SystemTypeCorrect`, `LiveAnswersStayFresh`,
`StaleAnswersAreRaced`, `ConversationsStayPrivate`, `SessionsMatchOutcomes`.
`SystemImplementsCatalog` states the refinement of the service itself.

`PublishedStayRetrieved` is proved under `[]NothingCutOff`: there are never more points
than a search returns. It holds of the run's instance. The service does not see to it,
and where it fails the nearest points need not be those of a published document, so
the property is not one of every collection. `FoundInv`: from the vector search to the
hydration the hits hold every chunk of what was published at the search, since it was
whole then (`CommittedServed`) and a choice of at most `KEach` of at most `KEach` ids is all of
them. That needs the points to be finite, which no type says: the chunks of one
version are, and every step adds those of one version at most.

**Chunker** (`ChunkerProofs`). `ChunkerInv`: the sum of the estimates of a window bounds
the estimate of its words (`WindowInv`), by which a chunk of several sentences keeps to
the budget (`DraftInv`), and the window follows the last chunk without a gap
(`OrderInv`). From it, for every text, budget and overlap: `ChunkerTypeCorrect`,
`ChunksCoverEveryText`, `ChunksKeepEveryBudget`.

**Requests** (`RequestsProofs`). `RequestsInv`: whoever extracts or ingests is first in
the line of the ingest limiter, hence alone (`PermitInv`); so the one extraction
under way found the default filter, set its own, and restores the default
(`FilterInv`), under which damage raises (`TextInv`); what is read is within the cap
before each turn of the loop (`BufferInv`). From it: `RequestsTypeCorrect`,
`TheCapIsExact`, `DamageIsRefused`, `TheFilterIsRestored`. With an ingest limiter of two
`FilterInv` fails, and so do the two properties (it is one of the faulty definitions).
`WorkersAreAlone` is `PermitInv` for two uploads. `AllTokensAreReturned`: a line holds each
of those with work for its limiter once, from what joining and leaving do to the members
of a line (`JoinLine`, `LeaveLine`); so no error path keeps a token, which is what
`UploadsEnd` and `OthersEnd` rest on.

**Lifecycle** (`LifecycleProofs`). `LifecycleInv`: while a process builds or serves, its
two stacks together are the reverse of what it opened; from the moment it closes, what
it closed followed by what it has still to close is (`Stack`); and whoever is past
`ensure_collection` has the size of the collection (`Ensured`), which never changes once
it is there. From it: `LifecycleTypeCorrect`, `ClosesAreInReverse`,
`TheCollectionIsEnsured`. `RetrievalInv` adds that the chat embedder and the vector store
are opened before the pool, which the second builder opens in its seventh step
(`OpenOrder`), and that a retrieval runs only while its pair is open, which the pool waits
for before it counts as closed (`ReaderState`). As closes are in reverse, a client of a
running retrieval cannot have been closed: `RetrievalsKeepClients`.

**Evaluation and ranking** (`EvalRunProofs`). `EvalInv` is the conjunction of three
invariants whose variables the steps of the run share out: `ChunkerInv`, `RankingInv`
and `RunInv` (`EvalInvariant`).

- `Sorted` chooses a list in a given order, so first there must be one (`SortExists`): a
  strict total order numbers the members of a finite set by their predecessors, and that
  numbering is a bijection. That the order of the fused scores is one (`FusionOrders`),
  its transitivity above all, rests on denominators being positive.
- `FusionIsRespectful`: a candidate that both indexes found, and ranked ahead of another
  wherever they found that one too, comes before it; what both found precedes what
  only one did; and of two with exchanged ranks, a tie (`MirroredTie`), the one BM25 ranks higher
  is first. The second is true up to `KEach = RRF_K + 1` and not beyond: `2 / (60 + 62)` ties with
  `1 / (60 + 1)`. The callers ask for 20.
- `RerankingKeepsPlaces`: `_merge` is a permutation of the slots, the identity on the
  unscored ones and the sorted order on the rest, for whatever replies in whatever order.
- `MetricsAlwaysAgree`: hit, first relevant rank and the two counts are consistent, and
  those of the whole list do not change under a permutation.
- `NothingOutlivesRun` (`TeardownInv`): what is live is in the stack to be closed, or was
  excused by a close that raised or a creation that raised after taking effect.

`EvalTypeCorrect`, `SamplesAreCovered` and `SamplesKeepBudget` follow for the run as well.

**Proved, and in no run.** `ConnectionsBounded` and `NoUseAfterClose` follow from
`ImplementsLending`, `WaitersWaitForHolders` from `PermitsConserved`, and `OneWorker` is
what `DamagedNeverIngested` and `FilterIsRestored` rest on; TLC checks those, and the
theorems state these as well.

**Model-checked only.** The liveness properties (`IngestEnds`, `CloseReturns`,
`RetrieveReturns`, `OthersEnd`, `UploadsEnd`, `Settles`): they need fairness and `ENABLED`,
which are beyond the prover.

## Findings

1. *A closed pool blocks* (`pool_closed`). `close` keeps the permits it drained
   (`retrieval/pool.py:112-113`) and `_acquire` waits for a permit before it looks at
   `_closed` (lines 59-61), so a later `retrieve` waits for ever; the docstring
   says it raises. Only a caller that already had its permit when the pool
   closed gets the exception.
2. *A stale answer stays* (`stale_answer`). A chat that retrieved the old version and
   writes its answer (`api/chat.py:365`) after the ingest of the next one has
   invalidated leaves it in the cache until its TTL; `stores/cache.py:18-19` says it is
   dropped the moment the document changes. Of the answers that cite a version below the
   last one whose invalidation took effect, this race and a write between the two round trips,
   which the docstring concedes, leave all there are (`StaleOnlyByRace`). An invalidation that
   failed and was swallowed (`stores/cache.py:196-205`, conceded there) leaves others, and so
   does finding 3; those versions are not below that mark, and the property does not count them.
3. *A rolled-back version stays in the cache* (`rolled_back`). A first-turn chat that
   retrieves (`api/chat.py:299`) while a new version is being written caches an answer from
   it; the writes fail, the version is undone, and a failed ingest never invalidates.
   `ingestion/pipeline.py:23-25` says the cache is still right then. The next successful ingest
   of the document drops the answer, since its tag is there, or else its TTL.
4. *A failing close leaks a connection* (`lifecycle_leak`). The closer of a pool entry
   closes the chunk store and then the BM25 connection (`main.py:155-156`) with no `try`
   between; `retrieval/pool.py:99-101` and `main.py:10-11` say a failing close cannot leak the rest.
5. *`/health` waits for generations* (`health`). It is a sync handler (`main.py:304`) and
   takes a thread of the pool the generations hold; `api/chat.py:21-24` says a slow
   generation never freezes it. `OthersEnd` shows that the wait ends with a generation.
6. *A superscript fails the reranking* (`rerank_failopen`). `str.isdigit` holds for
   characters `int()` refuses, so `parse_score` raises `ValueError`
   (`retrieval/reranker.py:165-177`), which `_score_one` does not catch; the docstrings
   promise `None`.

Observations no run is spent on, most of which contradict no text of the repository:

- An ingest failure can be a 500: the `get_chunks` call of the sweep is outside its `try`
  (`ingestion/pipeline.py:257`), so an SQLite error there is not an `IngestError`, the only
  one `api/documents.py:198` maps to a status (the outcome `"unhandled"` of `Ingestion`). The
  API table of `README.md:290` calls every ingest failure a 422. The new version is live by then.
- A failed request can leave its question: the two turns are two calls
  (`api/chat.py:175-180`), and when the second raises, or the first after it was applied, the
  request is a 500 and the retry is no first turn. `api/chat.py:355-356` says a failed turn
  never lingers for a retry, which holds for a failed generation. `SessionMatchesOutcome`
  permits a lone question of a failed request only.
- A refusal is possible although a document is published throughout: an ingest that
  supersedes and sweeps between the searches and the hydration leaves the found ids
  without rows, and the new version was not searched. `PublishedIsRetrieved` therefore
  speaks of a version that is committed at both moments.
- A rank may be another text's: an id found in an index is hydrated to the chunk that has
  the id by then (`retrieval/hybrid.py:96`), which after a rollback and a reuse of the number
  is another text. No property speaks of it; that text is of a version no older than promised
  (`LiveAnswersAreFresh`).
- The cap of a session and the limit of its history are even numbers, but a window can still
  start with an answer, as requests interleave their turns and a question may be left alone.
  `SessionMatchesOutcome` permits both.
- Chunk-row absence does not prove that a version is fully gone: `_rollback` deletes the
  rows even after an index refused to delete (`ingestion/pipeline.py:227-239`).
  `OrphansReclaimable` bounds the damage: the leftover sits at the number the next
  ingest of the document clears first.
- A chunk may hold nothing but sentences of the one before it, when the sentence after
  the overlap does not fit with it.
- The reranker's `close` in the `finally` clause of the evaluation is outside
  `_close_all`, so a failure there leaves everything else open, the throwaway collection
  included; `TeardownLeavesNothing` names the case.

## What is not modelled

- The contents of texts: extraction, prompts, normalisation of a question (which key it
  has is a parameter), how a slug is made of a file name.
- The embedding and language-model clients beyond calls that return or raise:
  their HTTP traffic shares no state with the rest.
- Settings, logging, request ids, timings and the evaluation's report.
- Ranking inside SQLite and Qdrant: the indexes are sets of entries and a search is
  any choice the caller could get.
- The score of the relevance gate (`api/chat.py:319`), which is a configured number; the
  gate may pass or refuse.
- The thread of the default pool that Starlette takes to read a body it has spooled to
  disk (over 1 MiB): `ReadBody` is a step of the event loop. It would make an upload wait
  for a token once more, as `Resolve` does.
- The garbage collector, which closes the first connection when the factory of the pool
  fails to open the second (`main.py:151`).
- Warnings issued by other threads while a PDF is parsed: which library calls warn is
  outside the repository.
- Several service processes ingesting the same document at once: the code has no
  protection against it and does not claim any. `Lifecycle` has several processes
  for the collection only.
- A Qdrant request that is applied after the worker gave up on it and went on.
