------------------------------- MODULE Requests -------------------------------
(***************************************************************************)
(* The requests of the service on its event loop and its two limiters: the  *)
(* uploads of src/src/app/api/documents.py, which read a capped body and    *)
(* extract and ingest it on the one thread of the ingest limiter; the chats *)
(* of src/src/app/api/chat.py, each stage of which takes a thread of the    *)
(* default pool; and the probes of src/src/app/main.py.  Extraction changes *)
(* the warnings filter of the whole process                                *)
(* (src/src/app/ingestion/extractors.py).                                  *)
(*                                                                         *)
(* Any job may raise, and an ingest may never return: it has no fairness.   *)
(* A definition marked Faulty is the one after it with one slip, to show    *)
(* that the properties tell the difference; nothing else uses it.          *)
(***************************************************************************)
EXTENDS Integers, Sequences, SequencesExt

CONSTANTS
  Uploads, Chats, Probes, \* the requests
  Threads,                \* the tokens of the default limiter (40 in anyio)
  MaxBytes,               \* max_upload_bytes
  ReadChunk,              \* _READ_CHUNK_BYTES
  Bodies                  \* what is uploaded: sizes and types

Files == {"text", "pdf", "damaged pdf", "unsupported"}

ASSUME RequestsAssumption ==
  /\ {Threads, MaxBytes, ReadChunk} \subseteq Nat \ {0}
  /\ Bodies \subseteq [size: Nat, file: Files]
  /\ Uploads \cap Chats = {} /\ Uploads \cap Probes = {} /\ Chats \cap Probes = {}

Requests == Uploads \cup Chats \cup Probes

VARIABLES
  at,     \* where each request is
  reply,  \* the status of each upload, 0 before it ends
  pool,   \* who asked for a thread of the pool and has not returned it, in order
  permit, \* the same of the ingest limiter
  body,   \* the size and the type of each upload
  buffer, \* how much of it has been read
  text,   \* the text its extraction has produced
  filter, \* the warnings filter of the process
  saved   \* the filter each extraction found when it began

limiters == <<pool, permit>>
uploadVars == <<buffer, text, filter, saved>>
vars == <<at, reply, limiters, body, uploadVars>>

\* Faulty: two uploads at a time.
IngestPermitsTwo == 2

\* The ingest limiter, CapacityLimiter(1).
IngestPermits == 1

PoolJobs ==
  {"dependencies", "history", "retrieve", "generate", "append", "probe"}
UploadPlaces == {"body", "offload", "extract", "parse", "restore", "ingest"}
Init ==
  /\ at = [r \in Requests |-> "outside"]
  /\ reply = [u \in Uploads |-> 0]
  /\ pool = <<>>
  /\ permit = <<>>
  /\ body \in [Uploads -> Bodies]
  /\ buffer = [u \in Uploads |-> 0]
  /\ text = [u \in Uploads |-> "none"]
  /\ filter = "default"
  /\ saved = [u \in Uploads |-> "default"]

-----------------------------------------------------------------------------
(* A limiter of n tokens serves its line in order: the first n hold a token. *)

Admitted(line, n) == {line[i] : i \in 1 .. n \cap DOMAIN line}
InLine(line) == {line[i] : i \in DOMAIN line}

\* The line after r has left its place in it.
Without(line, r) == RemoveAt(line, CHOOSE i \in DOMAIN line : line[i] = r)

Goes(r, to) == at' = [at EXCEPT ![r] = to] /\ UNCHANGED reply
Ends(u, status) ==
  at' = [at EXCEPT ![u] = "done"] /\ reply' = [reply EXCEPT ![u] = status]

\* A request arrives: uploads and chats have their dependencies resolved, each
\* a sync function run in the pool; /health is one too, and /ready sends its
\* pings there.  Probes come again and again.
Arrive(r) ==
  /\ \/ r \notin Probes /\ at[r] = "outside" /\ Goes(r, "dependencies")
     \/ r \in Probes /\ at[r] # "probe" /\ Goes(r, "probe")
  /\ UNCHANGED <<limiters, body, uploadVars>>

Ask(r) ==
  /\ at[r] \in PoolJobs
  /\ r \notin InLine(pool)
  /\ pool' = Append(pool, r)
  /\ UNCHANGED <<at, reply, permit, body, uploadVars>>

\* Faulty: an upload keeps its thread to the end, as in a sync handler.
PoolWithoutUnlessUpload(r) == IF r \in Uploads THEN pool ELSE Without(pool, r)

PoolWithout(r) == Without(pool, r)

\* The thread runs the job and is returned, whatever the outcome.
Runs(r, job) ==
  /\ at[r] = job
  /\ r \in Admitted(pool, Threads)
  /\ pool' = PoolWithout(r)
  /\ UNCHANGED <<permit, body, uploadVars>>

Resolve(r) ==
  /\ Runs(r, "dependencies")
  /\ \/ r \in Chats /\ Goes(r, "history")
     \/ r \in Uploads /\ Goes(r, "body")
     \/ r \in Uploads /\ Ends(r, 422) \* the id is not valid

\* The history and the response cache, which may have the answer.
ReadHistory(r) ==
  /\ Runs(r, "history")
  /\ Goes(r, "retrieve") \/ Goes(r, "append") \/ Goes(r, "done")

\* The retrieval and the reranking: a refusal needs no model.
Retrieve(r) ==
  /\ Runs(r, "retrieve")
  /\ Goes(r, "generate") \/ Goes(r, "append") \/ Goes(r, "done")

Generate(r) == Runs(r, "generate") /\ (Goes(r, "append") \/ Goes(r, "done"))

\* The turns, and the write of the cache.
AppendTurns(r) == Runs(r, "append") /\ Goes(r, "done")

\* The handler of /health, or the pings of /ready.
Probe(r) == Runs(r, "probe") /\ Goes(r, "done")

-----------------------------------------------------------------------------
(* An upload *)

\* Faulty: a body of the very size of the cap is refused.
TooLargeAtCap(n) == n >= MaxBytes

TooLarge(n) == n > MaxBytes

\* Faulty: the cap is looked at when the whole body is there.
ReadBodyAll(u) ==
  /\ at[u] = "body"
  /\ buffer' = [buffer EXCEPT ![u] = body[u].size]
  /\ IF TooLarge(body[u].size) THEN Ends(u, 413) ELSE Goes(u, "offload")
  /\ UNCHANGED <<limiters, body, text, filter, saved>>

\* One turn of the loop of _read_capped.
ReadBody(u) ==
  LET rest == body[u].size - buffer[u]
      n == IF rest < ReadChunk THEN rest ELSE ReadChunk
  IN /\ at[u] = "body"
     /\ buffer' = [buffer EXCEPT ![u] = @ + n]
     /\ IF n = 0 THEN Goes(u, "offload")
        ELSE IF TooLarge(buffer[u] + n) THEN Ends(u, 413)
        ELSE UNCHANGED <<at, reply>>
     /\ UNCHANGED <<limiters, body, text, filter, saved>>

AskPermit(u) ==
  /\ at[u] = "offload"
  /\ permit' = Append(permit, u)
  /\ Goes(u, "extract")
  /\ UNCHANGED <<pool, body, uploadVars>>

\* Faulty: a worker that raised keeps its permit.
GiveUpHolding(u, status) == Ends(u, status) /\ UNCHANGED permit

\* The worker raises: the permit is released and the error mapped to a status.
GiveUp(u, status) == Ends(u, status) /\ permit' = Without(permit, u)

OnWorker(u, place) == at[u] = place /\ u \in Admitted(permit, IngestPermits)

\* The end of extract: a text of nothing but blanks is refused.
Extracted(u, result) ==
  \/ /\ text' = [text EXCEPT ![u] = result]
     /\ Goes(u, "ingest") /\ UNCHANGED permit
  \/ GiveUp(u, 422) /\ UNCHANGED text

\* The type decides: a text is decoded, which never fails; a PDF is parsed with
\* warnings made errors.
ExtractByType(u) ==
  /\ OnWorker(u, "extract")
  /\ \/ /\ body[u].file = "unsupported"
        /\ GiveUp(u, 415)
        /\ UNCHANGED <<text, filter, saved>>
     \/ body[u].file = "text" /\ Extracted(u, "sound") /\ UNCHANGED <<filter, saved>>
     \/ /\ body[u].file \in {"pdf", "damaged pdf"}
        /\ saved' = [saved EXCEPT ![u] = filter]
        /\ filter' = "error"
        /\ Goes(u, "parse")
        /\ UNCHANGED <<permit, text>>
  /\ UNCHANGED <<pool, body, buffer>>

\* pypdf warns of recoverable damage: the warning is an exception under the
\* filter "error", a line of the log and a bad text otherwise.  A PDF may also
\* be beyond parsing.
Parse(u) ==
  /\ OnWorker(u, "parse")
  /\ text' = [text EXCEPT ![u] =
       IF body[u].file = "pdf" THEN "sound"
       ELSE IF filter = "error" THEN "raised" ELSE "bad"]
  /\ Goes(u, "restore")
  /\ UNCHANGED <<limiters, body, buffer, filter, saved>>

\* The end of catch_warnings.
Restore(u) ==
  /\ OnWorker(u, "restore")
  /\ filter' = saved[u]
  /\ IF text[u] = "raised" THEN GiveUp(u, 422) /\ UNCHANGED text
     ELSE Extracted(u, text[u])
  /\ UNCHANGED <<pool, body, buffer, saved>>

\* The ingest of module Ingestion, seen as its status; 201 stands for the 200 of
\* an update too.
IngestText(u) ==
  /\ OnWorker(u, "ingest")
  /\ \E status \in {201, 422, 500} : GiveUp(u, status)
  /\ UNCHANGED <<pool, body, uploadVars>>

-----------------------------------------------------------------------------

PoolStep(r) ==
  \/ Ask(r) \/ Resolve(r) \/ ReadHistory(r) \/ Retrieve(r) \/ Generate(r)
  \/ AppendTurns(r) \/ Probe(r)
UploadStep(u) == ReadBody(u) \/ AskPermit(u) \/ ExtractByType(u) \/ Parse(u) \/ Restore(u)

Next ==
  \/ \E r \in Requests : Arrive(r) \/ PoolStep(r)
  \/ \E u \in Uploads : UploadStep(u) \/ IngestText(u)

\* The event loop runs what is ready and every job of the pool returns: its
\* calls have timeouts.  Of an ingest nothing is assumed.
Spec ==
  /\ Init /\ [][Next]_vars
  /\ \A r \in Requests : WF_vars(PoolStep(r))
  /\ \A u \in Uploads : WF_vars(UploadStep(u))

-----------------------------------------------------------------------------
(* Properties *)

\* Type invariant, with the bound of the buffer: an upload never holds more than
\* one chunk past the cap (_read_capped).
TypeOK ==
  /\ at \in [Requests -> {"outside", "done"} \cup PoolJobs \cup UploadPlaces]
  /\ reply \in [Uploads -> {0, 201, 413, 415, 422, 500}]
  /\ pool \in Seq(Requests) /\ permit \in Seq(Uploads)
  /\ body \in [Uploads -> Bodies]
  /\ buffer \in [Uploads -> 0 .. MaxBytes + ReadChunk]
  /\ text \in [Uploads -> {"none", "sound", "raised", "bad"}]
  /\ filter \in {"default", "error"}
  /\ saved \in [Uploads -> {"default", "error"}]

\* The cap is exact: a body of at most MaxBytes is never refused for its size,
\* and a larger one never gets past the reading (_read_capped).
CapIsExact ==
  \A u \in Uploads :
    /\ reply[u] = 413 => body[u].size > MaxBytes
    /\ at[u] \in UploadPlaces \ {"body"} => body[u].size <= MaxBytes

\* A damaged PDF never becomes the text of a document, whichever extractions
\* run, wait or fail around its own (_extract_pdf, _ingest_blocking).
DamagedNeverIngested == \A u \in Uploads : ~(at[u] = "ingest" /\ text[u] = "bad")

\* Whenever no PDF is being parsed, the warnings filter is what it was at the
\* start: no extraction leaves it behind for the rest of the process.
FilterIsRestored ==
  (\A u \in Uploads : at[u] \notin {"parse", "restore"}) => filter = "default"

\* One upload at a time has its PDF parsed or its text ingested: modules Ingestion
\* and RagSystem rest on it, and so does the filter ("can never overlap another
\* extraction's scope", documents.py).
OneWorker ==
  \A u, v \in Uploads :
    {at[u], at[v]} \subseteq {"parse", "restore", "ingest"} => u = v

\* No limiter loses a token or serves a ghost: who is in a line is there once and
\* still has the work to do, so that whatever raised gave its token back, and who
\* has work for the permit has a place in its line.
TokensAreReturned ==
  /\ IsInjective(pool) /\ \A r \in InLine(pool) : at[r] \in PoolJobs
  /\ IsInjective(permit)
  /\ InLine(permit) = {u \in Uploads : at[u] \in {"extract", "parse", "restore", "ingest"}}

\* A chat or a probe ends even if an ingest never does and others wait behind
\* it: nothing of an upload holds a thread of the pool while it waits or works
\* (the ingest limiter of documents.py).
OthersEnd == \A r \in Chats \cup Probes : at[r] # "outside" ~> at[r] = "done"

\* If every ingest returns, every upload gets its answer: no error path keeps
\* the permit.
UploadsEnd ==
  (\A u \in Uploads : []<>(at[u] # "ingest"))
    => \A u \in Uploads : at[u] # "outside" ~> at[u] = "done"

\* What the module docstring of chat.py says of its own design: a slow
\* generation never freezes concurrent requests such as /health.
HealthNeverWaits ==
  \A h \in Probes :
    at[h] = "probe" /\ h \in InLine(pool)
      => ~ \A r \in Admitted(pool, Threads) : at[r] = "generate"
===============================================================================
