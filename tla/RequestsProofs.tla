---------------------------- MODULE RequestsProofs ----------------------------
(***************************************************************************)
(* The safety properties of Requests, for any requests, caps and bodies.    *)
(***************************************************************************)
EXTENDS Requests, SequenceTheorems, TLAPS

Places == {"outside", "done"} \cup PoolJobs \cup UploadPlaces

\* The places where an upload holds the permit and has passed the type check.
Working == {"parse", "restore", "ingest"}
Parsing == {"parse", "restore"}

\* Whoever works is first in the line of the ingest limiter, hence alone.
PermitInv ==
  \A u \in Uploads : at[u] \in Working => permit # <<>> /\ permit[1] = u

\* The one extraction under way found the default filter and set its own.
FilterInv ==
  /\ \A u \in Uploads : saved[u] = "default"
  /\ \A u \in Uploads : at[u] \in Parsing => filter = "error"
  /\ FilterIsRestored

\* Under that filter no damage goes unnoticed.
TextInv == \A u \in Uploads : text[u] # "bad"

\* What is read is at most what was sent, and within the cap until it ends.
BufferInv ==
  \A u \in Uploads :
    /\ buffer[u] <= body[u].size
    /\ at[u] \in {"outside", "dependencies", "body"} => buffer[u] <= MaxBytes

RequestsInv ==
  TypeOK /\ PermitInv /\ FilterInv /\ TextInv /\ BufferInv /\ CapIsExact

-----------------------------------------------------------------------------

\* Leaving a line keeps it a line of requests.
LEMMA WithoutType ==
  ASSUME NEW S, NEW line \in Seq(S), NEW r \in InLine(line)
  PROVE  Without(line, r) \in Seq(S)
<1> DEFINE i == CHOOSE j \in DOMAIN line : line[j] = r
<1>1. i \in 1 .. Len(line)
  BY DEF InLine
<1> HIDE DEF i
<1>2. SubSeq(line, 1, i - 1) \in Seq(S)
  <2>1. \A j \in 1 .. i - 1 : line[j] \in S
    BY <1>1
  <2>2. i - 1 \in Int
    BY <1>1
  <2>3. QED
    BY <2>1, <2>2, SubSeqProperties
<1>4. SubSeq(line, i + 1, Len(line)) \in Seq(S)
  <2>1. \A j \in i + 1 .. Len(line) : line[j] \in S
    BY <1>1
  <2>2. i + 1 \in Int /\ Len(line) \in Int
    BY <1>1
  <2>3. QED
    BY <2>1, <2>2, SubSeqProperties
<1>3. QED
  BY <1>2, <1>4, ConcatProperties DEF Without, RemoveAt, i

\* The one token of the ingest limiter belongs to the first of its line.
LEMMA OnWorkerIsFirst ==
  ASSUME NEW u, NEW place, OnWorker(u, place), permit \in Seq(Uploads)
  PROVE  /\ at[u] = place
         /\ permit # <<>>
         /\ permit[1] = u
         /\ u \in InLine(permit)
  BY DEF OnWorker, Admitted, IngestPermits, InLine

\* Before the first request, nothing is read, parsed or refused.
LEMMA InitEstablishes ==
  Init /\ RequestsAssumption => RequestsInv
<1> SUFFICES ASSUME Init, RequestsAssumption PROVE RequestsInv
  OBVIOUS
<1>1. TypeOK
  <2>1. 0 \in 0 .. MaxBytes + ReadChunk
    BY DEF RequestsAssumption
  <2>2. pool \in Seq(Requests) /\ permit \in Seq(Uploads)
    BY DEF Init
  <2>3. QED
    BY <2>1, <2>2 DEF Init, TypeOK
<1>2. PermitInv /\ FilterInv /\ TextInv /\ BufferInv /\ CapIsExact
  <2>1. \A u \in Uploads : at[u] = "outside" /\ body[u].size \in Nat
    BY DEF Init, Requests, RequestsAssumption
  <2>2. QED
    BY <2>1 DEF Init, PermitInv, FilterInv, TextInv, BufferInv, CapIsExact, FilterIsRestored,
         Working, Parsing, UploadPlaces, RequestsAssumption
<1>3. QED
  BY <1>1, <1>2 DEF RequestsInv

\* A step of which uploads notice at most that one of them moved to, or from, a
\* place of the pool.
LEMMA PoolKeeps ==
  ASSUME RequestsInv, RequestsAssumption, NEW r \in Requests, NEW to \in Places,
         UNCHANGED <<permit, body, uploadVars>>,
         pool' \in Seq(Requests),
         at' = [at EXCEPT ![r] = to],
         r \in Uploads => to \notin UploadPlaces \ {"body"} /\ at[r] \notin Parsing,
         r \in Uploads /\ to \in {"outside", "dependencies", "body"}
           => at[r] \in {"outside", "dependencies", "body"},
         \/ UNCHANGED reply
         \/ r \in Uploads /\ reply' = [reply EXCEPT ![r] = 422]
  PROVE  RequestsInv'
<1> USE DEF uploadVars
<1>1. TypeOK'
  BY DEF RequestsInv, TypeOK, Places
<1>2. \A u \in Uploads : u # r => at'[u] = at[u]
  BY DEF RequestsInv, TypeOK, Requests
<1>3. at'[r] = to
  BY DEF RequestsInv, TypeOK
<1>4. PermitInv'
  BY <1>2, <1>3 DEF RequestsInv, PermitInv, Working, UploadPlaces
<1>5. FilterInv'
  BY <1>2, <1>3 DEF RequestsInv, FilterInv, FilterIsRestored, Parsing, UploadPlaces
<1>6. TextInv' /\ BufferInv'
  BY <1>2, <1>3 DEF RequestsInv, TextInv, BufferInv
<1>7. CapIsExact'
  <2>1. \A u \in Uploads : reply'[u] = 413 => reply[u] = 413
    BY DEF RequestsInv, TypeOK
  <2>2. QED
    BY <1>2, <1>3, <2>1 DEF RequestsInv, CapIsExact, UploadPlaces
<1>8. QED
  BY <1>1, <1>4, <1>5, <1>6, <1>7 DEF RequestsInv

\* The steps of the pool are such steps, and so is an arrival.
LEMMA PoolStepKeeps ==
  ASSUME RequestsInv, RequestsAssumption, NEW r \in Requests, PoolStep(r) \/ Arrive(r)
  PROVE  RequestsInv'
<1> USE DEF Goes, Ends, uploadVars, limiters, Places, PoolJobs, UploadPlaces, Parsing
<1>1. CASE Arrive(r)
  <2>1. CASE r \notin Probes /\ at[r] = "outside" /\ Goes(r, "dependencies")
    BY <1>1, <2>1, PoolKeeps DEF Arrive, RequestsInv, TypeOK
  <2>2. CASE r \in Probes /\ Goes(r, "probe")
    <3>1. r \notin Uploads
      BY <2>2 DEF RequestsAssumption
    <3>2. QED
      BY <1>1, <2>2, <3>1, PoolKeeps DEF Arrive, RequestsInv, TypeOK
  <2>3. QED
    BY <1>1, <2>1, <2>2 DEF Arrive
<1>2. CASE Ask(r)
  <2>1. at' = [at EXCEPT ![r] = at[r]] /\ at[r] \in Places
    BY <1>2 DEF Ask, RequestsInv, TypeOK
  <2>2. pool' \in Seq(Requests)
    BY <1>2, AppendProperties DEF Ask, RequestsInv, TypeOK
  <2>3. QED
    BY <1>2, <2>1, <2>2, PoolKeeps DEF Ask
<1>3. ASSUME NEW job \in PoolJobs, Runs(r, job)
      PROVE  /\ pool' \in Seq(Requests) /\ UNCHANGED <<permit, body, uploadVars>>
             /\ at[r] = job
  <2>1. r \in InLine(pool) /\ pool \in Seq(Requests)
    BY <1>3 DEF Runs, Admitted, InLine, RequestsInv, TypeOK
  <2>2. QED
    BY <1>3, <2>1, WithoutType DEF Runs, PoolWithout
<1>4. CASE Resolve(r)
  <2>1. Runs(r, "dependencies")
    BY <1>4 DEF Resolve
  <2>2. CASE r \in Chats /\ Goes(r, "history")
    BY <1>3, <2>1, <2>2, PoolKeeps DEF RequestsAssumption
  <2>3. CASE r \in Uploads /\ Goes(r, "body")
    BY <1>3, <2>1, <2>3, PoolKeeps
  <2>4. CASE r \in Uploads /\ Ends(r, 422)
    BY <1>3, <2>1, <2>4, PoolKeeps
  <2>5. QED
    BY <1>4, <2>2, <2>3, <2>4 DEF Resolve
<1>5. ASSUME NEW job \in PoolJobs, Runs(r, job),
             NEW to \in {"retrieve", "generate", "append", "done"}, Goes(r, to)
      PROVE  RequestsInv'
  BY <1>3, <1>5, PoolKeeps
<1>6. CASE ReadHistory(r)
  BY <1>5, <1>6 DEF ReadHistory
<1>7. CASE Retrieve(r)
  BY <1>5, <1>7 DEF Retrieve
<1>8. CASE Generate(r)
  BY <1>5, <1>8 DEF Generate
<1>9. CASE AppendTurns(r)
  BY <1>5, <1>9 DEF AppendTurns
<1>10. CASE Probe(r)
  BY <1>5, <1>10 DEF Probe
<1>11. QED
  BY <1>1, <1>2, <1>4, <1>6, <1>7, <1>8, <1>9, <1>10 DEF PoolStep

-----------------------------------------------------------------------------
(* The steps of an upload *)

\* A chunk is read only while what is there is within the cap, and the reading
\* ends only when everything is there.
LEMMA ReadBodyKeeps ==
  ASSUME RequestsInv, RequestsAssumption, NEW u \in Uploads, ReadBody(u)
  PROVE  RequestsInv'
<1> USE DEF ReadBody, Goes, Ends, limiters, UploadPlaces
<1> DEFINE rest == body[u].size - buffer[u]
           n == IF rest < ReadChunk THEN rest ELSE ReadChunk
<1>1. /\ buffer[u] \in Nat /\ body[u].size \in Nat /\ {MaxBytes, ReadChunk} \subseteq Nat \ {0}
      /\ buffer[u] <= MaxBytes /\ buffer[u] <= body[u].size
  BY DEF RequestsInv, TypeOK, BufferInv, RequestsAssumption
<1>2. /\ n \in 0 .. ReadChunk /\ buffer[u] + n <= body[u].size
      /\ n = 0 => buffer[u] = body[u].size
      /\ buffer[u] + n \in 0 .. MaxBytes + ReadChunk
  BY <1>1
<1>3. /\ UNCHANGED <<pool, permit, body, text, filter, saved>>
      /\ at[u] = "body"
      /\ buffer' = [buffer EXCEPT ![u] = buffer[u] + n]
      /\ \/ n = 0 /\ at' = [at EXCEPT ![u] = "offload"] /\ UNCHANGED reply
         \/ /\ buffer[u] + n > MaxBytes
            /\ at' = [at EXCEPT ![u] = "done"] /\ reply' = [reply EXCEPT ![u] = 413]
         \/ buffer[u] + n <= MaxBytes /\ UNCHANGED <<at, reply>>
  BY <1>1, <1>2 DEF TooLarge
<1> HIDE DEF rest, n
<1>4. TypeOK'
  <2>0. /\ at \in [Requests -> Places] /\ reply \in [Uploads -> {0, 201, 413, 415, 422, 500}]
        /\ buffer \in [Uploads -> 0 .. MaxBytes + ReadChunk] /\ u \in Requests
    BY DEF RequestsInv, TypeOK, Places, Requests
  <2>1. buffer' \in [Uploads -> 0 .. MaxBytes + ReadChunk]
    <3> HIDE DEF ReadBody
    <3>1. QED
      BY <1>2, <1>3, <2>0
  <2>2. {"offload", "done"} \subseteq Places
    BY DEF Places
  <2>3. at' \in [Requests -> Places]
    <3> HIDE DEF ReadBody
    <3>1. QED
      BY <1>3, <2>0, <2>2
  <2>4. reply' \in [Uploads -> {0, 201, 413, 415, 422, 500}]
    <3> HIDE DEF ReadBody
    <3>1. QED
      BY <1>3, <2>0
  <2>5. QED
    BY <1>3, <2>1, <2>3, <2>4 DEF RequestsInv, TypeOK, Places
<1>5. \A v \in Uploads : v # u => at'[v] = at[v] /\ buffer'[v] = buffer[v] /\ reply'[v] = reply[v]
  BY <1>3 DEF RequestsInv, TypeOK, Requests
<1>6. /\ buffer'[u] = buffer[u] + n
      /\ \/ n = 0 /\ at'[u] = "offload" /\ reply'[u] = reply[u]
         \/ buffer[u] + n > MaxBytes /\ at'[u] = "done" /\ reply'[u] = 413
         \/ buffer[u] + n <= MaxBytes /\ at'[u] = "body" /\ reply'[u] = reply[u]
  BY <1>3 DEF RequestsInv, TypeOK, Requests
<1>7. PermitInv'
  BY <1>3, <1>5, <1>6 DEF RequestsInv, PermitInv, Working
<1>8. FilterInv'
  BY <1>3, <1>5, <1>6 DEF RequestsInv, FilterInv, FilterIsRestored, Parsing
<1>9. TextInv' /\ BufferInv'
  BY <1>1, <1>2, <1>3, <1>5, <1>6 DEF RequestsInv, TextInv, BufferInv
<1>10. CapIsExact'
  <2>1. \A v \in Uploads :
          /\ reply[v] = 413 => body[v].size > MaxBytes
          /\ at[v] \in UploadPlaces \ {"body"} => body[v].size <= MaxBytes
    BY DEF RequestsInv, CapIsExact
  <2>2. n = 0 => body[u].size <= MaxBytes
    BY <1>1, <1>2
  <2>3. buffer[u] + n > MaxBytes => body[u].size > MaxBytes
    BY <1>1, <1>2
  <2>4. QED
    BY <1>3, <1>5, <1>6, <2>1, <2>2, <2>3 DEF CapIsExact
<1>11. QED
  BY <1>4, <1>7, <1>8, <1>9, <1>10 DEF RequestsInv

\* A new request for the permit stands behind whoever has it.
LEMMA AskPermitKeeps ==
  ASSUME RequestsInv, RequestsAssumption, NEW u \in Uploads, AskPermit(u)
  PROVE  RequestsInv'
<1> USE DEF AskPermit, Goes, uploadVars, UploadPlaces
<1>1. /\ at[u] = "offload" /\ permit' = Append(permit, u)
      /\ at' = [at EXCEPT ![u] = "extract"]
      /\ UNCHANGED <<reply, pool, body, buffer, text, filter, saved>>
  OBVIOUS
<1>2. permit \in Seq(Uploads)
  BY DEF RequestsInv, TypeOK
<1>3. permit' \in Seq(Uploads) /\ (permit # <<>> => permit' # <<>> /\ permit'[1] = permit[1])
  BY <1>1, <1>2, AppendProperties
<1>4. \A v \in Uploads : v # u => at'[v] = at[v]
  BY <1>1 DEF RequestsInv, TypeOK, Requests
<1>5. at'[u] = "extract"
  BY <1>1 DEF RequestsInv, TypeOK, Requests
<1>6. TypeOK'
  <2>1. at \in [Requests -> Places] /\ u \in Requests /\ "extract" \in Places
    BY DEF RequestsInv, TypeOK, Places, Requests
  <2>2. at' \in [Requests -> Places]
    BY <1>1, <2>1
  <2>3. QED
    BY <1>1, <1>3, <2>2 DEF RequestsInv, TypeOK, Places
<1>7. PermitInv'
  BY <1>3, <1>4, <1>5 DEF RequestsInv, PermitInv, Working
<1>8. FilterInv'
  BY <1>1, <1>4, <1>5 DEF RequestsInv, FilterInv, FilterIsRestored, Parsing
<1>9. TextInv' /\ BufferInv' /\ CapIsExact'
  BY <1>1, <1>4, <1>5 DEF RequestsInv, TextInv, BufferInv, CapIsExact
<1>10. QED
  BY <1>6, <1>7, <1>8, <1>9 DEF RequestsInv

\* What a step of the worker of u may do: move on, or release the permit and end.
WorkerMoves(u, to, result, status) ==
  /\ UNCHANGED <<pool, body, buffer>>
  /\ at' = [at EXCEPT ![u] = to]
  /\ IF to = "done"
     THEN permit' = Without(permit, u) /\ reply' = [reply EXCEPT ![u] = status]
     ELSE UNCHANGED <<permit, reply>>
  /\ text' = [text EXCEPT ![u] = result]
  /\ saved' = [saved EXCEPT ![u] = "default"]
  /\ filter' = IF to \in Parsing THEN "error" ELSE "default"

\* The step of a worker: nobody else works, so what the step leaves of the filter
\* and of the line of the permit is of its own upload only.
LEMMA WorkKeeps ==
  ASSUME RequestsInv, RequestsAssumption, NEW u \in Uploads,
         NEW place \in Working \cup {"extract"}, OnWorker(u, place),
         NEW to \in Working \cup {"done"}, NEW result \in {"none", "sound", "raised"},
         NEW status \in {201, 415, 422, 500}, WorkerMoves(u, to, result, status)
  PROVE  RequestsInv'
<1> USE DEF UploadPlaces, WorkerMoves
<1>1. /\ at[u] = place /\ permit # <<>> /\ permit[1] = u /\ u \in InLine(permit)
      /\ permit \in Seq(Uploads)
  BY OnWorkerIsFirst DEF RequestsInv, TypeOK
<1>2. \A v \in Uploads : v # u => at[v] \notin Working
  BY <1>1 DEF RequestsInv, PermitInv
<1>3. permit' \in Seq(Uploads)
  BY <1>1, WithoutType
<1>4. \A v \in Uploads : v # u => at'[v] = at[v]
  BY DEF RequestsInv, TypeOK, Requests
<1>5. at'[u] = to
  BY DEF RequestsInv, TypeOK, Requests
<1>6. TypeOK'
  <2>0. /\ at \in [Requests -> Places] /\ u \in Requests /\ to \in Places
        /\ reply \in [Uploads -> {0, 201, 413, 415, 422, 500}]
    BY DEF RequestsInv, TypeOK, Places, Requests, Working
  <2>1. at' \in [Requests -> Places] /\ reply' \in [Uploads -> {0, 201, 413, 415, 422, 500}]
    BY <2>0
  <2>2. /\ text' \in [Uploads -> {"none", "sound", "raised", "bad"}]
        /\ saved' \in [Uploads -> {"default", "error"}]
        /\ filter' \in {"default", "error"}
    BY DEF RequestsInv, TypeOK
  <2>3. QED
    BY <1>3, <2>1, <2>2 DEF RequestsInv, TypeOK, Places
<1>7. PermitInv'
  BY <1>1, <1>2, <1>4, <1>5 DEF PermitInv, Working
<1>8. FilterInv'
  <2>1. \A v \in Uploads : saved'[v] = "default"
    BY DEF RequestsInv, TypeOK, FilterInv
  <2>2. \A v \in Uploads : v # u => at'[v] \notin Parsing
    BY <1>2, <1>4 DEF Working, Parsing
  <2>3. QED
    BY <1>5, <2>1, <2>2 DEF FilterInv, FilterIsRestored, Parsing
<1>9. TextInv'
  BY DEF RequestsInv, TypeOK, TextInv
<1>10. BufferInv'
  BY <1>4, <1>5 DEF RequestsInv, BufferInv, Working
<1>11. CapIsExact'
  <2>1. \A v \in Uploads : reply'[v] = 413 => reply[v] = 413
    BY DEF RequestsInv, TypeOK
  <2>2. place \in UploadPlaces \ {"body"}
    BY DEF Working
  <2>3. QED
    BY <1>1, <1>4, <1>5, <2>1, <2>2 DEF RequestsInv, CapIsExact
<1>12. QED
  BY <1>6, <1>7, <1>8, <1>9, <1>10, <1>11 DEF RequestsInv

\* What the steps of a worker have in common.
LEMMA WorkerFacts ==
  ASSUME RequestsInv, NEW u \in Uploads, NEW place \in Working \cup {"extract"},
         OnWorker(u, place)
  PROVE  /\ at[u] = place
         /\ saved[u] = "default" /\ saved = [saved EXCEPT ![u] = "default"]
         /\ text[u] \in {"none", "sound", "raised"} /\ text = [text EXCEPT ![u] = text[u]]
         /\ place \notin Parsing => filter = "default"
         /\ place \in Parsing => filter = "error"
<1>1. at[u] = place /\ permit[1] = u
  BY OnWorkerIsFirst DEF RequestsInv, TypeOK
<1>2. \A v \in Uploads : v # u => at[v] \notin Parsing
  BY <1>1 DEF RequestsInv, PermitInv, Working, Parsing
<1>3. place \notin Parsing => filter = "default"
  BY <1>1, <1>2 DEF RequestsInv, FilterInv, FilterIsRestored, Parsing
<1>4. QED
  BY <1>1, <1>3 DEF RequestsInv, TypeOK, FilterInv, TextInv

\* Raising releases the permit.
LEMMA GiveUpKeeps ==
  ASSUME RequestsInv, RequestsAssumption, NEW u \in Uploads,
         NEW place \in Working \cup {"extract"}, OnWorker(u, place),
         NEW status \in {201, 415, 422, 500}, GiveUp(u, status),
         UNCHANGED <<pool, body, buffer, text, saved>>, filter' = "default"
  PROVE  RequestsInv'
<1>1. "done" \in Working \cup {"done"} /\ "done" \notin Parsing
  BY DEF Parsing
<1>2. /\ at' = [at EXCEPT ![u] = "done"] /\ permit' = Without(permit, u)
      /\ reply' = [reply EXCEPT ![u] = status]
  BY DEF GiveUp, Ends
<1>3. PICK result \in {"none", "sound", "raised"} : text' = [text EXCEPT ![u] = result]
  BY WorkerFacts
<1>4. saved' = [saved EXCEPT ![u] = "default"]
  BY WorkerFacts
<1>5. filter' = IF "done" \in Parsing THEN "error" ELSE "default"
  BY <1>1
<1>6. WorkerMoves(u, "done", result, status)
  BY <1>2, <1>3, <1>4, <1>5 DEF WorkerMoves
<1>7. QED
  BY <1>1, <1>6, WorkKeeps

\* A text that is not of a damaged file goes on to be ingested.
LEMMA ExtractedKeeps ==
  ASSUME RequestsInv, RequestsAssumption, NEW u \in Uploads,
         NEW place \in Working \cup {"extract"}, OnWorker(u, place),
         NEW result \in {"none", "sound", "raised"}, Extracted(u, result),
         UNCHANGED <<pool, body, buffer, saved>>, filter' = "default"
  PROVE  RequestsInv'
<1>1. CASE GiveUp(u, 422) /\ UNCHANGED text
  BY <1>1, GiveUpKeeps
<1>2. CASE /\ text' = [text EXCEPT ![u] = result]
           /\ Goes(u, "ingest") /\ UNCHANGED permit
  <2>1. "ingest" \in Working /\ "ingest" \notin Parsing /\ "ingest" # "done"
    BY DEF Working, Parsing
  <2>2. saved' = [saved EXCEPT ![u] = "default"]
    BY WorkerFacts
  <2>3. WorkerMoves(u, "ingest", result, 201)
    BY <1>2, <2>1, <2>2 DEF Goes, WorkerMoves
  <2>4. QED
    BY <2>1, <2>3, WorkKeeps
<1>3. QED
  BY <1>1, <1>2 DEF Extracted

\* A PDF sets the filter, under the permit; the other types leave it alone.
LEMMA ExtractByTypeKeeps ==
  ASSUME RequestsInv, RequestsAssumption, NEW u \in Uploads, ExtractByType(u)
  PROVE  RequestsInv'
<1>1. /\ OnWorker(u, "extract") /\ UNCHANGED <<pool, body, buffer>>
      /\ "extract" \notin Parsing
  BY DEF ExtractByType, Parsing
<1>2. filter = "default" /\ text[u] \in {"none", "sound", "raised"}
      /\ text = [text EXCEPT ![u] = text[u]]
  BY <1>1, WorkerFacts
<1>3. CASE GiveUp(u, 415) /\ UNCHANGED <<text, filter, saved>>
  BY <1>1, <1>2, <1>3, GiveUpKeeps
<1>4. CASE Extracted(u, "sound") /\ UNCHANGED <<filter, saved>>
  BY <1>1, <1>2, <1>4, ExtractedKeeps
<1>5. CASE /\ saved' = [saved EXCEPT ![u] = filter]
           /\ filter' = "error" /\ Goes(u, "parse") /\ UNCHANGED <<permit, text>>
  <2>1. "parse" \in Working /\ "parse" \in Parsing /\ "parse" # "done"
    BY DEF Working, Parsing
  <2>2. PICK result \in {"none", "sound", "raised"} : text' = [text EXCEPT ![u] = result]
    BY <1>2, <1>5
  <2>3. WorkerMoves(u, "parse", result, 201)
    BY <1>1, <1>2, <1>5, <2>1, <2>2 DEF Goes, WorkerMoves
  <2>4. QED
    BY <1>1, <2>1, <2>3, WorkKeeps
<1>6. QED
  BY <1>3, <1>4, <1>5 DEF ExtractByType

\* Under the filter "error" the parser either raises or returns a sound text.
LEMMA ParseKeeps ==
  ASSUME RequestsInv, RequestsAssumption, NEW u \in Uploads, Parse(u)
  PROVE  RequestsInv'
<1>1. OnWorker(u, "parse") /\ "parse" \in Working /\ "parse" \in Parsing
  BY DEF Parse, Working, Parsing
<1>2. filter = "error" /\ saved = [saved EXCEPT ![u] = "default"]
  BY <1>1, WorkerFacts
<1>3. PICK result \in {"none", "sound", "raised"} : text' = [text EXCEPT ![u] = result]
  BY <1>2 DEF Parse
<1>4. "restore" \in Working /\ "restore" \in Parsing /\ "restore" # "done"
  BY DEF Working, Parsing
<1>5. WorkerMoves(u, "restore", result, 201)
  BY <1>2, <1>3, <1>4 DEF Parse, Goes, limiters, WorkerMoves
<1>6. QED
  BY <1>1, <1>4, <1>5, WorkKeeps

\* The filter goes back to what the extraction found, the default.
LEMMA RestoreKeeps ==
  ASSUME RequestsInv, RequestsAssumption, NEW u \in Uploads, Restore(u)
  PROVE  RequestsInv'
<1>1. /\ OnWorker(u, "restore") /\ "restore" \in Working
      /\ UNCHANGED <<pool, body, buffer, saved>> /\ filter' = saved[u]
  BY DEF Restore, Working
<1>2. saved[u] = "default" /\ text[u] \in {"none", "sound", "raised"}
  BY <1>1, WorkerFacts
<1>3. CASE GiveUp(u, 422) /\ UNCHANGED text
  BY <1>1, <1>2, <1>3, GiveUpKeeps
<1>4. CASE Extracted(u, text[u])
  BY <1>1, <1>2, <1>4, ExtractedKeeps
<1>5. QED
  BY <1>3, <1>4 DEF Restore

\* The ingest ends in one of its statuses and releases the permit.
LEMMA IngestTextKeeps ==
  ASSUME RequestsInv, RequestsAssumption, NEW u \in Uploads, IngestText(u)
  PROVE  RequestsInv'
<1>1. OnWorker(u, "ingest") /\ "ingest" \in Working /\ "ingest" \notin Parsing
  BY DEF IngestText, Working, Parsing
<1>2. filter = "default"
  BY <1>1, WorkerFacts
<1>3. PICK status \in {201, 422, 500} : GiveUp(u, status)
  BY DEF IngestText
<1>4. UNCHANGED <<pool, body, buffer, text, saved>> /\ filter' = "default"
  BY <1>2 DEF IngestText, uploadVars
<1>5. status \in {201, 415, 422, 500}
  OBVIOUS
<1>6. QED
  BY <1>1, <1>3, <1>4, <1>5, GiveUpKeeps

-----------------------------------------------------------------------------

\* The invariant holds in every reachable state, however requests interleave.
THEOREM RequestsInvariant == Spec => []RequestsInv
<1>1. Init => RequestsInv
  BY RequestsAssumption, InitEstablishes
<1>2. RequestsInv /\ [Next]_vars => RequestsInv'
  <2> SUFFICES ASSUME RequestsInv, [Next]_vars PROVE RequestsInv'
    OBVIOUS
  <2>1. CASE UNCHANGED vars
    BY <2>1 DEF vars, limiters, uploadVars, RequestsInv, TypeOK, PermitInv, FilterInv,
         FilterIsRestored, TextInv, BufferInv, CapIsExact
  <2>2. ASSUME NEW r \in Requests, Arrive(r) \/ PoolStep(r) PROVE RequestsInv'
    BY <2>2, RequestsAssumption, PoolStepKeeps
  <2>3. ASSUME NEW u \in Uploads, UploadStep(u) \/ IngestText(u) PROVE RequestsInv'
    BY <2>3, RequestsAssumption, ReadBodyKeeps, AskPermitKeeps, ExtractByTypeKeeps,
       ParseKeeps, RestoreKeeps, IngestTextKeeps DEF UploadStep
  <2>4. QED
    BY <2>1, <2>2, <2>3 DEF Next
<1>3. QED
  BY <1>1, <1>2, PTL DEF Spec

\* The variables keep their types, and no upload holds more than one chunk past
\* the cap.
THEOREM RequestsTypeCorrect == Spec => []TypeOK
<1>1. RequestsInv => TypeOK
  BY DEF RequestsInv
<1>2. QED
  BY <1>1, RequestsInvariant, PTL

\* The cap is exact, for every cap, chunk and body size.
THEOREM TheCapIsExact == Spec => []CapIsExact
<1>1. RequestsInv => CapIsExact
  BY DEF RequestsInv
<1>2. QED
  BY <1>1, RequestsInvariant, PTL

\* No damaged PDF becomes the text of a document: its parser always runs under
\* the filter that makes its warnings raise.
THEOREM DamageIsRefused == Spec => []DamagedNeverIngested
<1>1. RequestsInv => DamagedNeverIngested
  BY DEF RequestsInv, TextInv, DamagedNeverIngested
<1>2. QED
  BY <1>1, RequestsInvariant, PTL

\* Whenever nothing is being parsed, the process has its default filter.
THEOREM TheFilterIsRestored == Spec => []FilterIsRestored
<1>1. RequestsInv => FilterIsRestored
  BY DEF RequestsInv, FilterInv
<1>2. QED
  BY <1>1, RequestsInvariant, PTL

-----------------------------------------------------------------------------
(* The tokens *)

\* Joining a line.
LEMMA JoinLine ==
  ASSUME NEW S, NEW line \in Seq(S), IsInjective(line), NEW r \in S, r \notin InLine(line)
  PROVE  /\ IsInjective(Append(line, r))
         /\ InLine(Append(line, r)) = InLine(line) \cup {r}
<1> DEFINE new == Append(line, r)
<1>1. /\ DOMAIN new = 1 .. Len(line) + 1 /\ DOMAIN line = 1 .. Len(line) /\ Len(line) \in Nat
      /\ \A i \in 1 .. Len(line) : new[i] = line[i]
      /\ new[Len(line) + 1] = r
  BY AppendProperties
<1> HIDE DEF new
<1>2. \A i \in DOMAIN new : i \in DOMAIN line \/ i = Len(line) + 1
  BY <1>1
<1>3. IsInjective(new)
  <2> SUFFICES ASSUME NEW i \in DOMAIN new, NEW j \in DOMAIN new, new[i] = new[j]
               PROVE  i = j
    BY DEF IsInjective
  <2>1. CASE i \in DOMAIN line /\ j \in DOMAIN line
    BY <2>1, <1>1 DEF IsInjective
  <2>2. CASE i = Len(line) + 1 /\ j \in DOMAIN line
    BY <2>2, <1>1 DEF InLine
  <2>3. CASE i \in DOMAIN line /\ j = Len(line) + 1
    BY <2>3, <1>1 DEF InLine
  <2>4. QED
    BY <1>2, <2>1, <2>2, <2>3
<1>4. InLine(new) = InLine(line) \cup {r}
  <2>1. Len(line) + 1 \in DOMAIN new /\ DOMAIN line \subseteq DOMAIN new
    BY <1>1
  <2>2. QED
    BY <1>1, <1>2, <2>1 DEF InLine
<1>5. QED
  BY <1>3, <1>4 DEF new

\* The places behind the one before m.
LEMMA RestOfLine ==
  ASSUME NEW S, NEW line \in Seq(S), NEW m \in 1 .. Len(line) + 1
  PROVE  /\ SubSeq(line, m, Len(line)) \in Seq(S)
         /\ Len(SubSeq(line, m, Len(line))) = Len(line) - (m - 1)
         /\ \A k \in 1 .. Len(line) - (m - 1) : SubSeq(line, m, Len(line))[k] = line[(m - 1) + k]
<1>1. Len(line) \in Nat /\ \A k \in m .. Len(line) : line[k] \in S
  BY ElementOfSeq
<1>2. /\ SubSeq(line, m, Len(line)) \in Seq(S)
      /\ Len(SubSeq(line, m, Len(line))) = IF m <= Len(line) THEN Len(line) - m + 1 ELSE 0
      /\ \A k \in 1 .. Len(line) - m + 1 : SubSeq(line, m, Len(line))[k] = line[m + k - 1]
  BY <1>1, SubSeqProperties
<1>3. /\ Len(line) - m + 1 = Len(line) - (m - 1)
      /\ m > Len(line) => Len(line) - (m - 1) = 0
      /\ \A k \in Int : m + k - 1 = (m - 1) + k
  BY <1>1
<1>4. QED
  BY <1>2, <1>3

\* Leaving a line: the others keep their order.
LEMMA LeaveLine ==
  ASSUME NEW S, NEW line \in Seq(S), IsInjective(line), NEW r \in InLine(line)
  PROVE  /\ IsInjective(Without(line, r))
         /\ InLine(Without(line, r)) = InLine(line) \ {r}
<1> DEFINE i == CHOOSE j \in DOMAIN line : line[j] = r
           front == SubSeq(line, 1, i - 1)
           back == SubSeq(line, i + 1, Len(line))
           n == Len(line) - 1
           old(k) == IF k < i THEN k ELSE k + 1
<1>1. i \in 1 .. Len(line) /\ line[i] = r /\ Len(line) \in Nat /\ DOMAIN line = 1 .. Len(line)
  BY DEF InLine
<1> HIDE DEF i
<1>2. /\ front \in Seq(S) /\ Len(front) = i - 1
      /\ \A k \in 1 .. i - 1 : front[k] = line[k]
  <2>1. \A k \in 1 .. i - 1 : line[k] \in S
    BY <1>1
  <2>2. i - 1 \in Int /\ 1 <= (i - 1) + 1
    BY <1>1
  <2>3. QED
    BY <1>1, <2>1, <2>2, SubSeqProperties
<1>3. /\ back \in Seq(S) /\ Len(back) = Len(line) - i
      /\ \A k \in 1 .. Len(line) - i : back[k] = line[i + k]
  <2>1. i + 1 \in 1 .. Len(line) + 1
    BY <1>1
  <2>2. /\ SubSeq(line, i + 1, Len(line)) \in Seq(S)
        /\ Len(SubSeq(line, i + 1, Len(line))) = Len(line) - i
        /\ \A k \in 1 .. Len(line) - i : SubSeq(line, i + 1, Len(line))[k] = line[i + k]
    <3>1. (i + 1) - 1 = i
      BY <1>1
    <3>2. QED
      BY <2>1, <3>1, RestOfLine
  <2>3. QED
    BY <2>2
<1> DEFINE new == front \o back
<1>4. Without(line, r) = new
  BY DEF Without, RemoveAt, i
<1> HIDE DEF front, back
<1>5. /\ DOMAIN new = 1 .. n /\ n \in Nat
      /\ \A k \in 1 .. i - 1 : new[k] = front[k]
      /\ \A k \in 1 .. Len(line) - i : new[(i - 1) + k] = back[k]
  <2>1. /\ DOMAIN new = 1 .. Len(front) + Len(back)
        /\ \A k \in 1 .. Len(front) : new[k] = front[k]
        /\ \A k \in 1 .. Len(back) : new[Len(front) + k] = back[k]
    <3>1. front \in Seq(S) /\ back \in Seq(S)
      BY <1>2, <1>3
    <3>2. /\ front \o back \in Seq(S)
          /\ Len(front \o back) = Len(front) + Len(back)
          /\ \A k \in 1 .. Len(front) : (front \o back)[k] = front[k]
          /\ \A k \in 1 .. Len(back) : (front \o back)[Len(front) + k] = back[k]
      BY <3>1, ConcatProperties
    <3>3. QED
      BY <3>2
  <2>2. Len(front) + Len(back) = n /\ n \in Nat
    BY <1>1, <1>2, <1>3
  <2>3. QED
    BY <1>2, <1>3, <2>1, <2>2
<1> HIDE DEF new
<1>6. \A k \in 1 .. n : /\ old(k) \in DOMAIN line
                        /\ old(k) # i
                        /\ new[k] = line[old(k)]
  <2> SUFFICES ASSUME NEW k \in 1 .. n
               PROVE  old(k) \in DOMAIN line /\ old(k) # i /\ new[k] = line[old(k)]
    OBVIOUS
  <2>1. CASE k < i
    <3>1. k \in 1 .. i - 1
      BY <2>1, <1>1
    <3>2. QED
      BY <2>1, <3>1, <1>1, <1>2, <1>5
  <2>2. CASE ~(k < i)
    <3>1. /\ k - (i - 1) \in 1 .. Len(line) - i
          /\ (i - 1) + (k - (i - 1)) = k /\ i + (k - (i - 1)) = k + 1
      BY <2>2, <1>1
    <3>2. new[k] = line[k + 1]
      BY <3>1, <1>3, <1>5
    <3>3. QED
      BY <2>2, <3>2, <1>1
  <2>3. QED
    BY <2>1, <2>2
<1>7. IsInjective(new)
  <2> SUFFICES ASSUME NEW k \in DOMAIN new, NEW m \in DOMAIN new, new[k] = new[m]
               PROVE  k = m
    BY DEF IsInjective
  <2>1. old(k) = old(m)
    BY <1>5, <1>6 DEF IsInjective
  <2>2. QED
    BY <2>1, <1>1, <1>5
<1>8. InLine(new) \subseteq InLine(line) \ {r}
  <2> SUFFICES ASSUME NEW k \in DOMAIN new
               PROVE  new[k] \in InLine(line) /\ new[k] # r
    BY DEF InLine
  <2>1. old(k) \in DOMAIN line /\ old(k) # i /\ new[k] = line[old(k)]
    BY <1>5, <1>6
  <2> HIDE DEF old
  <2>2. QED
    BY <2>1, <1>1 DEF InLine, IsInjective
<1>9. InLine(line) \ {r} \subseteq InLine(new)
  <2> SUFFICES ASSUME NEW j \in DOMAIN line, line[j] # r
               PROVE  line[j] \in InLine(new)
    BY DEF InLine
  <2>1. j # i
    BY <1>1
  <2>2. PICK k \in 1 .. n : old(k) = j
    <3>1. CASE j < i
      BY <3>1, <1>1
    <3>2. CASE j > i
      <4>1. j - 1 \in 1 .. n /\ old(j - 1) = j
        BY <3>2, <1>1
      <4>2. QED
        BY <4>1
    <3>3. QED
      BY <2>1, <3>1, <3>2, <1>1
  <2>3. new[k] = line[j] /\ k \in DOMAIN new
    BY <2>2, <1>5, <1>6
  <2>4. QED
    BY <2>3 DEF InLine
<1>10. QED
  BY <1>4, <1>7, <1>8, <1>9

PermitPlaces == {"extract", "parse", "restore", "ingest"}

\* The part of TokensAreReturned about each limiter.
PoolLine == IsInjective(pool) /\ \A r \in InLine(pool) : at[r] \in PoolJobs
PermitLine ==
  IsInjective(permit) /\ InLine(permit) = {u \in Uploads : at[u] \in PermitPlaces}

LEMMA TokensAreLines == TokensAreReturned <=> PoolLine /\ PermitLine
  BY DEF TokensAreReturned, PoolLine, PermitLine, PermitPlaces

\* Where a request stands after it moved, and where the others do.
LEMMA MovesOne ==
  ASSUME TypeOK, NEW r \in Requests, NEW to, at' = [at EXCEPT ![r] = to]
  PROVE  at'[r] = to /\ \A s \in Requests : s # r => at'[s] = at[s]
  BY DEF TypeOK

\* Who is in a line is a request.
LEMMA LinesAreOfRequests ==
  ASSUME TypeOK
  PROVE  InLine(pool) \subseteq Requests /\ InLine(permit) \subseteq Uploads
  BY ElementOfSeq DEF TypeOK, InLine

\* A request that has no job for the pool moves: the pool's line is as it was.
LEMMA PoolLineStays ==
  ASSUME TypeOK, PoolLine, NEW r \in Requests, at[r] \notin PoolJobs \/ at'[r] \in PoolJobs,
         \A s \in Requests : s # r => at'[s] = at[s], pool' = pool
  PROVE  PoolLine'
<1>1. \A s \in InLine(pool) : at[s] \in PoolJobs /\ s \in Requests
  BY LinesAreOfRequests DEF PoolLine
<1>2. \A s \in InLine(pool) : at'[s] \in PoolJobs
  BY <1>1
<1>3. InLine(pool)' = InLine(pool)
  BY DEF InLine
<1>4. QED
  BY <1>2, <1>3 DEF PoolLine, InLine

\* A request moves between places with the permit, or between others.
LEMMA PermitLineStays ==
  ASSUME TypeOK, PermitLine, NEW r \in Requests,
         r \in Uploads => (at[r] \in PermitPlaces <=> at'[r] \in PermitPlaces),
         \A s \in Requests : s # r => at'[s] = at[s], permit' = permit
  PROVE  PermitLine'
<1>1. \A u \in Uploads : at'[u] \in PermitPlaces <=> at[u] \in PermitPlaces
  BY DEF Requests
<1>2. InLine(permit)' = InLine(permit)
  BY DEF InLine
<1>3. QED
  BY <1>1, <1>2 DEF PermitLine

\* A request that asks for a thread was not in line; one whose job has run is in
\* it no more.
LEMMA PoolStepTokens ==
  ASSUME TypeOK, RequestsAssumption, PoolLine, PermitLine, NEW r \in Requests,
         Arrive(r) \/ PoolStep(r)
  PROVE  PoolLine' /\ PermitLine'
<1> USE DEF Goes, Ends, limiters
<1>1. CASE Arrive(r)
  <2>1. PICK to \in {"dependencies", "probe"} : at' = [at EXCEPT ![r] = to]
    BY <1>1 DEF Arrive
  <2>2. at'[r] \in PoolJobs /\ \A s \in Requests : s # r => at'[s] = at[s]
    BY <2>1, MovesOne DEF PoolJobs
  <2>3. r \in Uploads => at[r] \notin PermitPlaces /\ at'[r] \notin PermitPlaces
    BY <1>1, <2>1, MovesOne DEF Arrive, RequestsAssumption, PermitPlaces
  <2>4. QED
    BY <1>1, <2>2, <2>3, PoolLineStays, PermitLineStays DEF Arrive
<1>2. CASE Ask(r)
  <2>1. /\ at' = at /\ permit' = permit /\ at[r] \in PoolJobs /\ r \notin InLine(pool)
        /\ pool' = Append(pool, r) /\ pool \in Seq(Requests)
    BY <1>2 DEF Ask, TypeOK
  <2>2. IsInjective(pool') /\ InLine(pool') = InLine(pool) \cup {r}
    BY <2>1, JoinLine DEF PoolLine
  <2>3. PoolLine'
    BY <2>1, <2>2 DEF PoolLine, InLine
  <2>4. QED
    BY <2>1, <2>3, PermitLineStays
<1>3. ASSUME NEW job \in PoolJobs, Runs(r, job), NEW to \in Places \ PermitPlaces,
             at' = [at EXCEPT ![r] = to]
      PROVE  PoolLine' /\ PermitLine'
  <2>1. at[r] = job /\ r \in InLine(pool) /\ pool \in Seq(Requests)
        /\ pool' = Without(pool, r) /\ permit' = permit
    BY <1>3 DEF Runs, Admitted, InLine, TypeOK, PoolWithout
  <2>2. IsInjective(pool') /\ InLine(pool') = InLine(pool) \ {r}
    BY <2>1, LeaveLine DEF PoolLine
  <2>3. at'[r] = to /\ \A s \in Requests : s # r => at'[s] = at[s]
    BY <1>3, MovesOne
  <2>4. \A s \in InLine(pool') : at'[s] \in PoolJobs
    BY <2>2, <2>3, LinesAreOfRequests DEF PoolLine
  <2>5. PoolLine'
    BY <2>2, <2>4 DEF PoolLine, InLine
  <2>6. at[r] \notin PermitPlaces
    BY <2>1, <1>3 DEF PoolJobs, PermitPlaces
  <2>7. QED
    BY <1>3, <2>1, <2>3, <2>5, <2>6, PermitLineStays
<1>4. CASE Resolve(r)
  <2>1. PICK to \in {"history", "body", "done"} : at' = [at EXCEPT ![r] = to]
    BY <1>4 DEF Resolve
  <2>2. to \in Places \ PermitPlaces
    BY DEF Places, PoolJobs, UploadPlaces, PermitPlaces
  <2>3. QED
    BY <1>3, <1>4, <2>1, <2>2 DEF Resolve, PoolJobs
<1>5. CASE ReadHistory(r) \/ Retrieve(r) \/ Generate(r) \/ AppendTurns(r) \/ Probe(r)
  <2>1. PICK to \in {"retrieve", "generate", "append", "done"} : at' = [at EXCEPT ![r] = to]
    BY <1>5 DEF ReadHistory, Retrieve, Generate, AppendTurns, Probe
  <2>2. to \in Places \ PermitPlaces
    BY DEF Places, PoolJobs, PermitPlaces
  <2>3. \E job \in PoolJobs : Runs(r, job)
    BY <1>5 DEF ReadHistory, Retrieve, Generate, AppendTurns, Probe, PoolJobs
  <2>4. QED
    BY <1>3, <2>1, <2>2, <2>3
<1>6. QED
  BY <1>1, <1>2, <1>4, <1>5 DEF PoolStep

\* A worker that raises or ends leaves the line of the permit; no other step of an
\* upload touches a line, but for the one that joins it.
LEMMA UploadStepTokens ==
  ASSUME TypeOK, RequestsAssumption, PoolLine, PermitLine, NEW u \in Uploads,
         UploadStep(u) \/ IngestText(u)
  PROVE  PoolLine' /\ PermitLine'
<1> USE DEF Goes, Ends, limiters
<1>0. u \in Requests /\ permit \in Seq(Uploads)
  BY DEF Requests, TypeOK
<1>1. ASSUME at[u] \in UploadPlaces, pool' = pool, permit' = permit,
             NEW to \in Places, at' = [at EXCEPT ![u] = to],
             at[u] \in PermitPlaces <=> to \in PermitPlaces
      PROVE  PoolLine' /\ PermitLine'
  <2>1. at'[u] = to /\ \A s \in Requests : s # u => at'[s] = at[s]
    BY <1>0, <1>1, MovesOne
  <2>2. at[u] \notin PoolJobs
    BY <1>1 DEF UploadPlaces, PoolJobs
  <2>3. QED
    BY <1>0, <1>1, <2>1, <2>2, PoolLineStays, PermitLineStays
<1>2. ASSUME NEW place \in PermitPlaces, OnWorker(u, place), NEW status, GiveUp(u, status),
             pool' = pool
      PROVE  PoolLine' /\ PermitLine'
  <2>1. at[u] = place /\ u \in InLine(permit)
    BY <1>0, <1>2, OnWorkerIsFirst
  <2>2. permit' = Without(permit, u) /\ at' = [at EXCEPT ![u] = "done"]
    BY <1>2 DEF GiveUp
  <2>3. IsInjective(permit') /\ InLine(permit') = InLine(permit) \ {u}
    BY <1>0, <2>1, <2>2, LeaveLine DEF PermitLine
  <2>4. at'[u] = "done" /\ \A s \in Requests : s # u => at'[s] = at[s]
    BY <1>0, <2>2, MovesOne
  <2>5. InLine(permit') = {v \in Uploads : at'[v] \in PermitPlaces}
    BY <2>3, <2>4 DEF PermitLine, PermitPlaces, Requests
  <2>6. PermitLine'
    BY <2>3, <2>5 DEF PermitLine, InLine
  <2>7. at[u] \notin PoolJobs
    BY <2>1 DEF PermitPlaces, PoolJobs
  <2>8. QED
    BY <1>0, <1>2, <2>4, <2>6, <2>7, PoolLineStays
<1>3. CASE ReadBody(u)
  <2>1. at[u] = "body" /\ pool' = pool /\ permit' = permit
    BY <1>3 DEF ReadBody
  <2>2. at' = at \/ \E to \in {"offload", "done"} : at' = [at EXCEPT ![u] = to]
    BY <1>3 DEF ReadBody
  <2>3. CASE at' = at
    BY <2>1, <2>3, <1>0, PoolLineStays, PermitLineStays DEF PoolJobs
  <2>4. ASSUME NEW to \in {"offload", "done"}, at' = [at EXCEPT ![u] = to]
        PROVE  PoolLine' /\ PermitLine'
    <3>1. at[u] \in UploadPlaces /\ to \in Places
      BY <2>1 DEF UploadPlaces, Places
    <3>2. at[u] \notin PermitPlaces /\ to \notin PermitPlaces
      BY <2>1 DEF PermitPlaces
    <3>3. QED
      BY <1>1, <2>1, <2>4, <3>1, <3>2
  <2>5. QED
    BY <2>2, <2>3, <2>4
<1>4. CASE AskPermit(u)
  <2>1. /\ at[u] = "offload" /\ pool' = pool /\ permit' = Append(permit, u)
        /\ at' = [at EXCEPT ![u] = "extract"]
    BY <1>4 DEF AskPermit
  <2>2. at'[u] = "extract" /\ \A s \in Requests : s # u => at'[s] = at[s]
    BY <1>0, <2>1, MovesOne
  <2>3. u \notin InLine(permit)
    BY <2>1 DEF PermitLine, PermitPlaces
  <2>4. IsInjective(permit') /\ InLine(permit') = InLine(permit) \cup {u}
    BY <1>0, <2>1, <2>3, JoinLine DEF PermitLine
  <2>5. InLine(permit') = {v \in Uploads : at'[v] \in PermitPlaces}
    BY <2>2, <2>4 DEF PermitLine, PermitPlaces, Requests
  <2>6. PermitLine'
    BY <2>4, <2>5 DEF PermitLine, InLine
  <2>7. PoolLine'
    BY <1>0, <2>1, <2>2, PoolLineStays DEF PoolJobs
  <2>8. QED
    BY <2>6, <2>7
<1>5. ASSUME NEW place \in PermitPlaces, OnWorker(u, place), NEW to \in PermitPlaces,
             at' = [at EXCEPT ![u] = to], pool' = pool, permit' = permit
      PROVE  PoolLine' /\ PermitLine'
  <2>1. at[u] = place /\ PermitPlaces \subseteq UploadPlaces \cap Places
    BY <1>5 DEF OnWorker, PermitPlaces, UploadPlaces, Places
  <2>2. QED
    BY <1>1, <1>5, <2>1
<1>6. ASSUME NEW place \in PermitPlaces, OnWorker(u, place), NEW result, Extracted(u, result),
             pool' = pool
      PROVE  PoolLine' /\ PermitLine'
  BY <1>2, <1>5, <1>6 DEF Extracted, PermitPlaces
<1>7. CASE ExtractByType(u)
  BY <1>2, <1>5, <1>6, <1>7 DEF ExtractByType, PermitPlaces
<1>8. CASE Parse(u)
  BY <1>5, <1>8 DEF Parse, PermitPlaces
<1>9. CASE Restore(u)
  BY <1>2, <1>6, <1>9 DEF Restore, PermitPlaces
<1>10. CASE IngestText(u)
  BY <1>2, <1>10 DEF IngestText, PermitPlaces
<1>11. QED
  BY <1>3, <1>4, <1>7, <1>8, <1>9, <1>10 DEF UploadStep

-----------------------------------------------------------------------------

\* Every token that was taken is with a request that has work for it, whatever
\* raised and in whatever order requests came and ended.
THEOREM AllTokensAreReturned == Spec => []TokensAreReturned
<1>1. Init => PoolLine /\ PermitLine
  <2> SUFFICES ASSUME Init PROVE PoolLine /\ PermitLine
    OBVIOUS
  <2>1. pool = <<>> /\ permit = <<>> /\ \A u \in Uploads : at[u] = "outside"
    BY DEF Init, Requests
  <2>2. IsInjective(<<>>) /\ InLine(<<>>) = {}
    BY DEF IsInjective, InLine
  <2>3. QED
    BY <2>1, <2>2 DEF PoolLine, PermitLine, PermitPlaces
<1>2. TypeOK /\ PoolLine /\ PermitLine /\ [Next]_vars => PoolLine' /\ PermitLine'
  <2> SUFFICES ASSUME TypeOK, PoolLine, PermitLine, [Next]_vars
               PROVE  PoolLine' /\ PermitLine'
    OBVIOUS
  <2>1. CASE UNCHANGED vars
    BY <2>1 DEF vars, limiters, PoolLine, PermitLine, InLine
  <2>2. ASSUME NEW r \in Requests, Arrive(r) \/ PoolStep(r) PROVE PoolLine' /\ PermitLine'
    BY <2>2, RequestsAssumption, PoolStepTokens
  <2>3. ASSUME NEW u \in Uploads, UploadStep(u) \/ IngestText(u) PROVE PoolLine' /\ PermitLine'
    BY <2>3, RequestsAssumption, UploadStepTokens
  <2>4. QED
    BY <2>1, <2>2, <2>3 DEF Next
<1>3. QED
  BY <1>1, <1>2, RequestsTypeCorrect, TokensAreLines, PTL DEF Spec

\* Extractions and ingests are one at a time, for any number of uploads.
THEOREM WorkersAreAlone == Spec => []OneWorker
<1>1. RequestsInv => OneWorker
  BY DEF RequestsInv, PermitInv, Working, OneWorker
<1>2. QED
  BY <1>1, RequestsInvariant, PTL

===============================================================================
