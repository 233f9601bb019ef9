--------------------------- MODULE RagSystemProofs ---------------------------
(***************************************************************************)
(* Theorems about RagSystem for every set of documents, texts, requests,   *)
(* sessions and keys, and every bound on versions, hits and turns.         *)
(***************************************************************************)
EXTENDS RagSystemInvariants, IngestionProofs, FiniteSetTheorems, SequenceTheorems

-----------------------------------------------------------------------------
(* The ingest *)

\* A step of the system is a step of its ingest, or leaves the ingest alone.
LEMMA SystemStepIsIngestStep == [SystemNext]_systemVars => [Next]_vars
<1> SUFFICES ASSUME [SystemNext]_systemVars PROVE [Next]_vars
  OBVIOUS
<1>1. SubmitUpload => Next
  BY DEF SubmitUpload, Next
<1>2. EndIngest /\ pc = "invalidate" => Next
  BY DEF EndIngest, Invalidate, Step, Next
<1>3. IngestStep => [Next]_vars
  BY <1>2 DEF IngestStep, ReadTags, DropTagged, Next
<1>4. ASSUME NEW c \in Chats, ChatStep(c) PROVE UNCHANGED vars
  BY <1>4 DEF ChatStep, ReadHistory, LookUp, KeywordSearch, VectorSearch, Hydrate,
              Generate, AppendQuestion, AppendAnswer, WriteCache, Enter, End
<1>5. Stop => [Next]_vars
  BY DEF Stop, Next
<1>6. Expiry => UNCHANGED vars
  BY DEF Expiry
<1>7. UNCHANGED systemVars => UNCHANGED vars
  BY DEF systemVars
<1>8. QED
  BY <1>1, <1>3, <1>4, <1>5, <1>6, <1>7 DEF SystemNext

\* Whatever the chats, the invalidator and Redis do meanwhile, the composed
\* system runs the ingest of module Ingestion.
THEOREM SystemRunsIngestion == SystemSpec => ImplementsIngestion
<1>1. SystemInit => Init
  BY DEF SystemInit
<1>2. QED
  BY <1>1, SystemStepIsIngestStep, PTL DEF SystemSpec, ImplementsIngestion

-----------------------------------------------------------------------------
(* Histories *)

\* Trimming keeps the newest turns, in their order, and at most n of them.
LEMMA NewestShape ==
  ASSUME NEW T, NEW list \in Seq(T), NEW n \in Nat \ {0}
  PROVE  \E k \in 0 .. Len(list) :
           /\ Newest(list, n) \in Seq(T)
           /\ Len(Newest(list, n)) = Len(list) - k
           /\ Len(Newest(list, n)) <= n
           /\ \A i \in 1 .. Len(list) - k : Newest(list, n)[i] = list[i + k]
           /\ Len(list) > 0 => k < Len(list)
<1> DEFINE k == IF Len(list) > n THEN Len(list) - n ELSE 0
<1>1. Len(list) \in Nat /\ k \in 0 .. Len(list)
  OBVIOUS
<1>2. Newest(list, n) = SubSeq(list, k + 1, Len(list))
  BY <1>1 DEF Newest
<1>3. \A i \in k + 1 .. Len(list) : list[i] \in T
  BY <1>1
<1>4. /\ SubSeq(list, k + 1, Len(list)) \in Seq(T)
      /\ Len(SubSeq(list, k + 1, Len(list)))
           = IF k + 1 <= Len(list) THEN Len(list) - (k + 1) + 1 ELSE 0
      /\ \A i \in 1 .. Len(list) - (k + 1) + 1 :
           SubSeq(list, k + 1, Len(list))[i] = list[k + 1 + i - 1]
  <2>1. k + 1 \in Int /\ Len(list) \in Int
    BY <1>1
  <2> HIDE DEF k
  <2>2. QED
    BY <1>3, <2>1, SubSeqProperties
<1>5. Len(Newest(list, n)) = Len(list) - k
  <2>1. k + 1 <= Len(list) \/ k = Len(list)
    BY <1>1
  <2>2. k \in Nat /\ k <= Len(list)
    BY <1>1
  <2> HIDE DEF k
  <2>3. QED
    BY <1>1, <1>2, <1>4, <2>1, <2>2
<1>6. \A i \in 1 .. Len(list) - k : Newest(list, n)[i] = list[i + k]
  <2> HIDE DEF k
  <2> TAKE i \in 1 .. Len(list) - k
  <2>1. i \in 1 .. Len(list) - (k + 1) + 1 /\ k + 1 + i - 1 = i + k
    BY <1>1
  <2>2. QED
    BY <1>2, <1>4, <2>1
<1>7. Len(list) - k <= n /\ (Len(list) > 0 => k < Len(list))
  BY <1>1
<1> HIDE DEF k
<1>8. QED
  BY <1>1, <1>2, <1>4, <1>5, <1>6, <1>7

-----------------------------------------------------------------------------
(* Chats *)

\* The part of the invariant that the chats share with the ingest.
LEMMA SystemFacts ==
  ASSUME SystemInv
  PROVE  /\ StoresTypeOK /\ committed \subseteq Publication
         /\ stage \in [Chats -> Stages] /\ local \in [Chats -> Locals]
         /\ request \in [Chats -> [session: SessionIds, key: Fingerprints]]
         /\ reported \in [Docs -> 0 .. MaxVersion] /\ evicted \in [Docs -> 0 .. MaxVersion]
         /\ entries \in [Fingerprints -> Answer \cup {NoAnswer}]
         /\ tags \in [Docs -> SUBSET Fingerprints]
         /\ members \subseteq Fingerprints /\ raced \subseteq Fingerprints
         /\ MaxVersion \in Nat
  BY StoresAssumption DEF SystemInv, SystemTypeOK, IngestionInv, TypeOK

\* A request that ends forgets what it had read.
LEMMA NothingIsFresh ==
  ASSUME SystemInv
  PROVE  Nothing \in Locals /\ Fresh(Nothing)
<1>1. reported \in [Docs -> 0 .. MaxVersion] /\ MaxVersion \in Nat
  BY SystemFacts
<1>2. QED
  BY <1>1 DEF Nothing, Locals, Fresh

\* What a request knows once it has read its history.
LEMMA BegunIsFresh ==
  ASSUME SystemInv, NEW empty \in BOOLEAN
  PROVE  LET now == [Nothing EXCEPT !.bare = empty, !.cacheable = empty, !.floor = reported]
         IN  now \in Locals /\ Fresh(now)
<1> DEFINE now == [Nothing EXCEPT !.bare = empty, !.cacheable = empty, !.floor = reported]
<1>1. Nothing \in Locals /\ Nothing.cites = {}
  BY NothingIsFresh DEF Nothing
<1>2. reported \in [Docs -> 0 .. MaxVersion] /\ MaxVersion \in Nat
  BY SystemFacts
<1>3. now \in Locals
  BY <1>1, <1>2 DEF Locals
<1>4. /\ now.bare = empty /\ now.cacheable = empty
      /\ now.floor = reported /\ now.cites = {}
  BY <1>1 DEF Locals
<1> HIDE DEF now
<1>5. Fresh(now)
  BY <1>2, <1>4 DEF Fresh
<1>6. QED
  BY <1>3, <1>5 DEF now

\* The hits of a search are ids of entries.
LEMMA IdsOfEntries ==
  ASSUME NEW table \in SUBSET Entry
  PROVE  {Id(e) : e \in table} \subseteq Docs \X Versions \X Nat
  BY DEF Entry, Id

\* A step of a request moves it to another stage with locals that are as
\* fresh as those it had, and writes only what it may cache.
Moves(c, to, now) ==
  /\ Enter(c, to, now)
  /\ to \in Stages /\ now \in Locals
  /\ Fresh(now)
  /\ to = "write" => now.cacheable

\* Every step of a request is such a move.
LEMMA ChatMoves ==
  ASSUME SystemInv, NEW c \in Chats, ChatStep(c)
  PROVE  \E to, now : Moves(c, to, now)
<1>facts. /\ StoresTypeOK /\ committed \subseteq Publication
          /\ local[c] \in Locals /\ Fresh(local[c])
          /\ reported \in [Docs -> 0 .. MaxVersion]
  BY SystemFacts DEF SystemInv, ChatInv
<1>end. ASSUME NEW o \in Ended, End(c, o) PROVE \E to, now : Moves(c, to, now)
  <2>1. Moves(c, o, Nothing)
    BY <1>end, NothingIsFresh DEF End, Moves, Ended, Stages
  <2>2. QED
    BY <2>1
<1>ended. {"answered", "refused", "unavailable", "failed"} \subseteq Ended
  BY DEF Ended
<1>same. ASSUME NEW s \in Stages, s = "write" => local[c].cacheable, Enter(c, s, local[c])
         PROVE  \E to, now : Moves(c, to, now)
  BY <1>same, <1>facts DEF Moves
<1>stages. {"lookup", "keywords", "vectors", "hydrate", "generate",
            "user", "assistant", "write"} \subseteq Stages
  BY DEF Stages
<1>1. CASE ReadHistory(c)
  <2> DEFINE none == History(request[c].session, HistoryLimit) = <<>>
             now == [Nothing EXCEPT !.bare = none, !.cacheable = none, !.floor = reported]
  <2>1. now \in Locals /\ Fresh(now)
    BY BegunIsFresh
  <2>2. \/ Enter(c, IF none THEN "lookup" ELSE "keywords", now)
        \/ End(c, "failed")
    BY <1>1 DEF ReadHistory
  <2> HIDE DEF none, now
  <2>3. CASE Enter(c, IF none THEN "lookup" ELSE "keywords", now)
    <3>1. Moves(c, IF none THEN "lookup" ELSE "keywords", now)
      BY <2>1, <2>3, <1>stages DEF Moves
    <3>2. QED
      BY <3>1
  <2>4. QED
    BY <2>2, <2>3, <1>end, <1>ended
<1>2. CASE LookUp(c)
  BY <1>2, <1>same, <1>stages DEF LookUp
<1>3. CASE KeywordSearch(c)
  <2>1. CASE End(c, "failed")
    BY <2>1, <1>end, <1>ended
  <2>2. ASSUME NEW found \in SUBSET {Id(e) : e \in postings},
               Enter(c, "vectors", [local[c] EXCEPT !.hits = found])
        PROVE  \E to, now : Moves(c, to, now)
    <3> DEFINE now == [local[c] EXCEPT !.hits = found]
    <3>1. found \in SUBSET (Docs \X Versions \X Nat)
      BY <1>facts, IdsOfEntries DEF StoresTypeOK
    <3>2. now \in Locals /\ Fresh(now)
      BY <3>1, <1>facts DEF Locals, Fresh
    <3>3. Moves(c, "vectors", now)
      BY <2>2, <3>2, <1>stages DEF Moves
    <3>4. QED
      BY <3>3
  <2>3. QED
    BY <1>3, <2>1, <2>2 DEF KeywordSearch
<1>4. CASE VectorSearch(c)
  <2>1. CASE End(c, "failed")
    BY <2>1, <1>end, <1>ended
  <2>2. ASSUME NEW found \in BestOf(KEach, {Id(e) : e \in points}),
               Enter(c, "hydrate", [local[c] EXCEPT !.hits = @ \cup found, !.promised = committed])
        PROVE  \E to, now : Moves(c, to, now)
    <3> DEFINE now == [local[c] EXCEPT !.hits = @ \cup found, !.promised = committed]
    <3>1. found \in SUBSET (Docs \X Versions \X Nat)
      BY <1>facts, IdsOfEntries DEF StoresTypeOK, BestOf
    <3>2. now \in Locals /\ Fresh(now)
      BY <3>1, <1>facts DEF Locals, Fresh
    <3>3. Moves(c, "hydrate", now)
      BY <2>2, <3>2, <1>stages DEF Moves
    <3>4. QED
      BY <3>3
  <2>3. QED
    BY <1>4, <2>1, <2>2 DEF VectorSearch
<1>5. CASE Hydrate(c)
  <2> DEFINE rows == {e \in chunks : Id(e) \in local[c].hits}
  <2>1. CASE End(c, "failed") \/ End(c, "refused")
    BY <2>1, <1>end, <1>ended
  <2>2. ASSUME NEW best \in BestOf(TopN, rows),
               Enter(c, "generate", [local[c] EXCEPT !.hits = {}, !.promised = {}, !.cites = best])
        PROVE  \E to, now : Moves(c, to, now)
    <3> DEFINE now == [local[c] EXCEPT !.hits = {}, !.promised = {}, !.cites = best]
    <3>1. best \subseteq chunks
      BY DEF BestOf
    <3>2. now \in Locals
      BY <3>1, <1>facts DEF Locals, StoresTypeOK
    <3>3. now.cites = best /\ now.floor = local[c].floor
          /\ now.cacheable = local[c].cacheable /\ now.bare = local[c].bare
      BY <1>facts DEF Locals
    <3>4. ASSUME NEW e \in best PROVE e.version >= local[c].floor[e.doc]
      <4>1. e \in Entry /\ e.version >= reported[e.doc]
        BY <3>1, <1>facts DEF StoresTypeOK, SystemInv, ReportedInv
      <4>2. e.doc \in Docs /\ e.version \in Int
        BY <4>1 DEF Entry, Versions
      <4>3. local[c].floor[e.doc] <= reported[e.doc]
        BY <4>2, <1>facts DEF Fresh
      <4>4. local[c].floor[e.doc] \in Int /\ reported[e.doc] \in Int
        BY <4>2, <1>facts DEF Locals
      <4>5. QED
        BY <4>1, <4>2, <4>3, <4>4
    <3> HIDE DEF now
    <3>5. Fresh(now)
      BY <3>3, <3>4, <1>facts DEF Fresh
    <3>6. Moves(c, "generate", now)
      BY <2>2, <3>2, <3>5, <1>stages DEF Moves, now
    <3>7. QED
      BY <3>6
  <2>3. QED
    BY <1>5, <2>1, <2>2 DEF Hydrate
<1>6. CASE Generate(c)
  <2>1. ASSUME NEW o \in {"refused", "unavailable", "failed"}, End(c, o)
        PROVE  \E to, now : Moves(c, to, now)
    BY <2>1, <1>end, <1>ended
  <2>2. ASSUME NEW kept \in BestOf(RerankTopN, local[c].cites),
               Enter(c, "user", [local[c] EXCEPT !.cites = kept])
        PROVE  \E to, now : Moves(c, to, now)
    <3> DEFINE now == [local[c] EXCEPT !.cites = kept]
    <3>1. kept \subseteq local[c].cites
      BY DEF BestOf
    <3>2. now \in Locals /\ Fresh(now)
      BY <3>1, <1>facts DEF Locals, Fresh
    <3>3. Moves(c, "user", now)
      BY <2>2, <3>2, <1>stages DEF Moves
    <3>4. QED
      BY <3>3
  <2>3. QED
    BY <1>6, <2>1, <2>2 DEF Generate
<1>7. CASE AppendQuestion(c)
  BY <1>7, <1>same, <1>stages, <1>end, <1>ended DEF AppendQuestion
<1>8. CASE AppendAnswer(c)
  BY <1>8, <1>same, <1>stages, <1>end, <1>ended DEF AppendAnswer
<1>9. CASE WriteCache(c)
  BY <1>9, <1>end, <1>ended DEF WriteCache
<1>10. QED
  BY <1>1, <1>2, <1>3, <1>4, <1>5, <1>6, <1>7, <1>8, <1>9 DEF ChatStep

-----------------------------------------------------------------------------
(* What the ingest promised *)

\* Ending an invalidation, the ingest reports the one version that is left.
LEMMA ReportedAtEnd ==
  ASSUME SystemInv, pc = "invalidate"
  PROVE  /\ job \in Job /\ job.doc \in Docs /\ job.version \in Versions
         /\ reported[job.doc] <= job.version
         /\ \A e \in chunks : e.doc = job.doc => e.version = job.version
         /\ \E p \in committed : p.doc = job.doc /\ p.version = job.version
<1>1. job \in Job
  BY WorkerHasJob DEF SystemInv, IngestionInv
<1>2. job.doc \in Docs /\ job.version \in Versions
  BY <1>1 DEF Job, SystemInv, IngestionInv, JobInv, Numbered
<1>3. \A e \in chunks : e.doc = job.doc => e.version = job.version
  BY DEF SystemInv, IngestionInv, TablesAgree, SweepInv
<1>4. /\ \A p \in committed : p.doc = job.doc => p.version = job.version
      /\ \E p \in committed : p.doc = job.doc
  BY DEF SystemInv, IngestionInv, NumberInv
<1>5. reported[job.doc] = 0 \/ \E p \in committed : p.doc = job.doc /\ p.version >= reported[job.doc]
  BY <1>2 DEF SystemInv, ReportedInv
<1>6. reported[job.doc] <= job.version
  BY <1>2, <1>4, <1>5 DEF Versions
<1>7. QED
  BY <1>1, <1>2, <1>3, <1>4, <1>6

\* Every step keeps what was reported in the stores.
LEMMA ReportedStep ==
  ASSUME SystemInv, [SystemNext]_systemVars
  PROVE  ReportedInv'
<1>facts. /\ StoresTypeOK /\ committed \subseteq Publication
          /\ reported \in [Docs -> 0 .. MaxVersion] /\ MaxVersion \in Nat
  BY SystemFacts
<1>inv. IngestionInv /\ TypeInv /\ TablesAgree /\ ReportedInv
  BY DEF SystemInv, IngestionInv, TypeInv
<1>next. [Next]_vars
  BY SystemStepIsIngestStep
<1>1. ASSUME reported' = reported PROVE ReportedInv'
  <2>1. CASE Quiet
    BY <1>1, <1>inv, <2>1 DEF Quiet, TablesKept, ReportedInv
  <2>2. CASE Stored
    <3> DEFINE d == job.doc
               v == LatestVersion(job.doc) + 1
    <3>1. job \in Job /\ LatestVersion(d) < MaxVersion
      BY <2>2, <1>inv, WorkerHasJob DEF Stored, TypeInv, JobInv, Unnumbered
    <3>2. d \in Docs /\ job.text \in Texts /\ v \in Versions
      BY <3>1, <1>facts, NextVersion DEF Job
    <3>3. chunks' = chunks \cup ChunksOf(d, v, job.text) /\ committed' = committed
      BY <2>2 DEF Stored, UpsertDocument
    <3>4. \A e \in ChunksOf(d, v, job.text) : e.doc = d /\ e.version = v
      BY <3>2, ChunksOfVersion
    <3>5. reported[d] <= v
      <4>1. ASSUME NEW p \in committed, p.doc = d, p.version >= reported[d]
            PROVE  reported[d] <= v
        <5>1. p.version \in VersionsIn(documents, d)
          BY <4>1, <1>inv DEF TablesAgree
        <5>2. p.version <= LatestVersion(d) /\ p.version \in Int /\ LatestVersion(d) \in Int
          BY <5>1, <1>facts, LatestVersionIsHighest DEF Versions
        <5>3. QED
          BY <4>1, <5>2, <3>2, <1>facts
      <4>2. QED
        BY <4>1, <3>2, <1>inv, <1>facts DEF ReportedInv, Versions
    <3> HIDE DEF d, v
    <3>6. \A e \in chunks' : e.version >= reported[e.doc]
      <4> TAKE e \in chunks'
      <4>1. CASE e \in chunks
        BY <4>1, <1>inv DEF ReportedInv
      <4>2. CASE e \in ChunksOf(d, v, job.text)
        BY <4>2, <3>4, <3>5, <3>2, <1>facts DEF Versions
      <4>3. QED
        BY <4>1, <4>2, <3>3
    <3>7. QED
      BY <3>3, <3>6, <1>1, <1>inv DEF ReportedInv
  <2>3. CASE Undone \/ Swept
    <3>1. chunks' \subseteq chunks /\ committed' = committed
      BY <2>3 DEF Undone, Swept, DeleteVersion, Without, Finish, NextOlder
    <3>2. QED
      BY <3>1, <1>1, <1>inv DEF ReportedInv
  <2>4. CASE Committing
    <3> DEFINE new == [doc |-> job.doc, version |-> job.version, text |-> job.text]
    <3>1. chunks' = chunks
      BY <2>4 DEF Committing, UpsertPoints
    <3>2. committed' = {c \in committed : c.doc # job.doc} \cup {new}
      BY <2>4 DEF Committing
    <3>3. \A p \in committed : p.doc = job.doc => p.version < job.version
      BY <2>4, <1>inv DEF Committing, IngestionInv, NumberInv, Writing
    <3>4. job.version \in Nat
      BY <2>4, <1>inv DEF Committing, TypeInv, JobInv, Numbered, Writing, Versions
    <3>5. \A p \in committed : p.version \in Nat
      BY <1>facts DEF Publication, Versions
    <3>6. new.doc = job.doc /\ new.version = job.version
      OBVIOUS
    <3> HIDE DEF new
    <3>7. ASSUME NEW d \in Docs, NEW p \in committed, p.doc = d, p.version >= reported[d]
          PROVE  \E q \in committed' : q.doc = d /\ q.version >= reported[d]
      <4>1. CASE d = job.doc
        <5>1. new \in committed' /\ new.version > p.version /\ reported[d] \in Int
          BY <3>2, <3>3, <3>6, <3>7, <4>1, <1>facts
        <5>2. QED
          BY <5>1, <4>1, <3>4, <3>5, <3>6, <3>7
      <4>2. CASE d # job.doc
        BY <4>2, <3>2, <3>7
      <4>3. QED
        BY <4>1, <4>2
    <3>8. QED
      BY <3>1, <3>7, <1>1, <1>inv DEF ReportedInv
  <2>5. QED
    BY <2>1, <2>2, <2>3, <2>4, <1>inv, <1>next, StepPhases
<1>2. ASSUME pc = "invalidate", EndIngest PROVE ReportedInv'
  <2>1. /\ chunks' = chunks /\ committed' = committed
        /\ reported' = [reported EXCEPT ![job.doc] = job.version]
    BY <1>2 DEF EndIngest, Finish, storeVars
  <2>2. /\ job.doc \in Docs /\ job.version \in Versions
        /\ \A e \in chunks : e.doc = job.doc => e.version = job.version
        /\ \E p \in committed : p.doc = job.doc /\ p.version = job.version
    BY <1>2, ReportedAtEnd
  <2>3. \A e \in chunks : e.doc \in Docs /\ e.version >= reported[e.doc]
    BY <1>facts, <1>inv DEF StoresTypeOK, Entry, ReportedInv
  <2>4. \A e \in chunks' : e.version >= reported'[e.doc]
    BY <2>1, <2>2, <2>3, <1>facts DEF Versions
  <2>5. \A d \in Docs : reported'[d] = 0 \/ \E p \in committed' : p.doc = d /\ p.version >= reported'[d]
    BY <2>1, <2>2, <1>inv, <1>facts DEF Versions, ReportedInv
  <2>6. QED
    BY <2>4, <2>5 DEF ReportedInv
<1>3. reported' = reported \/ (pc = "invalidate" /\ EndIngest)
  BY DEF SystemNext, SubmitUpload, IngestStep, ReadTags, DropTagged, ChatStep,
         ReadHistory, LookUp, KeywordSearch, VectorSearch, Hydrate, Generate,
         AppendQuestion, AppendAnswer, WriteCache, Enter, End, Stop, Expiry, systemVars
<1>4. QED
  BY <1>1, <1>2, <1>3

\* What was reported only ever grows, so what is fresh stays fresh.
LEMMA ReportedGrows ==
  ASSUME SystemInv, [SystemNext]_systemVars
  PROVE  /\ \A d \in Docs : reported[d] <= reported'[d]
         /\ \A held \in Locals : Fresh(held) => Fresh(held)'
<1>facts. reported \in [Docs -> 0 .. MaxVersion] /\ MaxVersion \in Nat
  BY SystemFacts
<1>1. reported' = reported \/ (pc = "invalidate" /\ reported' = [reported EXCEPT ![job.doc] = job.version])
  BY DEF SystemNext, SubmitUpload, IngestStep, ReadTags, DropTagged, EndIngest, ChatStep,
         ReadHistory, LookUp, KeywordSearch, VectorSearch, Hydrate, Generate,
         AppendQuestion, AppendAnswer, WriteCache, Enter, End, Stop, Expiry, systemVars
<1>2. \A d \in Docs : reported'[d] \in Nat /\ reported[d] <= reported'[d]
  <2>1. CASE reported' = reported
    BY <2>1, <1>facts
  <2>2. CASE pc = "invalidate" /\ reported' = [reported EXCEPT ![job.doc] = job.version]
    <3>1. job.doc \in Docs /\ job.version \in Versions /\ reported[job.doc] <= job.version
      BY <2>2, ReportedAtEnd
    <3>2. QED
      BY <2>2, <3>1, <1>facts DEF Versions
  <2>3. QED
    BY <1>1, <2>1, <2>2
<1>3. ASSUME NEW held \in Locals, Fresh(held) PROVE Fresh(held)'
  <2>1. \A d \in Docs : held.floor[d] \in Int /\ reported[d] \in Int
    BY <1>facts DEF Locals
  <2>2. QED
    BY <1>2, <1>3, <2>1 DEF Fresh
<1>4. QED
  BY <1>2, <1>3

\* Every step of a request keeps what it holds fresh, and so does every other.
LEMMA ChatInvStep ==
  ASSUME SystemInv, [SystemNext]_systemVars
  PROVE  ChatInv' /\ stage' \in [Chats -> Stages] /\ local' \in [Chats -> Locals]
<1>facts. stage \in [Chats -> Stages] /\ local \in [Chats -> Locals] /\ ChatInv
  BY SystemFacts DEF SystemInv
<1>1. CASE UNCHANGED <<stage, local>>
  <2>1. \A c \in Chats : Fresh(local[c])'
    BY <1>1, <1>facts, ReportedGrows DEF ChatInv, Fresh
  <2>2. QED
    BY <1>1, <1>facts, <2>1 DEF ChatInv
<1>2. ASSUME NEW c \in Chats, ChatStep(c)
      PROVE  ChatInv' /\ stage' \in [Chats -> Stages] /\ local' \in [Chats -> Locals]
  <2>1. PICK to, now : Moves(c, to, now)
    BY <1>2, ChatMoves
  <2>2. /\ stage' = [stage EXCEPT ![c] = to] /\ local' = [local EXCEPT ![c] = now]
        /\ reported' = reported
    BY <2>1 DEF Moves, Enter
  <2>3. to \in Stages /\ now \in Locals /\ Fresh(now) /\ (to = "write" => now.cacheable)
    BY <2>1 DEF Moves
  <2>4. stage' \in [Chats -> Stages] /\ local' \in [Chats -> Locals]
    BY <1>facts, <2>2, <2>3
  <2>5. ASSUME NEW x \in Chats
        PROVE  Fresh(local'[x]) /\ (stage'[x] = "write" => local'[x].cacheable)
    BY <1>facts, <2>2, <2>3 DEF ChatInv
  <2>6. ChatInv'
    BY <2>2, <2>5 DEF ChatInv, Fresh
  <2>7. QED
    BY <2>4, <2>6
<1>3. CASE Stop
  <2>1. /\ reported' = reported /\ local' = [c \in Chats |-> Nothing]
        /\ stage' = [c \in Chats |->
             IF stage[c] \in Ended \cup {"outside"} THEN stage[c] ELSE "failed"]
    BY <1>3 DEF Stop
  <2>2. Nothing \in Locals /\ Fresh(Nothing)
    BY NothingIsFresh
  <2>3. stage' \in [Chats -> Stages] /\ local' \in [Chats -> Locals]
    BY <1>facts, <2>1, <2>2 DEF Stages, Ended
  <2>4. ASSUME NEW x \in Chats
        PROVE  Fresh(local'[x]) /\ stage'[x] # "write"
    BY <2>1, <2>2 DEF Ended
  <2>5. ChatInv'
    BY <2>1, <2>4 DEF ChatInv, Fresh
  <2>6. QED
    BY <2>3, <2>5
<1>4. (\E c \in Chats : ChatStep(c)) \/ Stop \/ UNCHANGED <<stage, local>>
  BY DEF SystemNext, SubmitUpload, IngestStep, ReadTags, DropTagged, EndIngest, Expiry,
         chatVars, systemVars
<1>5. QED
  BY <1>1, <1>2, <1>3, <1>4

-----------------------------------------------------------------------------
(* The response cache *)

\* Only the write of an answer, an invalidation and the expiry of an entry
\* touch the cache or what the invalidation holds.
CacheKept == UNCHANGED <<cacheVars, members, evicted, raced>>

\* The steps that touch them, and how the invalidation ends.
LEMMA CacheSteps ==
  ASSUME SystemInv, [SystemNext]_systemVars
  PROVE  \/ CacheKept /\ (members = {} \/ (pc' = pc /\ job' = job))
         \/ \E c \in Chats : WriteCache(c)
         \/ ReadTags \/ DropTagged \/ Expiry
         \/ UNCHANGED <<cacheVars, evicted, raced>> /\ members' = {}
<1>1. members # {} => pc = "invalidate"
  BY DEF SystemInv, EntriesInv
<1>2. SubmitUpload => CacheKept /\ members = {}
  BY <1>1 DEF SubmitUpload, Submit, CacheKept
<1>3. Step /\ pc # "invalidate"
        /\ UNCHANGED <<chatVars, cacheVars, turns, members, reported, evicted, raced>>
        => CacheKept /\ members = {}
  BY <1>1 DEF CacheKept
<1>4. ASSUME NEW c \in Chats, ChatStep(c)
      PROVE  WriteCache(c) \/ (CacheKept /\ pc' = pc /\ job' = job)
  BY <1>4 DEF ChatStep, ReadHistory, LookUp, KeywordSearch, VectorSearch, Hydrate,
              Generate, AppendQuestion, AppendAnswer, Enter, End, CacheKept, vars, workerVars
<1>5. Stop => UNCHANGED <<cacheVars, evicted, raced>> /\ members' = {}
  BY DEF Stop
<1>6. UNCHANGED systemVars => CacheKept /\ pc' = pc /\ job' = job
  BY DEF systemVars, CacheKept, vars, workerVars
<1>7. QED
  BY <1>2, <1>3, <1>4, <1>5, <1>6 DEF SystemNext, IngestStep

\* An answer that is written carries chunks of documents, and comes from a
\* request that read no history.
LEMMA WrittenAnswer ==
  ASSUME SystemInv, NEW c \in Chats, WriteCache(c)
  PROVE  /\ local[c].cites \subseteq Entry /\ local[c].bare = TRUE
         /\ request[c].key \in Fingerprints
         /\ [sources |-> local[c].cites, firstTurn |-> local[c].bare] \in Answer
<1>1. stage[c] = "write"
  BY DEF WriteCache
<1>2. local[c] \in Locals /\ request[c] \in [session: SessionIds, key: Fingerprints]
  BY SystemFacts
<1>3. local[c].cacheable => local[c].bare
  BY DEF SystemInv, ChatInv, Fresh
<1>4. local[c].cacheable
  BY <1>1 DEF SystemInv, ChatInv
<1>5. local[c].cites \subseteq Entry /\ local[c].bare \in BOOLEAN /\ local[c].bare
  BY <1>2, <1>3, <1>4 DEF Locals
<1>6. QED
  BY <1>2, <1>5 DEF Answer

\* The kept part of the cache keeps its types, and a written answer has them.
LEMMA CacheTypes ==
  ASSUME SystemInv, [SystemNext]_systemVars
  PROVE  /\ entries' \in [Fingerprints -> Answer \cup {NoAnswer}]
         /\ tags' \in [Docs -> SUBSET Fingerprints]
         /\ members' \subseteq Fingerprints /\ raced' \subseteq Fingerprints
         /\ evicted' \in [Docs -> 0 .. MaxVersion]
<1>facts. /\ entries \in [Fingerprints -> Answer \cup {NoAnswer}]
          /\ tags \in [Docs -> SUBSET Fingerprints]
          /\ members \subseteq Fingerprints /\ raced \subseteq Fingerprints
          /\ evicted \in [Docs -> 0 .. MaxVersion] /\ MaxVersion \in Nat
  BY SystemFacts
<1>end. pc = "invalidate" => job.doc \in Docs /\ job.version \in 0 .. MaxVersion
  BY ReportedAtEnd, <1>facts DEF Versions
<1>1. CASE UNCHANGED <<cacheVars, evicted, raced>> /\ (members' = {} \/ members' = members)
  BY <1>1, <1>facts DEF cacheVars
<1>2. ASSUME NEW c \in Chats, WriteCache(c)
      PROVE  /\ entries' \in [Fingerprints -> Answer \cup {NoAnswer}]
             /\ tags' \in [Docs -> SUBSET Fingerprints]
             /\ members' \subseteq Fingerprints /\ raced' \subseteq Fingerprints
             /\ evicted' \in [Docs -> 0 .. MaxVersion]
  <2> DEFINE answer == [sources |-> local[c].cites, firstTurn |-> local[c].bare]
             docs == {e.doc : e \in local[c].cites}
  <2>1. answer \in Answer /\ request[c].key \in Fingerprints
    BY <1>2, WrittenAnswer
  <2>2. members' = members /\ evicted' = evicted
    BY <1>2 DEF WriteCache, End, Enter
  <2>3. raced' \subseteq Fingerprints
    BY <1>2, <2>1, <1>facts DEF WriteCache
  <2>4. Set(request[c].key, answer, docs) \/ UNCHANGED cacheVars
    BY <1>2 DEF WriteCache
  <2> HIDE DEF answer, docs
  <2>5. CASE UNCHANGED cacheVars
    BY <2>2, <2>3, <2>5, <1>facts DEF cacheVars
  <2>6. CASE Set(request[c].key, answer, docs)
    <3>1. entries' \in [Fingerprints -> Answer \cup {NoAnswer}]
      BY <2>1, <2>6, <1>facts DEF Set
    <3>2. DOMAIN tags = Docs
      BY <1>facts
    <3>3. tags' \in [Docs -> SUBSET Fingerprints]
      BY <2>1, <2>6, <3>2, <1>facts DEF Set
    <3>4. QED
      BY <2>2, <2>3, <3>1, <3>3, <1>facts
  <2>7. QED
    BY <2>4, <2>5, <2>6
<1>3. CASE ReadTags
  BY <1>3, <1>facts, <1>end DEF ReadTags, EndIngest, cacheVars
<1>4. CASE DropTagged
  <2>1. pc = "invalidate" /\ members' = {}
    BY <1>4 DEF DropTagged, EndIngest
  <2>2. CASE UNCHANGED <<cacheVars, raced, evicted>>
    BY <2>1, <2>2, <1>facts DEF cacheVars
  <2>3. CASE Drop(members, job.doc) /\ raced' = raced \ members
              /\ evicted' = [evicted EXCEPT ![job.doc] = job.version]
    BY <2>1, <2>3, <1>facts, <1>end DEF Drop
  <2>4. QED
    BY <1>4, <2>2, <2>3 DEF DropTagged
<1>5. CASE Expiry
  BY <1>5, <1>facts DEF Expiry, Expire, cacheVars
<1>6. QED
  BY <1>1, <1>2, <1>3, <1>4, <1>5, CacheSteps DEF CacheKept

\* An entry that was not written in a race keeps its tags and stays as new as
\* the last invalidation.
LEMMA CachedStep ==
  ASSUME SystemInv, [SystemNext]_systemVars
  PROVE  EntriesInv'
<1>facts. /\ entries \in [Fingerprints -> Answer \cup {NoAnswer}]
          /\ tags \in [Docs -> SUBSET Fingerprints]
          /\ members \subseteq Fingerprints /\ raced \subseteq Fingerprints
          /\ evicted \in [Docs -> 0 .. MaxVersion] /\ MaxVersion \in Nat
  BY SystemFacts
<1>inv. EntriesInv
  BY DEF SystemInv
<1>end. pc = "invalidate" => job.doc \in Docs
  BY ReportedAtEnd
<1>sources. ASSUME NEW f \in Fingerprints, entries[f] # NoAnswer, NEW e \in entries[f].sources
            PROVE  e.doc \in Docs /\ e.version \in Int
  BY <1>facts, <1>sources DEF Answer, Entry, Versions
<1>1. CASE CacheKept /\ (members = {} \/ (pc' = pc /\ job' = job))
  BY <1>1, <1>inv DEF CacheKept, cacheVars, EntriesInv
<1>2. CASE UNCHANGED <<cacheVars, evicted, raced>> /\ members' = {}
  BY <1>2, <1>inv DEF cacheVars, EntriesInv
<1>3. ASSUME NEW c \in Chats, WriteCache(c) PROVE EntriesInv'
  <2> DEFINE k == request[c].key
             answer == [sources |-> local[c].cites, firstTurn |-> local[c].bare]
             docs == {e.doc : e \in local[c].cites}
  <2>1. /\ local[c].cites \subseteq Entry /\ k \in Fingerprints
        /\ answer \in Answer /\ answer.sources = local[c].cites
    BY <1>3, WrittenAnswer
  <2>2. members' = members /\ evicted' = evicted /\ pc' = pc /\ job' = job
    BY <1>3 DEF WriteCache, End, Enter, vars, workerVars
  <2>3. CASE UNCHANGED <<cacheVars, raced>>
    BY <2>2, <2>3, <1>inv DEF cacheVars, EntriesInv
  <2>4. CASE /\ Set(k, answer, docs)
             /\ raced' = {f \in raced : f # k} \cup {f \in {k} : RacedWrite(c)}
    <3>1. ASSUME NEW f \in Fingerprints \ raced', entries'[f] # NoAnswer,
                 NEW e \in entries'[f].sources
          PROVE  /\ e.version >= evicted[e.doc]
                 /\ f \in tags'[e.doc]
                 /\ (members # {} /\ job.doc = e.doc) => f \in members
      <4>1. CASE f = k
        <5>1. e \in local[c].cites /\ ~RacedWrite(c)
          BY <2>1, <2>4, <3>1, <4>1, <1>facts DEF Set
        <5>2. e.doc \in Docs /\ e.version \in Int /\ evicted[e.doc] \in Int
          BY <2>1, <5>1, <1>facts DEF Entry, Versions
        <5>3. e.version >= evicted[e.doc] /\ ~(members # {} /\ job.doc = e.doc)
          BY <5>1, <5>2 DEF RacedWrite
        <5>4. e.doc \in docs
          BY <5>1
        <5>5. tags'[e.doc] = tags[e.doc] \cup {k}
          BY <2>4, <5>2, <5>4, <1>facts DEF Set
        <5>6. QED
          BY <4>1, <5>3, <5>5
      <4>2. CASE f # k
        <5>1. entries'[f] = entries[f] /\ f \notin raced
          BY <2>4, <3>1, <4>2, <1>facts DEF Set
        <5>2. e.doc \in Docs
          BY <3>1, <5>1, <1>sources
        <5>3. tags[e.doc] \subseteq tags'[e.doc]
          BY <2>4, <5>2, <1>facts DEF Set
        <5>4. QED
          BY <3>1, <5>1, <5>3, <1>inv DEF EntriesInv
      <4>3. QED
        BY <4>1, <4>2
    <3>2. QED
      BY <2>2, <3>1, <1>inv DEF EntriesInv
  <2>5. QED
    BY <1>3, <2>3, <2>4 DEF WriteCache
<1>4. CASE ReadTags
  <2>1. pc = "invalidate" /\ members = {} /\ UNCHANGED <<cacheVars, raced>>
    BY <1>4 DEF ReadTags
  <2>2. CASE members' = tags[job.doc] /\ UNCHANGED <<vars, evicted>>
    BY <2>1, <2>2, <1>inv DEF EntriesInv, cacheVars, vars, workerVars
  <2>3. CASE members' = {} /\ tags[job.doc] = {}
              /\ evicted' = [evicted EXCEPT ![job.doc] = job.version]
    <3>1. ASSUME NEW f \in Fingerprints \ raced, entries[f] # NoAnswer,
                 NEW e \in entries[f].sources
          PROVE  e.doc # job.doc
      BY <2>3, <3>1, <1>inv DEF EntriesInv
    <3>2. QED
      BY <2>1, <2>3, <3>1, <1>inv, <1>facts, <1>sources DEF EntriesInv, cacheVars
  <2>4. CASE members' = {} /\ evicted' = evicted
    BY <2>1, <2>4, <1>inv DEF EntriesInv, cacheVars
  <2>5. QED
    BY <1>4, <2>2, <2>3, <2>4 DEF ReadTags, EndIngest
<1>5. CASE DropTagged
  <2>1. pc = "invalidate" /\ members # {} /\ members' = {}
    BY <1>5 DEF DropTagged, EndIngest
  <2>2. CASE UNCHANGED <<cacheVars, raced, evicted>>
    BY <2>1, <2>2, <1>inv DEF EntriesInv, cacheVars
  <2>3. CASE Drop(members, job.doc) /\ raced' = raced \ members
              /\ evicted' = [evicted EXCEPT ![job.doc] = job.version]
    <3>1. ASSUME NEW f \in Fingerprints \ raced', entries'[f] # NoAnswer,
                 NEW e \in entries'[f].sources
          PROVE  e.version >= evicted'[e.doc] /\ f \in tags'[e.doc]
      <4>1. f \notin members /\ entries'[f] = entries[f] /\ f \notin raced
        BY <2>3, <3>1 DEF Drop
      <4>2. e.doc # job.doc /\ e.version >= evicted[e.doc] /\ f \in tags[e.doc]
        BY <2>1, <3>1, <4>1, <1>inv DEF EntriesInv
      <4>3. e.doc \in Docs
        BY <3>1, <4>1, <1>sources
      <4>4. QED
        BY <2>3, <4>2, <4>3, <1>facts DEF Drop
    <3>2. QED
      BY <2>1, <3>1 DEF EntriesInv
  <2>4. QED
    BY <1>5, <2>2, <2>3 DEF DropTagged
<1>6. CASE Expiry
  <2>1. UNCHANGED <<vars, members, evicted>>
    BY <1>6 DEF Expiry
  <2>2. pc' = pc /\ job' = job /\ members' = members /\ evicted' = evicted
    BY <2>1 DEF vars, workerVars
  <2>3. CASE UNCHANGED <<cacheVars, raced>>
    BY <2>2, <2>3, <1>inv DEF EntriesInv, cacheVars
  <2>4. ASSUME NEW k \in Fingerprints, Expire(k), raced' = raced \ {k}
        PROVE  EntriesInv'
    BY <2>2, <2>4, <1>inv, <1>facts DEF EntriesInv, Expire
  <2>5. QED
    BY <1>6, <2>3, <2>4 DEF Expiry
<1>7. QED
  BY <1>1, <1>2, <1>3, <1>4, <1>5, <1>6, CacheSteps

\* Only an answer of a request that read no history enters the cache.
LEMMA ConversationStep ==
  ASSUME SystemInv, [SystemNext]_systemVars
  PROVE  CacheHoldsNoConversation'
<1>facts. entries \in [Fingerprints -> Answer \cup {NoAnswer}]
  BY SystemFacts
<1>inv. CacheHoldsNoConversation
  BY DEF SystemInv
<1>1. ASSUME \A f \in Fingerprints : entries'[f] = entries[f] \/ entries'[f] = NoAnswer
      PROVE  CacheHoldsNoConversation'
  BY <1>1, <1>inv DEF CacheHoldsNoConversation
<1>2. ASSUME NEW c \in Chats, WriteCache(c) PROVE CacheHoldsNoConversation'
  <2> DEFINE answer == [sources |-> local[c].cites, firstTurn |-> local[c].bare]
  <2>1. answer.firstTurn = TRUE
    BY <1>2, WrittenAnswer
  <2> HIDE DEF answer
  <2>2. entries' = entries \/ entries' = [entries EXCEPT ![request[c].key] = answer]
    BY <1>2 DEF WriteCache, Set, cacheVars, answer
  <2>3. QED
    BY <2>1, <2>2, <1>inv, <1>facts DEF CacheHoldsNoConversation
<1>3. CASE UNCHANGED cacheVars
  BY <1>1, <1>3 DEF cacheVars
<1>4. ReadTags => UNCHANGED cacheVars
  BY DEF ReadTags
<1>5. CASE DropTagged
  BY <1>1, <1>5 DEF DropTagged, Drop, cacheVars
<1>6. CASE Expiry
  BY <1>1, <1>6, <1>facts DEF Expiry, Expire, cacheVars
<1>7. QED
  BY <1>2, <1>3, <1>4, <1>5, <1>6, CacheSteps DEF CacheKept

-----------------------------------------------------------------------------
(* The sessions *)

\* The elements of a history are turns of requests.
LEMMA TurnsAreTurns ==
  ASSUME NEW histories \in [SessionIds -> Seq(Turn)], NEW s \in SessionIds
  PROVE  /\ \A i \in DOMAIN histories[s] :
              /\ histories[s][i] \in [chat: Chats, role: {"user", "assistant"}]
              /\ histories[s][i].chat \in Chats
<1>1. \A i \in DOMAIN histories[s] : histories[s][i] \in Turn
  OBVIOUS
<1>2. QED
  BY <1>1 DEF Turn

\* What append_turn leaves: the turns it keeps, in their order, and the new
\* one at the end.
LEMMA AppendShape ==
  ASSUME turns \in [SessionIds -> Seq(Turn)], NEW s \in SessionIds, NEW t \in Turn,
         AppendTurn(s, t)
  PROVE  /\ turns' \in [SessionIds -> Seq(Turn)]
         /\ \A r \in SessionIds : r # s => turns'[r] = turns[r]
         /\ Len(turns'[s]) \in 1 .. MaxTurns
         /\ turns'[s][Len(turns'[s])] = t
         /\ \E k \in Nat : \A i \in 1 .. Len(turns'[s]) - 1 :
              i + k \in 1 .. Len(turns[s]) /\ turns'[s][i] = turns[s][i + k]
              /\ \A j \in i + k + 1 .. Len(turns[s]) :
                   j - k \in i + 1 .. Len(turns'[s]) /\ turns'[s][j - k] = turns[s][j]
<1> DEFINE old == turns[s]
           list == Append(old, t)
           new == Newest(list, MaxTurns)
<1>1. old \in Seq(Turn) /\ Len(old) \in Nat
  OBVIOUS
<1>2. /\ list \in Seq(Turn) /\ Len(list) = Len(old) + 1
      /\ list[Len(old) + 1] = t
      /\ \A i \in 1 .. Len(old) : list[i] = old[i]
  BY <1>1
<1>3. turns' = [turns EXCEPT ![s] = new]
  BY DEF AppendTurn
<1>4. turns'[s] = new /\ \A r \in SessionIds : r # s => turns'[r] = turns[r]
  BY <1>3
<1> HIDE DEF list
<1>5. PICK k \in 0 .. Len(list) :
        /\ new \in Seq(Turn)
        /\ Len(new) = Len(list) - k
        /\ Len(new) <= MaxTurns
        /\ \A i \in 1 .. Len(list) - k : new[i] = list[i + k]
        /\ Len(list) > 0 => k < Len(list)
  BY <1>2, NewestShape, SessionsAssumption
<1> HIDE DEF new
<1>6. k \in Nat /\ k <= Len(old) /\ Len(new) = Len(old) + 1 - k
  BY <1>1, <1>2, <1>5
<1>7. turns' \in [SessionIds -> Seq(Turn)]
  BY <1>3, <1>5
<1>8. Len(new) \in 1 .. MaxTurns
  BY <1>1, <1>5, <1>6, SessionsAssumption
<1>9. new[Len(new)] = t
  <2>1. Len(new) \in 1 .. Len(list) - k /\ Len(new) + k = Len(old) + 1
    BY <1>1, <1>2, <1>6
  <2>2. QED
    BY <2>1, <1>2, <1>5
<1>10. ASSUME NEW i \in 1 .. Len(new) - 1
       PROVE  /\ i + k \in 1 .. Len(old) /\ new[i] = old[i + k]
              /\ \A j \in i + k + 1 .. Len(old) :
                   j - k \in i + 1 .. Len(new) /\ new[j - k] = old[j]
  <2>1. i \in 1 .. Len(list) - k /\ i + k \in 1 .. Len(old)
    BY <1>1, <1>2, <1>6
  <2>2. new[i] = old[i + k]
    BY <2>1, <1>2, <1>5
  <2>3. ASSUME NEW j \in i + k + 1 .. Len(old)
        PROVE  j - k \in i + 1 .. Len(new) /\ new[j - k] = old[j]
    <3>1. /\ j - k \in i + 1 .. Len(new) /\ j - k \in 1 .. Len(list) - k
          /\ (j - k) + k = j /\ j \in 1 .. Len(old)
      BY <1>1, <1>2, <1>6
    <3>2. QED
      BY <3>1, <1>2, <1>5
  <2>4. QED
    BY <2>1, <2>2, <2>3
<1>11. QED
  BY <1>4, <1>6, <1>7, <1>8, <1>9, <1>10

\* Appending a turn of a request keeps the session settled, if the request is
\* then where its turn may stand, and settles its question if it is the answer.
LEMMA SettledAppend ==
  ASSUME turns \in [SessionIds -> Seq(Turn)], NEW s \in SessionIds, NEW t \in Turn,
         AppendTurn(s, t), NEW at,
         \A i \in DOMAIN turns[s] :
           LET c == turns[s][i].chat
           IN  /\ request[c].session = s
               /\ at[c] \in {"assistant", "write", "answered", "failed"}
               /\ (turns[s][i] = Question(c) /\ at[c] \in {"write", "answered"} /\ t # Reply(c)) =>
                    \E j \in DOMAIN turns[s] : j > i /\ turns[s][j] = Reply(c),
         request[t.chat].session = s,
         at[t.chat] \in {"assistant", "write", "answered", "failed"},
         t = Question(t.chat) => at[t.chat] \notin {"write", "answered"}
  PROVE  Settled(turns'[s], at, s)
<1> DEFINE old == turns[s]
           new == turns'[s]
<1>1. /\ turns' \in [SessionIds -> Seq(Turn)]
      /\ Len(new) \in 1 .. MaxTurns
      /\ new[Len(new)] = t
  BY AppendShape
<1>2. PICK k \in Nat : \A i \in 1 .. Len(new) - 1 :
        i + k \in 1 .. Len(old) /\ new[i] = old[i + k]
        /\ \A j \in i + k + 1 .. Len(old) :
             j - k \in i + 1 .. Len(new) /\ new[j - k] = old[j]
  BY AppendShape
<1>3. DOMAIN old = 1 .. Len(old) /\ DOMAIN new = 1 .. Len(new) /\ Len(old) \in Nat /\ Len(new) \in Nat
  BY <1>1
<1> HIDE DEF old, new
<1>4. ASSUME NEW i \in DOMAIN new
      PROVE  LET c == new[i].chat
             IN  /\ request[c].session = s
                 /\ at[c] \in {"assistant", "write", "answered", "failed"}
                 /\ (new[i] = Question(c) /\ at[c] \in {"write", "answered"}) =>
                      \E j \in DOMAIN new : j > i /\ new[j] = Reply(c)
  <2> DEFINE c == new[i].chat
  <2>1. CASE i = Len(new)
    BY <2>1, <1>1
  <2>2. CASE i \in 1 .. Len(new) - 1
    <3>1. i + k \in DOMAIN old /\ new[i] = old[i + k]
      BY <2>2, <1>2, <1>3
    <3>2. /\ request[c].session = s
          /\ at[c] \in {"assistant", "write", "answered", "failed"}
          /\ (new[i] = Question(c) /\ at[c] \in {"write", "answered"} /\ t # Reply(c)) =>
               \E j \in DOMAIN old : j > i + k /\ old[j] = Reply(c)
      BY <3>1 DEF old
    <3>3. ASSUME NEW j \in DOMAIN old, j > i + k, old[j] = Reply(c)
          PROVE  \E m \in DOMAIN new : m > i /\ new[m] = Reply(c)
      <4>1. j \in i + k + 1 .. Len(old)
        BY <3>3, <1>3
      <4>2. j - k \in i + 1 .. Len(new) /\ new[j - k] = old[j]
        BY <4>1, <2>2, <1>2
      <4>3. j - k \in DOMAIN new /\ j - k > i
        BY <4>2, <1>3
      <4>4. QED
        BY <4>2, <4>3, <3>3
    <3>4. t = Reply(c) => Len(new) \in DOMAIN new /\ Len(new) > i /\ new[Len(new)] = Reply(c)
      BY <2>2, <1>1, <1>3
    <3>5. QED
      BY <3>2, <3>3, <3>4
  <2>3. QED
    BY <2>1, <2>2, <1>3
<1>5. QED
  BY <1>4 DEF Settled, new

\* How a request moves on and what it appends meanwhile.
Progress(c, to) ==
  /\ stage' = [stage EXCEPT ![c] = to] /\ request' = request
  /\ \/ /\ turns' = turns
        /\ \/ stage[c] \notin {"assistant", "write", "answered", "failed"}
           \/ stage[c] = "assistant" /\ to = "failed"
           \/ stage[c] = "write" /\ to = "answered"
     \/ /\ AppendTurn(request[c].session, Question(c))
        /\ stage[c] = "user" /\ to \in {"assistant", "failed"}
     \/ /\ AppendTurn(request[c].session, Reply(c))
        /\ stage[c] = "assistant" /\ to \in {"write", "answered", "failed"}

\* Every step of a request is such progress.
LEMMA ChatProgress ==
  ASSUME NEW c \in Chats, ChatStep(c)
  PROVE  \E to : Progress(c, to)
<1>1. ASSUME turns' = turns, stage[c] \notin {"assistant", "write", "answered", "failed"},
             NEW to, NEW now, Enter(c, to, now)
      PROVE  \E x : Progress(c, x)
  BY <1>1 DEF Enter, Progress
<1>2. CASE ReadHistory(c) \/ LookUp(c) \/ KeywordSearch(c) \/ VectorSearch(c) \/ Hydrate(c) \/ Generate(c)
  <2>1. turns' = turns /\ stage[c] \notin {"assistant", "write", "answered", "failed"}
    BY <1>2 DEF ReadHistory, LookUp, KeywordSearch, VectorSearch, Hydrate, Generate
  <2>2. \E to, now : Enter(c, to, now)
    BY <1>2 DEF ReadHistory, LookUp, KeywordSearch, VectorSearch, Hydrate, Generate, End
  <2>3. QED
    BY <1>1, <2>1, <2>2
<1>3. CASE AppendQuestion(c)
  <2>1. CASE turns' = turns
    BY <1>1, <1>3, <2>1 DEF AppendQuestion, End
  <2>2. CASE AppendTurn(request[c].session, Question(c)) /\ Enter(c, "assistant", local[c])
    <3>1. Progress(c, "assistant")
      BY <1>3, <2>2 DEF AppendQuestion, Enter, Progress
    <3>2. QED
      BY <3>1
  <2>3. CASE AppendTurn(request[c].session, Question(c)) /\ End(c, "failed")
    <3>1. Progress(c, "failed")
      BY <1>3, <2>3 DEF AppendQuestion, End, Enter, Progress
    <3>2. QED
      BY <3>1
  <2>4. QED
    BY <1>3, <2>1, <2>2, <2>3 DEF AppendQuestion
<1>4. CASE AppendAnswer(c)
  <2>1. ASSUME NEW to \in {"write", "answered", "failed"}, NEW now, Enter(c, to, now),
               AppendTurn(request[c].session, Reply(c))
        PROVE  \E x : Progress(c, x)
    <3>1. Progress(c, to)
      BY <1>4, <2>1 DEF AppendAnswer, Enter, Progress
    <3>2. QED
      BY <3>1
  <2>2. CASE turns' = turns /\ End(c, "failed")
    <3>1. Progress(c, "failed")
      BY <1>4, <2>2 DEF AppendAnswer, End, Enter, Progress
    <3>2. QED
      BY <3>1
  <2>3. QED
    BY <1>4, <2>1, <2>2 DEF AppendAnswer, End
<1>5. CASE WriteCache(c)
  <2>1. Progress(c, "answered")
    BY <1>5 DEF WriteCache, End, Enter, Progress
  <2>2. QED
    BY <2>1
<1>6. QED
  BY <1>2, <1>3, <1>4, <1>5 DEF ChatStep

\* Every step keeps every session settled.
LEMMA TurnsStep ==
  ASSUME SystemInv, [SystemNext]_systemVars
  PROVE  TurnsInv' /\ \A s \in SessionIds : Len(turns'[s]) <= MaxTurns
<1>facts. /\ stage \in [Chats -> Stages]
          /\ request \in [Chats -> [session: SessionIds, key: Fingerprints]]
          /\ turns \in [SessionIds -> Seq(Turn)]
          /\ \A s \in SessionIds : Settled(turns[s], stage, s)
          /\ \A s \in SessionIds : Len(turns[s]) <= MaxTurns
  BY SystemFacts DEF SystemInv, TurnsInv, SystemTypeOK
<1>1. CASE UNCHANGED <<stage, request, turns>>
  <2>1. \A s \in SessionIds : Settled(turns[s], stage, s)'
    BY <1>1, <1>facts DEF Settled, Question, Reply
  <2>2. QED
    BY <1>1, <1>facts, <2>1 DEF TurnsInv
<1>2. ASSUME NEW c \in Chats, ChatStep(c)
      PROVE  TurnsInv' /\ \A s \in SessionIds : Len(turns'[s]) <= MaxTurns
  <2> DEFINE s == request[c].session
  <2>1. PICK to : Progress(c, to)
    BY <1>2, ChatProgress
  <2>2. stage' = [stage EXCEPT ![c] = to] /\ request' = request /\ s \in SessionIds
    BY <2>1, <1>facts DEF Progress
  <2>3. /\ stage'[c] = to
        /\ \A x \in Chats : x # c => stage'[x] = stage[x]
    BY <2>2, <1>facts
  <2>4. \A r \in SessionIds : \A i \in DOMAIN turns[r] : turns[r][i].chat \in Chats
    BY <1>facts, TurnsAreTurns
  <2>5. ASSUME NEW r \in SessionIds, r # s
        PROVE  Settled(turns[r], stage', r)
    <3>1. \A i \in DOMAIN turns[r] : turns[r][i].chat # c
      BY <1>facts, <2>5 DEF Settled
    <3>2. QED
      BY <3>1, <2>3, <2>4, <2>5, <1>facts DEF Settled
  <2>6. CASE /\ turns' = turns
             /\ \/ stage[c] \notin {"assistant", "write", "answered", "failed"}
                \/ stage[c] = "assistant" /\ to = "failed"
                \/ stage[c] = "write" /\ to = "answered"
    <3>1. Settled(turns[s], stage', s)
      <4> SUFFICES ASSUME NEW i \in DOMAIN turns[s]
                   PROVE  LET x == turns[s][i].chat
                          IN  /\ request[x].session = s
                              /\ stage'[x] \in {"assistant", "write", "answered", "failed"}
                              /\ (turns[s][i] = Question(x) /\ stage'[x] \in {"write", "answered"}) =>
                                   \E j \in DOMAIN turns[s] : j > i /\ turns[s][j] = Reply(x)
        BY DEF Settled
      <4> DEFINE x == turns[s][i].chat
      <4>1. /\ x \in Chats /\ request[x].session = s
            /\ stage[x] \in {"assistant", "write", "answered", "failed"}
            /\ (turns[s][i] = Question(x) /\ stage[x] \in {"write", "answered"}) =>
                 \E j \in DOMAIN turns[s] : j > i /\ turns[s][j] = Reply(x)
        BY <1>facts, <2>2, <2>4 DEF Settled
      <4> HIDE DEF x
      <4>2. CASE x # c
        BY <4>1, <4>2, <2>3 DEF x
      <4>3. CASE x = c
        BY <4>1, <4>3, <2>3, <2>6 DEF x
      <4>4. QED
        BY <4>2, <4>3
    <3>2. \A r \in SessionIds : Settled(turns[r], stage', r)
      BY <3>1, <2>5
    <3>3. QED
      BY <3>2, <2>2, <2>6, <1>facts DEF TurnsInv, Settled, Question, Reply
  <2>7. ASSUME NEW t \in {Question(c), Reply(c)}, AppendTurn(s, t),
               t = Question(c) => stage[c] = "user" /\ to \in {"assistant", "failed"},
               t = Reply(c) => stage[c] = "assistant" /\ to \in {"write", "answered", "failed"}
        PROVE  TurnsInv' /\ \A r \in SessionIds : Len(turns'[r]) <= MaxTurns
    <3>1. t \in Turn /\ t.chat = c
      BY <2>7 DEF Turn, Question, Reply
    <3>2. ASSUME NEW i \in DOMAIN turns[s]
          PROVE  LET x == turns[s][i].chat
                 IN  /\ request[x].session = s
                     /\ stage'[x] \in {"assistant", "write", "answered", "failed"}
                     /\ (turns[s][i] = Question(x) /\ stage'[x] \in {"write", "answered"} /\ t # Reply(x)) =>
                          \E j \in DOMAIN turns[s] : j > i /\ turns[s][j] = Reply(x)
      <4> DEFINE x == turns[s][i].chat
      <4>1. /\ x \in Chats /\ request[x].session = s
            /\ stage[x] \in {"assistant", "write", "answered", "failed"}
            /\ (turns[s][i] = Question(x) /\ stage[x] \in {"write", "answered"}) =>
                 \E j \in DOMAIN turns[s] : j > i /\ turns[s][j] = Reply(x)
        BY <1>facts, <2>2, <2>4 DEF Settled
      <4> HIDE DEF x
      <4>2. CASE x # c
        BY <4>1, <4>2, <2>3 DEF x
      <4>3. CASE x = c
        BY <4>1, <4>3, <2>3, <2>7 DEF x
      <4>4. QED
        BY <4>2, <4>3
    <3>3. t = Question(c) => to \notin {"write", "answered"}
      BY <2>7
    <3>4. to \in {"assistant", "write", "answered", "failed"}
      BY <2>7
    <3>5. request[c].session = s
      BY DEF s
    <3>6. Settled(turns'[s], stage', s)
      <4> DEFINE at == stage'
      <4>1. \A i \in DOMAIN turns[s] :
              LET x == turns[s][i].chat
              IN  /\ request[x].session = s
                  /\ at[x] \in {"assistant", "write", "answered", "failed"}
                  /\ (turns[s][i] = Question(x) /\ at[x] \in {"write", "answered"} /\ t # Reply(x)) =>
                       \E j \in DOMAIN turns[s] : j > i /\ turns[s][j] = Reply(x)
        BY <3>2
      <4>2. at[t.chat] \in {"assistant", "write", "answered", "failed"}
        BY <3>1, <3>4, <2>3
      <4>3. t = Question(t.chat) => at[t.chat] \notin {"write", "answered"}
        BY <3>1, <3>3, <2>3
      <4>4. request[t.chat].session = s
        BY <3>1, <3>5
      <4> HIDE DEF at
      <4>5. Settled(turns'[s], at, s)
        BY <4>1, <4>2, <4>3, <4>4, <3>1, <2>2, <2>7, <1>facts, SettledAppend
      <4>6. QED
        BY <4>5 DEF at
    <3>7. /\ turns' \in [SessionIds -> Seq(Turn)]
          /\ \A r \in SessionIds : r # s => turns'[r] = turns[r]
          /\ Len(turns'[s]) \in 1 .. MaxTurns
      BY <3>1, <2>2, <2>7, <1>facts, AppendShape
    <3>8. \A r \in SessionIds : Settled(turns'[r], stage', r)
      BY <3>6, <3>7, <2>5
    <3>9. \A r \in SessionIds : Len(turns'[r]) <= MaxTurns
      <4>1. Len(turns'[s]) <= MaxTurns
        BY <3>7, SessionsAssumption
      <4>2. \A r \in SessionIds : r # s => Len(turns'[r]) <= MaxTurns
        BY <3>7, <1>facts
      <4>3. QED
        BY <4>1, <4>2
    <3>10. QED
      BY <3>7, <3>8, <3>9, <2>2 DEF TurnsInv, Settled, Question, Reply
  <2>8. Question(c) # Reply(c)
    BY DEF Question, Reply
  <2>9. QED
    BY <2>1, <2>6, <2>7, <2>8 DEF Progress, s
<1>3. CASE Stop
  <2>1. /\ turns' = turns /\ request' = request
        /\ stage' = [x \in Chats |->
             IF stage[x] \in Ended \cup {"outside"} THEN stage[x] ELSE "failed"]
    BY <1>3 DEF Stop
  <2>2. \A r \in SessionIds : \A i \in DOMAIN turns[r] : turns[r][i].chat \in Chats
    BY <1>facts, TurnsAreTurns
  <2>3. \A x \in Chats : stage[x] \in {"assistant", "write", "answered", "failed"} =>
          /\ stage'[x] \in {"answered", "failed"}
          /\ stage'[x] = "answered" => stage[x] = "answered"
    BY <2>1 DEF Ended
  <2>4. \A r \in SessionIds : Settled(turns[r], stage', r)
    BY <2>2, <2>3, <1>facts DEF Settled
  <2>5. QED
    BY <2>1, <2>4, <1>facts DEF TurnsInv, Settled, Question, Reply
<1>4. CASE Expiry
  <2>1. stage' = stage /\ request' = request
    BY <1>4 DEF Expiry, chatVars
  <2>2. CASE turns' = turns
    BY <1>1, <2>1, <2>2
  <2>3. ASSUME NEW s \in SessionIds, turns' = [turns EXCEPT ![s] = <<>>]
        PROVE  TurnsInv' /\ \A r \in SessionIds : Len(turns'[r]) <= MaxTurns
    <3>1. <<>> \in Seq(Turn) /\ Len(<<>>) = 0 /\ Settled(<<>>, stage, s)
      BY DEF Settled
    <3>2. turns' \in [SessionIds -> Seq(Turn)]
      BY <3>1, <2>3, <1>facts
    <3>3. \A r \in SessionIds : Settled(turns'[r], stage, r)
      BY <3>1, <2>3, <1>facts
    <3>4. \A r \in SessionIds : Len(turns'[r]) <= MaxTurns
      <4> TAKE r \in SessionIds
      <4>1. turns'[r] = <<>> \/ turns'[r] = turns[r]
        BY <2>3, <1>facts
      <4>2. QED
        BY <4>1, <3>1, <1>facts, SessionsAssumption
    <3>5. QED
      BY <3>2, <3>3, <3>4, <2>1 DEF TurnsInv, Settled, Question, Reply
  <2>4. QED
    BY <1>4, <2>2, <2>3 DEF Expiry, ExpireSession
<1>5. \/ \E c \in Chats : ChatStep(c)
      \/ Stop \/ Expiry \/ UNCHANGED <<stage, request, turns>>
  BY DEF SystemNext, SubmitUpload, IngestStep, ReadTags, DropTagged, EndIngest,
         chatVars, systemVars
<1>6. QED
  BY <1>1, <1>2, <1>3, <1>4, <1>5

-----------------------------------------------------------------------------
(* The inductive invariant *)

\* The requests never change.
LEMMA RequestsKept ==
  ASSUME [SystemNext]_systemVars
  PROVE  request' = request
  BY DEF SystemNext, SubmitUpload, IngestStep, ReadTags, DropTagged, EndIngest, ChatStep,
         ReadHistory, LookUp, KeywordSearch, VectorSearch, Hydrate, Generate,
         AppendQuestion, AppendAnswer, WriteCache, Enter, End, Stop, Expiry, chatVars, systemVars

\* The types that the turns have in SystemTypeOK follow from those they have
\* as sequences.
LEMMA TurnTypes ==
  ASSUME TurnsInv
  PROVE  \A s \in SessionIds : \A i \in DOMAIN turns[s] :
           turns[s][i] \in [chat: Chats, role: {"user", "assistant"}]
  BY TurnsAreTurns DEF TurnsInv

\* The invariant holds before the first upload and the first request.
LEMMA InitSystemInv == SystemInit => SystemInv
<1> SUFFICES ASSUME SystemInit PROVE SystemInv
  OBVIOUS
<1>1. IngestionInv /\ TypeOK /\ MaxVersion \in Nat
  BY InitIngestionInv, StoresAssumption DEF SystemInit, IngestionInv
<1>2. /\ chunks = {} /\ members = {} /\ raced = {}
      /\ entries = [f \in Fingerprints |-> NoAnswer] /\ tags = [d \in Docs |-> {}]
      /\ turns = [s \in SessionIds |-> <<>>]
      /\ stage = [c \in Chats |-> "outside"] /\ local = [c \in Chats |-> Nothing]
      /\ request \in [Chats -> [session: SessionIds, key: Fingerprints]]
      /\ reported = [d \in Docs |-> 0] /\ evicted = [d \in Docs |-> 0]
  BY DEF SystemInit, Init, StoresInit, CacheInit, SessionsInit
<1>3. Nothing \in Locals /\ Fresh(Nothing)
  BY <1>1, <1>2 DEF Nothing, Locals, Fresh
<1>4. TurnsInv /\ \A s \in SessionIds : Len(turns[s]) <= MaxTurns
  <2>1. <<>> \in Seq(Turn) /\ Len(<<>>) = 0 /\ DOMAIN <<>> = {}
    OBVIOUS
  <2>2. QED
    BY <2>1, <1>2, SessionsAssumption DEF TurnsInv, Settled
<1>5. SystemTypeOK
  <2>1. stage \in [Chats -> Stages] /\ local \in [Chats -> Locals]
    BY <1>2, <1>3 DEF Stages
  <2>2. {reported, evicted} \subseteq [Docs -> 0 .. MaxVersion]
    BY <1>1, <1>2
  <2>3. /\ entries \in [Fingerprints -> Answer \cup {NoAnswer}]
        /\ tags \in [Docs -> SUBSET Fingerprints]
    BY <1>2
  <2>4. QED
    BY <1>1, <1>2, <1>4, <2>1, <2>2, <2>3, TurnTypes DEF SystemTypeOK
<1>6. ReportedInv /\ ChatInv /\ EntriesInv /\ CacheHoldsNoConversation
  BY <1>2, <1>3 DEF ReportedInv, ChatInv, EntriesInv, CacheHoldsNoConversation
<1>7. QED
  BY <1>1, <1>4, <1>5, <1>6 DEF SystemInv

\* Every step of the system keeps it.
LEMMA StepSystemInv == SystemInv /\ [SystemNext]_systemVars => SystemInv'
<1> SUFFICES ASSUME SystemInv, [SystemNext]_systemVars PROVE SystemInv'
  OBVIOUS
<1>1. IngestionInv' /\ TypeOK'
  BY SystemStepIsIngestStep, StepIngestionInv DEF SystemInv, IngestionInv
<1>2. ReportedInv' /\ ChatInv' /\ EntriesInv' /\ CacheHoldsNoConversation'
  BY ReportedStep, ChatInvStep, CachedStep, ConversationStep
<1>3. TurnsInv' /\ \A s \in SessionIds : Len(turns'[s]) <= MaxTurns
  BY TurnsStep
<1>4. reported' \in [Docs -> 0 .. MaxVersion]
  <2>1. reported' = reported \/ (pc = "invalidate" /\ EndIngest)
    BY DEF SystemNext, SubmitUpload, IngestStep, ReadTags, DropTagged, ChatStep,
           ReadHistory, LookUp, KeywordSearch, VectorSearch, Hydrate, Generate,
           AppendQuestion, AppendAnswer, WriteCache, Enter, End, Stop, Expiry, systemVars
  <2>2. reported \in [Docs -> 0 .. MaxVersion] /\ MaxVersion \in Nat
    BY SystemFacts
  <2>3. pc = "invalidate" => job.doc \in Docs /\ job.version \in 0 .. MaxVersion
    BY <2>2, ReportedAtEnd DEF Versions
  <2>4. QED
    BY <2>1, <2>2, <2>3 DEF EndIngest
<1>5. (\A s \in SessionIds : \A i \in DOMAIN turns[s] :
         turns[s][i] \in [chat: Chats, role: {"user", "assistant"}])'
  BY <1>3, TurnsAreTurns DEF TurnsInv
<1>6. SystemTypeOK'
  <2>1. request' \in [Chats -> [session: SessionIds, key: Fingerprints]]
    BY RequestsKept, SystemFacts
  <2>2. stage' \in [Chats -> Stages] /\ local' \in [Chats -> Locals]
    BY ChatInvStep
  <2>3. QED
    BY <1>1, <1>3, <1>4, <1>5, <2>1, <2>2, CacheTypes DEF SystemTypeOK
<1>7. QED
  BY <1>1, <1>2, <1>3, <1>6 DEF SystemInv

-----------------------------------------------------------------------------
(* Retrieval while ingests fail *)

\* What a function makes of a finite set is finite.
LEMMA ImagesAreFinite ==
  ASSUME NEW set, IsFiniteSet(set), NEW f, f = [x \in set |-> f[x]]
  PROVE  IsFiniteSet({f[x] : x \in set})
<1>1. f \in Surjection(set, {f[x] : x \in set})
  BY DEF Surjection
<1>2. QED
  BY <1>1, FS_Surjection

\* A text has finitely many chunks.
LEMMA ChunksAreFinite ==
  ASSUME NEW d, NEW v, NEW t \in Texts
  PROVE  IsFiniteSet(ChunksOf(d, v, t))
<1> DEFINE places == 0 .. ChunkCount[t] - 1
           f == [i \in places |-> [doc |-> d, version |-> v, seq |-> i, text |-> t]]
<1>1. IsFiniteSet(places)
  BY StoresAssumption, FS_Interval
<1>2. f = [i \in places |-> f[i]]
  OBVIOUS
<1>3. ChunksOf(d, v, t) = {f[i] : i \in places}
  BY DEF ChunksOf
<1> HIDE DEF f, places
<1>4. QED
  BY <1>1, <1>2, <1>3, ImagesAreFinite

\* The points change by what a call of the vector store adds or deletes.
LEMMA PointsChange ==
  ASSUME [Next]_vars
  PROVE  \/ points' \subseteq points
         \/ pc = "upsertPoints" /\ UpsertPoints(job.fetched, job.text)
<1>1. \A d, v : DeletePoints(d, v) => points' \subseteq points
  BY DEF DeletePoints, Without
<1>2. UNCHANGED storeVars => points' \subseteq points
  BY DEF storeVars
<1>3. CASE Step
  <2>1. CASE IndexPoints
    BY <1>2, <2>1 DEF IndexPoints, Unapplied
  <2>2. CASE ClearPoints \/ UndoPoints \/ SweepPoints
    BY <1>1, <1>2, <2>2 DEF ClearPoints, UndoPoints, SweepPoints, Unapplied
  <2>3. CASE ClearPostings \/ IndexPostings \/ UndoPostings \/ SweepPostings
    BY <1>2, <2>3 DEF ClearPostings, IndexPostings, UndoPostings, SweepPostings,
                      RemovePostings, IndexChunks, Unapplied
  <2>4. CASE StoreChunks \/ UndoChunks \/ SweepChunks
    BY <1>2, <2>4 DEF StoreChunks, UndoChunks, SweepChunks, UpsertDocument, DeleteVersion, Unapplied
  <2>5. CASE ChunkText \/ EmbedPassages \/ FetchChunks \/ SweepCheck \/ Invalidate
    BY <1>2, <2>5 DEF ChunkText, EmbedPassages, FetchChunks, SweepCheck, Invalidate
  <2>6. QED
    BY <1>3, <2>1, <2>2, <2>3, <2>4, <2>5 DEF Step
<1>4. CASE (\E d \in Docs, t \in Texts : Submit(d, t)) \/ Crash \/ UNCHANGED vars
  BY <1>2, <1>4 DEF Submit, Crash, vars
<1>5. QED
  BY <1>3, <1>4 DEF Next

\* A collection stays finite.
LEMMA PointsStayFinite ==
  ASSUME IngestionInv, IsFiniteSet(points), [Next]_vars
  PROVE  IsFiniteSet(points')
<1>1. CASE points' \subseteq points
  BY <1>1, FS_Subset
<1>2. CASE pc = "upsertPoints" /\ UpsertPoints(job.fetched, job.text)
  <2>1. job \in Job
    BY <1>2, WorkerHasJob DEF IngestionInv
  <2>2. IsFiniteSet(job.fetched)
    BY <1>2, <2>1, ChunksAreFinite DEF IngestionInv, WriteInv, Writing, Job
  <2> DEFINE f == [e \in job.fetched |-> [e EXCEPT !.text = job.text]]
             added == {f[e] : e \in job.fetched}
  <2>3. points' \subseteq points \cup added
    BY <1>2 DEF UpsertPoints, Overwrite
  <2>4. IsFiniteSet(added)
    <3>1. f = [e \in job.fetched |-> f[e]]
      OBVIOUS
    <3> HIDE DEF f
    <3>2. QED
      BY <2>2, <3>1, ImagesAreFinite
  <2> HIDE DEF added
  <2>5. IsFiniteSet(points \cup added)
    BY <2>4, FS_Union
  <2>6. QED
    BY <2>3, <2>5, FS_Subset
<1>3. QED
  BY <1>1, <1>2, PointsChange

\* A search that cuts nothing off finds all there is.
LEMMA AllAreFound ==
  ASSUME NEW set, IsFiniteSet(set), NEW n \in Nat, Cardinality(set) <= n,
         NEW best \in BestOf(n, set)
  PROVE  best = set
<1>1. Cardinality(set) \in Nat
  BY FS_CardinalityType
<1>2. Min({n, Cardinality(set)}) = Cardinality(set)
  BY <1>1 DEF Min
<1>3. best \subseteq set /\ Cardinality(best) = Cardinality(set)
  BY <1>2 DEF BestOf
<1>4. QED
  BY <1>3, FS_Subset

\* A request comes to hydrate its hits by a search of the vectors alone.
LEMMA HydratesAfterSearch ==
  ASSUME SystemInv, NEW x \in Chats, ChatStep(x), ~VectorSearch(x)
  PROVE  stage'[x] # "hydrate"
<1>1. stage \in [Chats -> Stages]
  BY SystemFacts
<1>2. \A to, now : Enter(x, to, now) => stage'[x] = to
  BY <1>1 DEF Enter
<1>3. \A to : End(x, to) => stage'[x] = to
  BY <1>2 DEF End
<1>4. CASE ReadHistory(x)
  BY <1>2, <1>3, <1>4 DEF ReadHistory
<1>5. CASE LookUp(x)
  BY <1>2, <1>5 DEF LookUp
<1>6. CASE KeywordSearch(x)
  BY <1>2, <1>3, <1>6 DEF KeywordSearch
<1>7. CASE Hydrate(x)
  BY <1>2, <1>3, <1>7 DEF Hydrate
<1>8. CASE Generate(x)
  BY <1>2, <1>3, <1>8 DEF Generate
<1>9. CASE AppendQuestion(x)
  BY <1>2, <1>3, <1>9 DEF AppendQuestion
<1>10. CASE AppendAnswer(x)
  BY <1>2, <1>3, <1>10 DEF AppendAnswer
<1>11. CASE WriteCache(x)
  BY <1>3, <1>11 DEF WriteCache
<1>12. QED
  BY <1>4, <1>5, <1>6, <1>7, <1>8, <1>9, <1>10, <1>11 DEF ChatStep

\* Every chunk of a published document is a point, and its search finds it.
LEMMA SearchFindsPublished ==
  ASSUME SystemInv, FoundInv, NothingCutOff, NEW x \in Chats, VectorSearch(x),
         stage'[x] = "hydrate",
         NEW p \in local'[x].promised, NEW e \in ChunksOf(p.doc, p.version, p.text)
  PROVE  Id(e) \in local'[x].hits
<1> DEFINE ids == {Id(row) : row \in points}
<1>1. stage \in [Chats -> Stages] /\ local \in [Chats -> Locals]
  BY SystemFacts
<1>2. PICK found \in BestOf(KEach, ids) :
        Enter(x, "hydrate", [local[x] EXCEPT !.hits = @ \cup found, !.promised = committed])
  <2>1. ~End(x, "failed")
    BY <1>1 DEF End, Enter
  <2>2. QED
    BY <2>1 DEF VectorSearch
<1>3. local'[x].promised = committed /\ found \subseteq local'[x].hits
  BY <1>1, <1>2 DEF Enter, Locals
<1>4. found = ids
  <2>1. IsFiniteSet(ids)
    <3> DEFINE f == [row \in points |-> Id(row)]
    <3>1. f = [row \in points |-> f[row]] /\ ids = {f[row] : row \in points}
      OBVIOUS
    <3> HIDE DEF f, ids
    <3>2. QED
      BY <3>1, ImagesAreFinite DEF FoundInv
  <2>2. Cardinality(ids) <= KEach /\ KEach \in Nat
    BY RagSystemAssumption DEF NothingCutOff
  <2> HIDE DEF ids
  <2>3. QED
    BY <2>1, <2>2, AllAreFound
<1>5. e \in points
  <2>1. p \in committed
    BY <1>3
  <2>2. OfVersion(points, p.doc, p.version) = ChunksOf(p.doc, p.version, p.text)
    BY <2>1 DEF SystemInv, IngestionInv, CommittedServed, Whole
  <2>3. QED
    BY <2>2 DEF OfVersion
<1>6. QED
  BY <1>3, <1>4, <1>5

\* Every step keeps what a request has found.
LEMMA FoundStep ==
  ASSUME SystemInv, FoundInv, NothingCutOff, [SystemNext]_systemVars
  PROVE  FoundInv'
<1>facts. stage \in [Chats -> Stages] /\ local \in [Chats -> Locals]
  BY SystemFacts
<1>1. IsFiniteSet(points')
  BY SystemStepIsIngestStep, PointsStayFinite DEF SystemInv, FoundInv
<1>2. ASSUME NEW c \in Chats, stage'[c] = "hydrate",
             NEW p \in local'[c].promised, NEW e \in ChunksOf(p.doc, p.version, p.text)
      PROVE  Id(e) \in local'[c].hits
  <2>1. CASE stage'[c] = stage[c] /\ local'[c] = local[c]
    BY <1>2, <2>1 DEF FoundInv
  <2>2. ASSUME NEW x \in Chats, ChatStep(x) PROVE Id(e) \in local'[c].hits
    <3>1. PICK to, now : Moves(x, to, now)
      BY <2>2, ChatMoves
    <3>2. stage' = [stage EXCEPT ![x] = to] /\ local' = [local EXCEPT ![x] = now]
      BY <3>1 DEF Moves, Enter
    <3>3. CASE c # x
      BY <1>facts, <2>1, <3>2, <3>3
    <3>4. CASE c = x /\ VectorSearch(x)
      BY <1>2, <3>4, SearchFindsPublished
    <3>5. CASE c = x /\ ~VectorSearch(x)
      BY <1>2, <2>2, <3>5, HydratesAfterSearch
    <3>6. QED
      BY <3>3, <3>4, <3>5
  <2>3. CASE Stop
    BY <1>2, <1>facts, <2>3 DEF Stop, Ended
  <2>4. (\E x \in Chats : ChatStep(x)) \/ Stop \/ UNCHANGED <<stage, local>>
    BY DEF SystemNext, SubmitUpload, IngestStep, ReadTags, DropTagged, EndIngest, Expiry,
           chatVars, systemVars
  <2>5. QED
    BY <2>1, <2>2, <2>3, <2>4
<1>3. QED
  BY <1>1, <1>2 DEF FoundInv, ChunksOf, Id

-----------------------------------------------------------------------------
(* The theorems *)

\* The inductive invariant holds of every run of the composed system: chats,
\* the ingest, its invalidator, crashes and expiry.
THEOREM SystemInvariant == SystemSpec => []SystemInv
  BY InitSystemInv, StepSystemInv, PTL DEF SystemSpec

\* Every variable keeps its type, for any number of documents and requests.
THEOREM SystemTypeCorrect == SystemSpec => []SystemTypeOK
<1>1. SystemInv => SystemTypeOK
  BY DEF SystemInv
<1>2. QED
  BY <1>1, SystemInvariant, PTL

\* No request that began after an upload was answered "ingested" ever takes a
\* chunk of an older version from the stores.
THEOREM LiveAnswersStayFresh == SystemSpec => []LiveAnswersAreFresh
<1>1. SystemInv => LiveAnswersAreFresh
  BY DEF SystemInv, ChatInv, Fresh, LiveAnswersAreFresh
<1>2. QED
  BY <1>1, SystemInvariant, PTL

\* An answer from a version below the last one whose invalidation took effect
\* is in the cache only when its write raced that invalidation, and every other
\* entry has its tags.
THEOREM StaleAnswersAreRaced == SystemSpec => []StaleOnlyByRace
<1>1. SystemInv => StaleOnlyByRace
  BY DEF SystemInv, EntriesInv, StaleOnlyByRace
<1>2. QED
  BY <1>1, SystemInvariant, PTL

\* No answer composed from a conversation enters the cache all sessions share.
THEOREM ConversationsStayPrivate == SystemSpec => []CacheHoldsNoConversation
<1>1. SystemInv => CacheHoldsNoConversation
  BY DEF SystemInv
<1>2. QED
  BY <1>1, SystemInvariant, PTL

\* A refused request left no turn, and the question of an answered one is
\* followed by its answer as long as the cap still shows it.
THEOREM SessionsMatchOutcomes == SystemSpec => []SessionMatchesOutcome
<1>1. SystemInv => SessionMatchesOutcome
  <2> SUFFICES ASSUME SystemInv, NEW s \in SessionIds, NEW i \in DOMAIN turns[s]
               PROVE  LET c == turns[s][i].chat
                      IN  /\ stage[c] \notin {"refused", "unavailable"}
                          /\ (turns[s][i].role = "user" /\ stage[c] = "answered") =>
                               \E j \in i + 1 .. Len(turns[s]) : turns[s][j] = Reply(c)
    BY DEF SessionMatchesOutcome
  <2> DEFINE c == turns[s][i].chat
  <2>1. turns[s] \in Seq(Turn) /\ Settled(turns[s], stage, s)
    BY DEF SystemInv, TurnsInv
  <2>2. turns[s][i] \in Turn /\ DOMAIN turns[s] = 1 .. Len(turns[s]) /\ Len(turns[s]) \in Nat
    BY <2>1
  <2>3. turns[s][i].role = "user" => turns[s][i] = Question(c)
    BY <2>2 DEF Turn, Question
  <2>4. /\ stage[c] \in {"assistant", "write", "answered", "failed"}
        /\ (turns[s][i] = Question(c) /\ stage[c] \in {"write", "answered"}) =>
             \E j \in DOMAIN turns[s] : j > i /\ turns[s][j] = Reply(c)
    BY <2>1 DEF Settled
  <2>5. QED
    BY <2>2, <2>3, <2>4
<1>2. QED
  BY <1>1, SystemInvariant, PTL

\* The system as a whole implements the catalog: whatever its chats, its cache and
\* its crashes do, a published version stays searchable until the step that
\* publishes a higher one.
THEOREM SystemImplementsCatalog == SystemSpec => ImplementsCatalog
<1>1. SystemInit => Catalog!Init
  BY DEF SystemInit, Init, StoresInit, Catalog!Init, WholeVersions
<1>2. SystemInv /\ [SystemNext]_systemVars => [Catalog!Next]_(Catalog!vars)
  BY SystemStepIsIngestStep, StepImplementsCatalog DEF SystemInv, CatalogStep, Catalog!vars
<1>3. QED
  BY <1>1, <1>2, SystemInvariant, PTL DEF SystemSpec, ImplementsCatalog, Catalog!Spec

\* As long as the search of the vectors cuts nothing off, ingests that fail, and
\* those that publish another document, never hide a published document from a
\* request: its chunks are among the hits, and hydrate.
THEOREM PublishedStayRetrieved == SystemSpec /\ []NothingCutOff => []PublishedIsRetrieved
<1>1. SystemInit => FoundInv
  BY FS_EmptySet DEF SystemInit, Init, StoresInit, FoundInv
<1>2. SystemInv /\ FoundInv /\ NothingCutOff /\ [SystemNext]_systemVars => FoundInv'
  BY FoundStep
<1>3. SystemInv /\ FoundInv => PublishedIsRetrieved
  <2> SUFFICES ASSUME SystemInv, FoundInv, NEW c \in Chats, stage[c] = "hydrate",
                      NEW p \in local[c].promised \cap committed,
                      NEW e \in ChunksOf(p.doc, p.version, p.text)
               PROVE  Id(e) \in local[c].hits /\ e \in chunks
    BY DEF PublishedIsRetrieved
  <2>1. OfVersion(chunks, p.doc, p.version) = ChunksOf(p.doc, p.version, p.text)
    BY DEF SystemInv, IngestionInv, CommittedServed, Whole
  <2>2. QED
    BY <2>1 DEF FoundInv, OfVersion
<1>4. QED
  BY <1>1, <1>2, <1>3, SystemInvariant, PTL DEF SystemSpec

=============================================================================
