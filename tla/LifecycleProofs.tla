---------------------------- MODULE LifecycleProofs ----------------------------
(***************************************************************************)
(* The order of the closes and the collection the processes share, for any  *)
(* processes and vector sizes.                                             *)
(***************************************************************************)
EXTENDS Lifecycle, SequenceTheorems, TLAPS

\* What was opened is in the stacks, last opened first; from the moment the
\* closing begins, it is what was closed and then what is still to be closed.
Stack(s) ==
  /\ s.phase \in {"down", "building", "serving"} =>
       /\ s.attempts = <<>> /\ s.closing = <<>>
       /\ Reverse(s.building) \o s.closers = Reverse(s.built)
  /\ s.phase = "serving" => s.building = <<>>
  /\ s.phase \in {"unwinding", "stopping", "stopped"} =>
       s.attempts \o s.closing = Reverse(s.built)
  /\ s.phase = "stopped" => s.closing = <<>>

InRange(s) == s.step >= 1 /\ s.step <= Len(Builders[s.builder]) + 1

Good(s) == s \in Process /\ InRange(s) /\ Stack(s)

Ensured(s, c) == (s.builder > 1 \/ s.step >= Len(IngestSteps)) => c = s.size

LifecycleInv ==
  /\ proc \in [Processes -> Process]
  /\ \A p \in Processes : Good(proc[p]) /\ Ensured(proc[p], collection)
  /\ collection \in Sizes \cup {0}

\* What a retrieval uses: the pool and the clients it shares with its pairs.
Pool == "retriever pool"
Clients == {"chat embedder", "chat vector store"}

\* The clients are opened before the pool, and the pool by the second builder,
\* in its seventh step.
OpenOrder(s) ==
  /\ \A i, j \in DOMAIN s.built : s.built[i] \in Clients /\ s.built[j] = Pool => i < j
  /\ s.builder = 1 \/ (s.builder = 2 /\ s.step <= 7) => \A i \in DOMAIN s.built : s.built[i] # Pool
  /\ s.builder = 3 \/ (s.builder = 2 /\ s.step > 7) => \E i \in DOMAIN s.built : s.built[i] = Pool

\* A retrieval runs on the pool's connections, which are closed before the
\* pool counts as closed.
ReaderState(s) ==
  /\ s.phase \in {"serving", "stopping"} => s.builder = 3
  /\ s.retrieving => s.phase \in {"serving", "stopping"} /\ s.reader = "open"
  /\ (\E i \in DOMAIN s.attempts : s.attempts[i] = Pool) => s.reader # "open"

RetrievalInv ==
  /\ LifecycleInv
  /\ \A p \in Processes : OpenOrder(proc[p]) /\ ReaderState(proc[p])

-----------------------------------------------------------------------------
(* The builders *)

\* What stands where in a concatenation.
LEMMA ConcatIs ==
  ASSUME NEW S, NEW s \in Seq(S), NEW t \in Seq(S)
  PROVE  /\ s \o t \in Seq(S)
         /\ Len(s \o t) = Len(s) + Len(t)
         /\ \A i \in 1 .. Len(s) : (s \o t)[i] = s[i]
         /\ \A i \in 1 .. Len(t) : (s \o t)[Len(s) + i] = t[i]
BY ConcatProperties

\* Where the three calls of ensure_collection stand when the upload side is built.
LEMMA IngestStepsAre ==
  /\ Len(IngestSteps) = 10 /\ DOMAIN IngestSteps = 1 .. 10
  /\ \A i \in 1 .. 10 : IngestSteps[i] = "exists" => i = 7
  /\ \A i \in 1 .. 10 : IngestSteps[i] = "create" => i = 8
  /\ IngestSteps[9] = "validate"
  /\ \A i \in 1 .. 10 : IngestSteps[i] \notin {Pool} \cup Clients
<1> DEFINE Before == {"chunk store", "bm25 connection", "bm25 index", "embedder", "dim", "vector store"}
           After == {"cache invalidator"}
           Calling == {"exists", "create", "validate"}
           All == Before \cup After \cup Calling
           before == <<"chunk store", "bm25 connection", "bm25 index", "embedder", "dim", "vector store">>
           after == <<"cache invalidator">>
           start == before \o Ensure
<1>1. before \in Seq(Before) /\ Len(before) = 6
  OBVIOUS
<1>2. Ensure \in Seq(Calling) /\ Len(Ensure) = 3
  BY DEF Ensure
<1>3. Ensure[1] = "exists" /\ Ensure[2] = "create" /\ Ensure[3] = "validate"
  BY DEF Ensure
<1>4. after \in Seq(After) /\ Len(after) = 1
  OBVIOUS
<1>5. IngestSteps = start \o after
  BY DEF IngestSteps
<1>6. {"exists", "create"} \cap (Before \cup After) = {}
  OBVIOUS
<1>p. ({Pool} \cup Clients) \cap All = {}
  BY DEF Pool, Clients
<1> HIDE DEF before, after, Before, After, Calling
<1>7. before \in Seq(All) /\ Ensure \in Seq(All) /\ after \in Seq(All)
  BY <1>1, <1>2, <1>4
<1> HIDE DEF All
<1>8. /\ start \in Seq(All) /\ Len(start) = 9
      /\ \A i \in 1 .. 6 : start[i] = before[i]
      /\ \A i \in 1 .. 3 : start[6 + i] = Ensure[i]
  <2>1. /\ start \in Seq(All) /\ Len(start) = Len(before) + Len(Ensure)
        /\ \A i \in 1 .. Len(before) : start[i] = before[i]
        /\ \A i \in 1 .. Len(Ensure) : start[Len(before) + i] = Ensure[i]
    BY <1>7, ConcatIs
  <2>2. QED
    BY <1>1, <1>2, <2>1
<1> HIDE DEF start
<1>9. /\ IngestSteps \in Seq(All) /\ Len(IngestSteps) = 10
      /\ \A i \in 1 .. 9 : IngestSteps[i] = start[i]
      /\ \A i \in 1 .. 1 : IngestSteps[9 + i] = after[i]
  <2>1. start \in Seq(All) /\ after \in Seq(All)
    BY <1>7, <1>8
  <2>2. /\ start \o after \in Seq(All) /\ Len(start \o after) = Len(start) + Len(after)
        /\ \A i \in 1 .. Len(start) : (start \o after)[i] = start[i]
        /\ \A i \in 1 .. Len(after) : (start \o after)[Len(start) + i] = after[i]
    BY <2>1, ConcatIs
  <2>3. QED
    BY <1>4, <1>5, <1>8, <2>2
<1>10. \A i \in 1 .. 6 : IngestSteps[i] \in Before
  <2>1. \A i \in 1 .. 6 : before[i] \in Before
    BY <1>1, ElementOfSeq
  <2>2. \A i \in 1 .. 6 : IngestSteps[i] = start[i] /\ start[i] = before[i]
    BY <1>8, <1>9
  <2>3. QED
    BY <2>1, <2>2
<1>11. \A i \in 10 .. 10 : IngestSteps[i] \in After
  <2>1. \A j \in 1 .. 1 : after[j] \in After
    BY <1>4, ElementOfSeq
  <2>2. \A j \in 1 .. 1 : IngestSteps[9 + j] = after[j]
    BY <1>9
  <2>3. ASSUME NEW i \in 10 .. 10 PROVE IngestSteps[i] \in After
    <3>1. i - 9 \in 1 .. 1 /\ 9 + (i - 9) = i
      OBVIOUS
    <3>2. IngestSteps[9 + (i - 9)] \in After
      BY <2>1, <2>2, <3>1
    <3>3. QED
      BY <3>1, <3>2
  <2>4. QED
    BY <2>3
<1>12. /\ IngestSteps[7] = "exists" /\ IngestSteps[8] = "create"
       /\ IngestSteps[9] = "validate"
  <2>1. start[6 + 1] = Ensure[1] /\ start[6 + 2] = Ensure[2] /\ start[6 + 3] = Ensure[3]
    BY <1>8
  <2>2. QED
    BY <1>3, <1>9, <2>1
<1>13. \A i \in 1 .. 10 :
         i \in 1 .. 6 \/ i = 7 \/ i = 8 \/ i = 9 \/ i \in 10 .. 10
  OBVIOUS
<1>14. \A i \in 1 .. 10 :
         /\ IngestSteps[i] = "exists" => i = 7
         /\ IngestSteps[i] = "create" => i = 8
  BY <1>6, <1>10, <1>11, <1>12, <1>13
<1>15. \A i \in 1 .. 10 : IngestSteps[i] \notin {Pool} \cup Clients
  BY <1>p, <1>9, ElementOfSeq
<1>16. QED
  BY <1>9, <1>12, <1>14, <1>15

\* The same when the chat side is built.
LEMMA ChatStepsAre ==
  /\ Len(ChatSteps) = 11 /\ DOMAIN ChatSteps = 1 .. 11
  /\ \A i \in 1 .. 11 : ChatSteps[i] = "exists" => i = 4
  /\ \A i \in 1 .. 11 : ChatSteps[i] = "create" => i = 5
  /\ \A i \in 1 .. 11 : ChatSteps[i] = Pool <=> i = 7
  /\ \A i \in 1 .. 11 : ChatSteps[i] \in Clients => i < 7
<1> DEFINE Before == {"chat embedder", "dim", "chat vector store"}
           After == {"retriever pool", "reranker", "session store", "response cache", "llm client"}
           Calling == {"exists", "create", "validate"}
           All == Before \cup After \cup Calling
           before == <<"chat embedder", "dim", "chat vector store">>
           after == <<"retriever pool", "reranker", "session store", "response cache", "llm client">>
           start == before \o Ensure
<1>1. before \in Seq(Before) /\ Len(before) = 3
  OBVIOUS
<1>2. Ensure \in Seq(Calling) /\ Len(Ensure) = 3
  BY DEF Ensure
<1>3. Ensure[1] = "exists" /\ Ensure[2] = "create" /\ Ensure[3] = "validate"
  BY DEF Ensure
<1>4. after \in Seq(After) /\ Len(after) = 5
  OBVIOUS
<1>5. ChatSteps = start \o after
  BY DEF ChatSteps
<1>6. {"exists", "create"} \cap (Before \cup After) = {}
  OBVIOUS
<1>p. /\ Pool \notin Before \cup Calling /\ Clients \cap After = {}
      /\ after[1] = Pool /\ \A j \in 2 .. 5 : after[j] # Pool
  BY DEF Pool, Clients
<1> HIDE DEF before, after, Before, After, Calling
<1>7. before \in Seq(All) /\ Ensure \in Seq(All) /\ after \in Seq(All)
  BY <1>1, <1>2, <1>4
<1> HIDE DEF All
<1>8. /\ start \in Seq(All) /\ Len(start) = 6
      /\ \A i \in 1 .. 3 : start[i] = before[i]
      /\ \A i \in 1 .. 3 : start[3 + i] = Ensure[i]
  <2>1. /\ start \in Seq(All) /\ Len(start) = Len(before) + Len(Ensure)
        /\ \A i \in 1 .. Len(before) : start[i] = before[i]
        /\ \A i \in 1 .. Len(Ensure) : start[Len(before) + i] = Ensure[i]
    BY <1>7, ConcatIs
  <2>2. QED
    BY <1>1, <1>2, <2>1
<1> HIDE DEF start
<1>9. /\ ChatSteps \in Seq(All) /\ Len(ChatSteps) = 11
      /\ \A i \in 1 .. 6 : ChatSteps[i] = start[i]
      /\ \A i \in 1 .. 5 : ChatSteps[6 + i] = after[i]
  <2>1. start \in Seq(All) /\ after \in Seq(All)
    BY <1>7, <1>8
  <2>2. /\ start \o after \in Seq(All) /\ Len(start \o after) = Len(start) + Len(after)
        /\ \A i \in 1 .. Len(start) : (start \o after)[i] = start[i]
        /\ \A i \in 1 .. Len(after) : (start \o after)[Len(start) + i] = after[i]
    BY <2>1, ConcatIs
  <2>3. QED
    BY <1>4, <1>5, <1>8, <2>2
<1>10. \A i \in 1 .. 3 : ChatSteps[i] \in Before
  <2>1. \A i \in 1 .. 3 : before[i] \in Before
    BY <1>1, ElementOfSeq
  <2>2. \A i \in 1 .. 3 : ChatSteps[i] = start[i] /\ start[i] = before[i]
    BY <1>8, <1>9
  <2>3. QED
    BY <2>1, <2>2
<1>11. \A i \in 7 .. 11 : ChatSteps[i] \in After
  <2>1. \A j \in 1 .. 5 : after[j] \in After
    BY <1>4, ElementOfSeq
  <2>2. \A j \in 1 .. 5 : ChatSteps[6 + j] = after[j]
    BY <1>9
  <2>3. ASSUME NEW i \in 7 .. 11 PROVE ChatSteps[i] \in After
    <3>1. i - 6 \in 1 .. 5 /\ 6 + (i - 6) = i
      OBVIOUS
    <3>2. ChatSteps[6 + (i - 6)] \in After
      BY <2>1, <2>2, <3>1
    <3>3. QED
      BY <3>1, <3>2
  <2>4. QED
    BY <2>3
<1>12. /\ ChatSteps[4] = "exists" /\ ChatSteps[5] = "create"
       /\ ChatSteps[6] = "validate"
  <2>1. start[3 + 1] = Ensure[1] /\ start[3 + 2] = Ensure[2] /\ start[3 + 3] = Ensure[3]
    BY <1>8
  <2>2. QED
    BY <1>3, <1>9, <2>1
<1>13. \A i \in 1 .. 11 :
         i \in 1 .. 3 \/ i = 4 \/ i = 5 \/ i = 6 \/ i \in 7 .. 11
  OBVIOUS
<1>14. \A i \in 1 .. 11 :
         /\ ChatSteps[i] = "exists" => i = 4
         /\ ChatSteps[i] = "create" => i = 5
  BY <1>6, <1>10, <1>11, <1>12, <1>13
<1>15. \A i \in 1 .. 6 : ChatSteps[i] # Pool
  <2>1. {ChatSteps[4], ChatSteps[5], ChatSteps[6]} \subseteq Calling
    BY <1>12 DEF Calling
  <2>2. \A i \in 1 .. 6 : i \in 1 .. 3 \/ i = 4 \/ i = 5 \/ i = 6
    OBVIOUS
  <2>3. QED
    BY <1>p, <1>10, <2>1, <2>2
<1>16. ChatSteps[7] = Pool /\ \A i \in 8 .. 11 : ChatSteps[i] # Pool
  <2>1. \A j \in 1 .. 5 : ChatSteps[6 + j] = after[j]
    BY <1>9
  <2>2. ASSUME NEW i \in 8 .. 11 PROVE ChatSteps[i] # Pool
    <3>1. i - 6 \in 2 .. 5 /\ i - 6 \in 1 .. 5 /\ 6 + (i - 6) = i
      OBVIOUS
    <3>2. ChatSteps[6 + (i - 6)] # Pool
      BY <1>p, <2>1, <3>1
    <3>3. QED
      BY <3>1, <3>2
  <2>3. ChatSteps[6 + 1] = Pool
    BY <1>p, <2>1
  <2>4. QED
    BY <2>2, <2>3
<1>17. \A i \in 1 .. 11 : ChatSteps[i] \in Clients => i < 7
  <2>1. \A i \in 1 .. 11 : i < 7 \/ i \in 7 .. 11
    OBVIOUS
  <2>2. QED
    BY <1>p, <1>11, <2>1
<1>18. \A i \in 1 .. 11 : ChatSteps[i] = Pool <=> i = 7
  <2>1. \A i \in 1 .. 11 : i \in 1 .. 6 \/ i = 7 \/ i \in 8 .. 11
    OBVIOUS
  <2>2. QED
    BY <1>15, <1>16, <2>1
<1>19. QED
  BY <1>9, <1>12, <1>14, <1>17, <1>18

\* The probe's clients make no such call.
LEMMA ReadyStepsAre ==
  /\ Len(ReadySteps) = 3 /\ DOMAIN ReadySteps = 1 .. 3
  /\ \A i \in 1 .. 3 : ReadySteps[i] \notin {"exists", "create", Pool} \cup Clients
BY DEF ReadySteps, Pool, Clients

\* The validation of the collection opens nothing.
LEMMA ValidateOpensNothing ==
  "validate" \notin Calls \cup Resources
<1>1. "validate" \in {Ensure[i] : i \in DOMAIN Ensure}
  BY DEF Ensure
<1>2. "validate" \notin Calls
  BY DEF Calls
<1>3. QED
  BY <1>1, <1>2 DEF Resources

\* No builder is left within a call of ensure_collection: two steps after the
\* first and one after the second are still its own, or right past its last.
LEMMA BuildersAre ==
  ASSUME NEW b \in DOMAIN Builders
  PROVE  /\ Len(Builders[b]) \in Nat /\ DOMAIN Builders[b] = 1 .. Len(Builders[b])
         /\ \A i \in DOMAIN Builders[b] :
              /\ Builders[b][i] = "exists" => i + 2 <= Len(Builders[b])
              /\ Builders[b][i] = "create" => i + 1 <= Len(Builders[b])
<1>1. DOMAIN Builders = {1, 2, 3}
  BY DEF Builders
<1>2. Builders[1] = IngestSteps /\ Builders[2] = ChatSteps /\ Builders[3] = ReadySteps
  BY DEF Builders
<1>3. CASE b = 1
  <2>1. Builders[b] = IngestSteps
    BY <1>2, <1>3
  <2>2. \A i \in DOMAIN IngestSteps :
          /\ IngestSteps[i] = "exists" => i + 2 <= Len(IngestSteps)
          /\ IngestSteps[i] = "create" => i + 1 <= Len(IngestSteps)
    BY IngestStepsAre
  <2>3. QED
    BY <2>1, <2>2, IngestStepsAre
<1>4. CASE b = 2
  <2>1. Builders[b] = ChatSteps
    BY <1>2, <1>4
  <2>2. \A i \in DOMAIN ChatSteps :
          /\ ChatSteps[i] = "exists" => i + 2 <= Len(ChatSteps)
          /\ ChatSteps[i] = "create" => i + 1 <= Len(ChatSteps)
    BY ChatStepsAre
  <2>3. QED
    BY <2>1, <2>2, ChatStepsAre
<1>5. CASE b = 3
  BY <1>2, <1>5, ReadyStepsAre
<1>6. QED
  BY <1>1, <1>3, <1>4, <1>5

-----------------------------------------------------------------------------
(* The stacks of closers *)

\* Reversing keeps what a sequence holds, and puts what was appended first.
LEMMA ReverseIs ==
  ASSUME NEW S, NEW s \in Seq(S)
  PROVE  /\ Reverse(s) \in Seq(S) /\ Len(Reverse(s)) = Len(s)
         /\ \A x \in S : Reverse(Append(s, x)) = <<x>> \o Reverse(s)
<1>1. Reverse(s) \in Seq(S) /\ Len(Reverse(s)) = Len(s)
  BY DEF Reverse
<1>2. ASSUME NEW x \in S PROVE Reverse(Append(s, x)) = <<x>> \o Reverse(s)
  <2> DEFINE t == Append(s, x)
             u == <<x>> \o Reverse(s)
  <2>1. /\ t \in Seq(S) /\ Len(t) = Len(s) + 1 /\ t[Len(s) + 1] = x
        /\ \A i \in 1 .. Len(s) : t[i] = s[i]
    BY AppendProperties
  <2>2. <<x>> \in Seq(S) /\ Len(<<x>>) = 1 /\ <<x>>[1] = x
    OBVIOUS
  <2>3. /\ u \in Seq(S) /\ Len(u) = Len(s) + 1 /\ u[1] = x
        /\ \A i \in 1 .. Len(s) : u[1 + i] = Reverse(s)[i]
    BY <1>1, <2>2, ConcatIs
  <2> HIDE DEF t, u
  <2>4. /\ Reverse(t) \in Seq(S) /\ Len(Reverse(t)) = Len(s) + 1
        /\ \A i \in 1 .. Len(s) + 1 : Reverse(t)[i] = t[Len(s) + 2 - i]
    BY <2>1 DEF Reverse
  <2>5. ASSUME NEW i \in 1 .. Len(s) + 1 PROVE Reverse(t)[i] = u[i]
    <3>1. CASE i = 1
      BY <2>1, <2>3, <2>4, <3>1
    <3>2. CASE i # 1
      <4>1. i - 1 \in 1 .. Len(s) /\ 1 + (i - 1) = i /\ Len(s) + 2 - i \in 1 .. Len(s)
        BY <3>2
      <4>2. Reverse(s)[i - 1] = s[Len(s) + 1 - (i - 1)]
        BY <4>1 DEF Reverse
      <4>3. Len(s) + 1 - (i - 1) = Len(s) + 2 - i
        BY <4>1
      <4>4. QED
        BY <2>1, <2>3, <2>4, <4>1, <4>2, <4>3
    <3>3. QED
      BY <3>1, <3>2
  <2>6. Reverse(t) = u
    BY <2>3, <2>4, <2>5, SeqEqual
  <2>7. QED
    BY <2>6 DEF t, u
<1>3. QED
  BY <1>1, <1>2

\* Who stands where once reversed.
LEMMA ReverseAt ==
  ASSUME NEW S, NEW s \in Seq(S), NEW i \in DOMAIN s
  PROVE  /\ Len(s) + 1 - i \in DOMAIN Reverse(s) /\ Len(s) + 1 - i \in DOMAIN s
         /\ Reverse(s)[Len(s) + 1 - i] = s[i] /\ Reverse(s)[i] = s[Len(s) + 1 - i]
<1>1. Len(s) \in Nat /\ DOMAIN s = 1 .. Len(s)
  OBVIOUS
<1>2. Len(s) + 1 - i \in 1 .. Len(s) /\ Len(s) + 1 - (Len(s) + 1 - i) = i
  BY <1>1
<1>3. QED
  BY <1>1, <1>2 DEF Reverse

\* Nothing opened, nothing to close.
LEMMA ReverseEmpty == Reverse(<<>>) = <<>>
BY DEF Reverse

\* What is closed next leaves the front of one stack for the end of the other.
LEMMA NextClose ==
  ASSUME NEW S, NEW s \in Seq(S), NEW t \in Seq(S), t # <<>>
  PROVE  Append(s, Head(t)) \o Tail(t) = s \o t
<1>1. Head(t) \in S /\ Tail(t) \in Seq(S) /\ t = <<Head(t)>> \o Tail(t)
  BY HeadTailProperties
<1>2. Append(s, Head(t)) = s \o <<Head(t)>> /\ <<Head(t)>> \in Seq(S)
  BY <1>1, AppendIsConcat
<1>3. QED
  BY <1>1, <1>2, ConcatAssociative

-----------------------------------------------------------------------------
(* The steps *)

\* The step of one process leaves the others as they are, and what the collection
\* was ensured to be stays true of them.
LEMMA OthersKeep ==
  ASSUME LifecycleInv, LifecycleAssumption, NEW p \in Processes, NEW s,
         proc' = [proc EXCEPT ![p] = s], Good(s), Ensured(s, collection'),
         \/ collection' = collection
         \/ collection = 0 /\ collection' \in Sizes
  PROVE  LifecycleInv'
<1>1. proc' \in [Processes -> Process]
  BY DEF LifecycleInv, Good
<1>2. \A q \in Processes : proc'[q] = IF q = p THEN s ELSE proc[q]
  BY DEF LifecycleInv
<1>3. \A q \in Processes : proc[q].size \in Sizes /\ proc[q].size # 0
  BY DEF LifecycleInv, Process, LifecycleAssumption
<1>4. \A q \in Processes : Ensured(proc[q], collection')
  BY <1>3 DEF LifecycleInv, Ensured
<1>5. QED
  BY <1>1, <1>2, <1>4 DEF LifecycleInv

\* What is known of the process that takes a step.
LEMMA TheProcess ==
  ASSUME LifecycleInv, NEW p \in Processes
  PROVE  Good(proc[p]) /\ Ensured(proc[p], collection)
BY DEF LifecycleInv

\* A process before its start has opened nothing.
LEMMA DownIsGood ==
  ASSUME NEW n \in Sizes
  PROVE  Good(Down(n)) /\ \A c : Ensured(Down(n), c)
<1>1. 1 \in DOMAIN Builders /\ Len(Builders[1]) = 10
  BY IngestStepsAre DEF Builders
<1>2. <<>> \in Seq(Resources) /\ <<>> \o <<>> = <<>>
  OBVIOUS
<1>3. Down(n) \in Process
  BY <1>1, <1>2 DEF Down, Process
<1>4. Stack(Down(n))
  BY <1>2, ReverseEmpty DEF Down, Stack
<1>5. QED
  BY <1>1, <1>3, <1>4, IngestStepsAre DEF Good, InRange, Ensured, Down

\* Steps that touch neither the stacks nor the place in a builder.
LEMMA QuietKeeps ==
  ASSUME LifecycleInv, LifecycleAssumption, NEW p \in Processes, NEW s \in Process,
         Becomes(p, s),
         /\ s.building = proc[p].building /\ s.closers = proc[p].closers
         /\ s.closing = proc[p].closing /\ s.built = proc[p].built
         /\ s.attempts = proc[p].attempts /\ s.size = proc[p].size
         /\ s.builder = proc[p].builder /\ s.step = proc[p].step,
         s.phase = proc[p].phase \/ (proc[p].phase = "down" /\ s.phase = "building")
  PROVE  LifecycleInv'
<1>1. Good(s)
  BY TheProcess DEF Good, InRange, Stack
<1>2. Ensured(s, collection')
  BY TheProcess DEF Becomes, Ensured
<1>3. QED
  BY <1>1, <1>2, OthersKeep DEF Becomes

\* A start, a retrieval and its end, and the close of the pool's connections.
LEMMA QuietSteps ==
  ASSUME LifecycleInv, LifecycleAssumption, NEW p \in Processes,
         Start(p) \/ Retrieve(p) \/ RetrieveReturns(p) \/ CloseReader(p)
  PROVE  LifecycleInv'
<1>1. proc[p] \in Process
  BY TheProcess DEF Good
<1>2. CASE Start(p)
  <2> DEFINE s == [proc[p] EXCEPT !.phase = "building"]
  <2>1. s \in Process
    BY <1>1 DEF Process
  <2>2. QED
    BY <1>1, <1>2, <2>1, QuietKeeps DEF Start, Process
<1>3. CASE Retrieve(p)
  <2> DEFINE s == [proc[p] EXCEPT !.retrieving = TRUE, !.reader = "open"]
  <2>1. s \in Process
    BY <1>1 DEF Process
  <2>2. QED
    BY <1>1, <1>3, <2>1, QuietKeeps DEF Retrieve, Process
<1>4. CASE RetrieveReturns(p)
  <2> DEFINE s == [proc[p] EXCEPT !.retrieving = FALSE]
  <2>1. s \in Process
    BY <1>1 DEF Process
  <2>2. QED
    BY <1>1, <1>4, <2>1, QuietKeeps DEF RetrieveReturns, Process
<1>5. CASE CloseReader(p)
  <2>1. PICK leaks \in BOOLEAN :
          Becomes(p, [proc[p] EXCEPT !.reader = "closed", !.leaked = leaks])
    BY <1>5 DEF CloseReader
  <2> DEFINE s == [proc[p] EXCEPT !.reader = "closed", !.leaked = leaks]
  <2>2. s \in Process
    BY <1>1 DEF Process
  <2>3. QED
    BY <1>1, <2>1, <2>2, QuietKeeps DEF Process
<1>6. QED
  BY <1>2, <1>3, <1>4, <1>5

\* A step of a builder that returns: it is still within its list.
LEMMA AdvanceKeeps ==
  ASSUME LifecycleInv, LifecycleAssumption, NEW p \in Processes, BuilderRuns(p),
         NEW n \in {1, 2}, proc[p].step + n <= Len(Builders[proc[p].builder]) + 1,
         NEW s \in Process, proc' = [proc EXCEPT ![p] = s],
         /\ s.phase = proc[p].phase /\ s.step = proc[p].step + n
         /\ s.builder = proc[p].builder /\ s.size = proc[p].size
         /\ s.closers = proc[p].closers /\ s.closing = proc[p].closing
         /\ s.attempts = proc[p].attempts,
         \/ s.building = proc[p].building /\ s.built = proc[p].built
         \/ \E name \in Resources : /\ s.building = Append(proc[p].building, name)
                                   /\ s.built = Append(proc[p].built, name),
         \/ collection' = collection
         \/ collection = 0 /\ collection' \in Sizes,
         Ensured(s, collection')
  PROVE  LifecycleInv'
<1>1. proc[p] \in Process /\ Stack(proc[p]) /\ proc[p].phase = "building"
  BY TheProcess DEF Good, BuilderRuns
<1>2. /\ proc[p].building \in Seq(Resources) /\ proc[p].closers \in Seq(Resources)
      /\ proc[p].built \in Seq(Resources)
  BY <1>1 DEF Process
<1>3. Reverse(s.building) \o s.closers = Reverse(s.built)
  <2>1. Reverse(proc[p].building) \o proc[p].closers = Reverse(proc[p].built)
    BY <1>1 DEF Stack
  <2>2. ASSUME NEW name \in Resources,
               s.building = Append(proc[p].building, name),
               s.built = Append(proc[p].built, name)
        PROVE  Reverse(s.building) \o s.closers = Reverse(s.built)
    <3>1. /\ Reverse(s.building) = <<name>> \o Reverse(proc[p].building)
          /\ Reverse(s.built) = <<name>> \o Reverse(proc[p].built)
      BY <1>2, <2>2, ReverseIs
    <3>2. Reverse(proc[p].building) \in Seq(Resources)
      BY <1>2, ReverseIs
    <3> DEFINE r == Reverse(proc[p].building)
               c == proc[p].closers
    <3>5. r \in Seq(Resources) /\ c \in Seq(Resources) /\ <<name>> \in Seq(Resources)
      BY <1>2, <3>2
    <3> HIDE DEF r, c
    <3>3. (<<name>> \o r) \o c = <<name>> \o (r \o c)
      BY <3>5, ConcatAssociative
    <3>4. QED
      BY <2>1, <3>1, <3>3 DEF r, c
  <2>3. QED
    BY <2>1, <2>2
<1>4. InRange(s)
  <2>1. proc[p].step >= 1 /\ proc[p].step \in Nat
    BY <1>1, TheProcess DEF Good, InRange, Process
  <2>2. s.step >= 1
    BY <2>1
  <2>3. QED
    BY <2>2 DEF InRange
<1>5. Stack(s)
  BY <1>1, <1>3 DEF Stack
<1>6. QED
  BY <1>4, <1>5, OthersKeep DEF Good

\* A step by one, not past the validation of the upload side, ensures nothing new.
LEMMA StaysEnsured ==
  ASSUME LifecycleInv, NEW p \in Processes, NEW s, BuilderRuns(p),
         s.builder = proc[p].builder, s.size = proc[p].size, s.step = proc[p].step + 1,
         ~AtStep(p, "validate")
  PROVE  Ensured(s, collection)
<1>1. proc[p] \in Process /\ Ensured(proc[p], collection)
  BY TheProcess DEF Good
<1>2. proc[p].builder \in {1, 2, 3} /\ proc[p].step \in Nat
  BY <1>1 DEF Process, Builders
<1>3. CASE proc[p].builder = 1 /\ proc[p].step = 9
  BY <1>3, IngestStepsAre DEF AtStep, Builders
<1>4. CASE ~(proc[p].builder = 1 /\ proc[p].step = 9)
  BY <1>1, <1>2, <1>4, IngestStepsAre DEF Ensured
<1>5. QED
  BY <1>3, <1>4

\* Where a builder that runs stands.
LEMMA RunningIs ==
  ASSUME LifecycleInv, NEW p \in Processes, BuilderRuns(p)
  PROVE  /\ proc[p] \in Process
         /\ proc[p].step + 1 <= Len(Builders[proc[p].builder]) + 1
         /\ AtStep(p, "exists") => proc[p].step + 2 <= Len(Builders[proc[p].builder]) + 1
         /\ AtStep(p, "create") => proc[p].step + 2 <= Len(Builders[proc[p].builder]) + 1
<1>1. proc[p] \in Process
  BY TheProcess DEF Good
<1>2. proc[p].builder \in DOMAIN Builders /\ proc[p].step \in Nat
  BY <1>1 DEF Process
<1>3. QED
  BY <1>1, <1>2, BuildersAre DEF BuilderRuns, AtStep

\* Opening a resource puts it on both stacks.
LEMMA OpenNextKeeps ==
  ASSUME LifecycleInv, LifecycleAssumption, NEW p \in Processes, OpenNext(p)
  PROVE  LifecycleInv'
<1>1. PICK name \in Resources :
        /\ AtStep(p, name)
        /\ Becomes(p, [Advanced(p, 1) EXCEPT !.building = Append(@, name),
                                             !.built = Append(@, name)])
  BY DEF OpenNext
<1> DEFINE s == [Advanced(p, 1) EXCEPT !.building = Append(@, name), !.built = Append(@, name)]
<1>2. BuilderRuns(p) /\ ~AtStep(p, "validate")
  BY <1>1, ValidateOpensNothing DEF AtStep
<1>3. proc[p] \in Process /\ proc[p].step + 1 <= Len(Builders[proc[p].builder]) + 1
  BY <1>2, RunningIs
<1>4. s \in Process
  <2>1. PICK m, b, t : /\ m = proc[p].step + 1 /\ b = Append(proc[p].building, name)
                       /\ t = Append(proc[p].built, name)
    OBVIOUS
  <2>2. m \in Nat /\ b \in Seq(Resources) /\ t \in Seq(Resources)
    BY <1>3, <2>1, AppendProperties DEF Process
  <2>3. s = [proc[p] EXCEPT !.step = m, !.building = b, !.built = t]
    BY <1>3, <2>1 DEF Process, Advanced
  <2>4. QED
    BY <1>3, <2>2, <2>3 DEF Process
<1>5. /\ s.phase = proc[p].phase /\ s.step = proc[p].step + 1
      /\ s.builder = proc[p].builder /\ s.size = proc[p].size
      /\ s.closers = proc[p].closers /\ s.closing = proc[p].closing
      /\ s.attempts = proc[p].attempts
      /\ s.building = Append(proc[p].building, name) /\ s.built = Append(proc[p].built, name)
  BY <1>3 DEF Process, Advanced
<1>6. proc' = [proc EXCEPT ![p] = s] /\ collection' = collection
  BY <1>1 DEF Becomes
<1> HIDE DEF s
<1>7. Ensured(s, collection')
  BY <1>2, <1>5, <1>6, StaysEnsured
<1>8. QED
  BY <1>2, <1>3, <1>4, <1>5, <1>6, <1>7, AdvanceKeeps

\* What the process is after a step of its builder that opens nothing.
LEMMA AdvancedIs ==
  ASSUME NEW p, proc[p] \in Process, NEW n \in {1, 2}, NEW s, s = Advanced(p, n)
  PROVE  /\ s \in Process
         /\ s.phase = proc[p].phase /\ s.step = proc[p].step + n
         /\ s.builder = proc[p].builder /\ s.size = proc[p].size
         /\ s.closers = proc[p].closers /\ s.closing = proc[p].closing
         /\ s.attempts = proc[p].attempts
         /\ s.building = proc[p].building /\ s.built = proc[p].built
<1>1. PICK m : m = proc[p].step + n
  OBVIOUS
<1>2. m \in Nat
  BY <1>1 DEF Process
<1>3. s = [proc[p] EXCEPT !.step = m]
  BY <1>1 DEF Advanced
<1>4. s \in Process
  BY <1>2, <1>3 DEF Process
<1>5. QED
  BY <1>1, <1>3, <1>4 DEF Process

\* A call of a builder that is not the validation.
LEMMA StepByOneKeeps ==
  ASSUME LifecycleInv, LifecycleAssumption, NEW p \in Processes, BuilderRuns(p),
         ~AtStep(p, "validate"), Becomes(p, Advanced(p, 1))
  PROVE  LifecycleInv'
<1>1. PICK s : s = Advanced(p, 1)
  OBVIOUS
<1>2. proc[p] \in Process /\ proc[p].step + 1 <= Len(Builders[proc[p].builder]) + 1
  BY RunningIs
<1>3. proc' = [proc EXCEPT ![p] = s] /\ collection' = collection
  BY <1>1 DEF Becomes
<1>4. /\ s \in Process
      /\ s.phase = proc[p].phase /\ s.step = proc[p].step + 1
      /\ s.builder = proc[p].builder /\ s.size = proc[p].size
      /\ s.closers = proc[p].closers /\ s.closing = proc[p].closing
      /\ s.attempts = proc[p].attempts
      /\ s.building = proc[p].building /\ s.built = proc[p].built
  BY <1>1, <1>2, AdvancedIs
<1>5. Ensured(s, collection')
  BY <1>3, <1>4, StaysEnsured
<1>6. QED
  BY <1>2, <1>3, <1>4, <1>5, AdvanceKeeps

\* The probe of the vector size and the creation of the index.
LEMMA CallReturnsKeeps ==
  ASSUME LifecycleInv, LifecycleAssumption, NEW p \in Processes, CallReturns(p)
  PROVE  LifecycleInv'
<1>1. PICK name \in Calls : AtStep(p, name)
  BY DEF CallReturns
<1>2. BuilderRuns(p) /\ ~AtStep(p, "validate")
  BY <1>1, ValidateOpensNothing DEF AtStep
<1>3. Becomes(p, Advanced(p, 1))
  BY DEF CallReturns
<1>4. QED
  BY <1>2, <1>3, StepByOneKeeps

\* Whoever finds the collection there goes on to validate it.
LEMMA CheckExistsKeeps ==
  ASSUME LifecycleInv, LifecycleAssumption, NEW p \in Processes, CheckExists(p)
  PROVE  LifecycleInv'
<1>1. /\ AtStep(p, "exists") /\ BuilderRuns(p) /\ ~AtStep(p, "validate")
      /\ UNCHANGED collection
  BY DEF CheckExists, AtStep, Becomes
<1>2. CASE collection = 0
  BY <1>1, <1>2, StepByOneKeeps DEF CheckExists
<1>3. CASE collection # 0
  <2>1. PICK s : s = Advanced(p, 2)
    OBVIOUS
  <2>2. proc[p] \in Process /\ proc[p].step + 2 <= Len(Builders[proc[p].builder]) + 1
    BY <1>1, RunningIs
  <2>3. proc' = [proc EXCEPT ![p] = s]
    BY <1>3, <2>1 DEF CheckExists, Becomes
  <2>4. Ensured(s, collection)
    <3>1. /\ Ensured(proc[p], collection)
          /\ proc[p].builder \in {1, 2, 3} /\ proc[p].step \in Nat
      BY <2>2, TheProcess DEF Process, Builders
    <3>2. CASE proc[p].builder = 1
      <4>1. proc[p].step = 7
        BY <1>1, <3>2, IngestStepsAre DEF AtStep, BuilderRuns, Builders
      <4>2. QED
        BY <2>1, <2>2, <3>2, <4>1, AdvancedIs, IngestStepsAre DEF Ensured
    <3>3. CASE proc[p].builder # 1
      BY <2>1, <2>2, <3>1, <3>3, AdvancedIs DEF Ensured
    <3>4. QED
      BY <3>2, <3>3
  <2>5. /\ s \in Process
        /\ s.phase = proc[p].phase /\ s.step = proc[p].step + 2
        /\ s.builder = proc[p].builder /\ s.size = proc[p].size
        /\ s.closers = proc[p].closers /\ s.closing = proc[p].closing
        /\ s.attempts = proc[p].attempts
        /\ s.building = proc[p].building /\ s.built = proc[p].built
    BY <2>1, <2>2, AdvancedIs
  <2>6. QED
    BY <1>1, <2>2, <2>3, <2>4, <2>5, AdvanceKeeps
<1>4. QED
  BY <1>2, <1>3

\* The winner makes the collection of its own size; a loser goes on to validate.
LEMMA CreateKeeps ==
  ASSUME LifecycleInv, LifecycleAssumption, NEW p \in Processes, Create(p)
  PROVE  LifecycleInv'
<1>1. AtStep(p, "create") /\ BuilderRuns(p) /\ ~AtStep(p, "validate")
  BY DEF Create, AtStep
<1>2. CASE /\ collection = 0
           /\ collection' = proc[p].size
           /\ proc' = [proc EXCEPT ![p] = Advanced(p, 2)]
  <2>1. PICK s : s = Advanced(p, 2)
    OBVIOUS
  <2>2. proc[p] \in Process /\ proc[p].step + 2 <= Len(Builders[proc[p].builder]) + 1
    BY <1>1, RunningIs
  <2>3. proc' = [proc EXCEPT ![p] = s] /\ collection' \in Sizes
    BY <1>2, <2>1, <2>2 DEF Process
  <2>4. Ensured(s, collection')
    BY <1>2, <2>1, <2>2, AdvancedIs DEF Ensured
  <2>5. /\ s \in Process
        /\ s.phase = proc[p].phase /\ s.step = proc[p].step + 2
        /\ s.builder = proc[p].builder /\ s.size = proc[p].size
        /\ s.closers = proc[p].closers /\ s.closing = proc[p].closing
        /\ s.attempts = proc[p].attempts
        /\ s.building = proc[p].building /\ s.built = proc[p].built
    BY <2>1, <2>2, AdvancedIs
  <2>6. QED
    BY <1>1, <1>2, <2>2, <2>3, <2>4, <2>5, AdvanceKeeps
<1>3. CASE collection # 0 /\ Becomes(p, Advanced(p, 1))
  BY <1>1, <1>3, StepByOneKeeps
<1>4. QED
  BY <1>2, <1>3 DEF Create

\* A step that raises: what the builder opened goes first, then the earlier ones.
LEMMA FailKeeps ==
  ASSUME LifecycleInv, LifecycleAssumption, NEW p \in Processes, BuilderRuns(p), Fail(p)
  PROVE  LifecycleInv'
<1>1. proc[p] \in Process /\ Good(proc[p]) /\ Ensured(proc[p], collection)
  BY TheProcess DEF Good
<1>2. PICK c : c = Reverse(proc[p].building) \o proc[p].closers
  OBVIOUS
<1>3. /\ proc[p].building \in Seq(Resources) /\ proc[p].closers \in Seq(Resources)
      /\ proc[p].phase = "building"
  BY <1>1 DEF Process, BuilderRuns
<1>4. c \in Seq(Resources) /\ <<>> \o c = c
  <2>1. Reverse(proc[p].building) \in Seq(Resources)
    BY <1>3, ReverseIs
  <2>2. c \in Seq(Resources)
    BY <1>2, <1>3, <2>1, ConcatProperties
  <2>3. QED
    BY <2>2, ConcatEmptySeq
<1>5. PICK s : s = [proc[p] EXCEPT !.phase = "unwinding", !.closing = c]
  OBVIOUS
<1>6. s \in Process
  BY <1>1, <1>4, <1>5 DEF Process
<1>7. /\ s.phase = "unwinding" /\ s.closing = c
      /\ s.attempts = proc[p].attempts /\ s.built = proc[p].built
      /\ s.step = proc[p].step /\ s.builder = proc[p].builder /\ s.size = proc[p].size
  BY <1>1, <1>5 DEF Process
<1>8. Stack(s)
  BY <1>1, <1>2, <1>3, <1>4, <1>7 DEF Good, Stack
<1>9. Good(s)
  BY <1>1, <1>6, <1>7, <1>8 DEF Good, InRange
<1>10. proc' = [proc EXCEPT ![p] = s] /\ UNCHANGED collection
  BY <1>2, <1>5 DEF Fail, Becomes
<1>11. Ensured(s, collection')
  BY <1>1, <1>7, <1>10 DEF Ensured
<1>12. QED
  BY <1>9, <1>10, <1>11, OthersKeep

\* Whoever passes the validation has the size of the collection.
LEMMA ValidateKeeps ==
  ASSUME LifecycleInv, LifecycleAssumption, NEW p \in Processes, Validate(p)
  PROVE  LifecycleInv'
<1>1. BuilderRuns(p)
  BY DEF Validate, AtStep
<1>2. CASE collection # proc[p].size /\ Fail(p)
  BY <1>1, <1>2, FailKeeps
<1>3. CASE collection = proc[p].size /\ Becomes(p, Advanced(p, 1))
  <2>1. PICK s : s = Advanced(p, 1)
    OBVIOUS
  <2>2. proc[p] \in Process /\ proc[p].step + 1 <= Len(Builders[proc[p].builder]) + 1
    BY <1>1, RunningIs
  <2>3. proc' = [proc EXCEPT ![p] = s] /\ collection' = collection
    BY <1>3, <2>1 DEF Becomes
  <2>4. Ensured(s, collection')
    BY <1>3, <2>1, <2>2, <2>3, AdvancedIs DEF Ensured
  <2>5. /\ s \in Process
        /\ s.phase = proc[p].phase /\ s.step = proc[p].step + 1
        /\ s.builder = proc[p].builder /\ s.size = proc[p].size
        /\ s.closers = proc[p].closers /\ s.closing = proc[p].closing
        /\ s.attempts = proc[p].attempts
        /\ s.building = proc[p].building /\ s.built = proc[p].built
    BY <2>1, <2>2, AdvancedIs
  <2>6. QED
    BY <1>1, <2>2, <2>3, <2>4, <2>5, AdvanceKeeps
<1>4. QED
  BY <1>2, <1>3 DEF Validate

\* What a builder that is done leaves: its stack on top of the earlier ones.
LEMMA CollectedIs ==
  ASSUME LifecycleInv, NEW p \in Processes, BuilderDone(p)
  PROVE  /\ proc[p] \in Process /\ Ensured(proc[p], collection)
         /\ proc[p].phase = "building" /\ proc[p].attempts = <<>> /\ proc[p].closing = <<>>
         /\ Collected(p) \in Seq(Resources)
         /\ Collected(p) = Reverse(proc[p].built)
         /\ Reverse(<<>>) \o Collected(p) = Collected(p)
<1>1. /\ proc[p] \in Process /\ Good(proc[p]) /\ Ensured(proc[p], collection)
      /\ proc[p].phase = "building"
  BY TheProcess DEF Good, BuilderDone
<1>2. /\ proc[p].attempts = <<>> /\ proc[p].closing = <<>>
      /\ Collected(p) = Reverse(proc[p].built)
  BY <1>1 DEF Good, Stack, Collected
<1>3. Collected(p) \in Seq(Resources)
  <2>1. proc[p].built \in Seq(Resources)
    BY <1>1 DEF Process
  <2>2. QED
    BY <1>2, <2>1, ReverseIs
<1>4. QED
  BY <1>1, <1>2, <1>3, ReverseEmpty, ConcatEmptySeq

\* The upload side is done: its vector store is ensured.
LEMMA BuilderReturnsKeeps ==
  ASSUME LifecycleInv, LifecycleAssumption, NEW p \in Processes, BuilderReturns(p)
  PROVE  LifecycleInv'
<1>1. BuilderDone(p) /\ proc[p].builder < Len(Builders)
  BY DEF BuilderReturns
<1>2. /\ proc[p].builder \in {1, 2, 3} /\ proc[p].step \in Nat
      /\ proc[p].builder + 1 \in DOMAIN Builders /\ proc[p].builder + 1 > 1
  <2>1. proc[p].builder \in {1, 2, 3} /\ proc[p].step \in Nat
    BY <1>1, CollectedIs DEF Process, Builders
  <2>2. Len(Builders) = 3 /\ DOMAIN Builders = {1, 2, 3}
    BY DEF Builders
  <2>3. QED
    BY <1>1, <2>1, <2>2
<1>3. PICK c, b, s :
        /\ c = Collected(p) /\ b = proc[p].builder + 1
        /\ s = [proc[p] EXCEPT !.closers = c, !.building = <<>>, !.builder = b, !.step = 1]
  OBVIOUS
<1>4. proc' = [proc EXCEPT ![p] = s] /\ UNCHANGED collection
  <2>1. s = [proc[p] EXCEPT !.closers = Collected(p), !.building = <<>>,
                            !.builder = proc[p].builder + 1, !.step = 1]
    BY <1>3
  <2>2. QED
    BY <2>1 DEF BuilderReturns, Becomes
<1>5. s \in Process
  <2>1. proc[p] \in Process /\ c \in Seq(Resources) /\ <<>> \in Seq(Resources)
    BY <1>1, <1>3, CollectedIs
  <2>2. b \in DOMAIN Builders /\ 1 \in Nat
    BY <1>2, <1>3
  <2>3. QED
    BY <1>3, <2>1, <2>2 DEF Process
<1>6. /\ s.phase = "building" /\ s.closers = c /\ s.building = <<>> /\ s.builder = b
      /\ s.step = 1 /\ s.built = proc[p].built /\ s.attempts = <<>> /\ s.closing = <<>>
      /\ s.size = proc[p].size
  BY <1>1, <1>3, CollectedIs DEF Process
<1>7. Stack(s)
  BY <1>1, <1>3, <1>6, CollectedIs DEF Stack
<1>8. InRange(s)
  BY <1>2, <1>3, <1>6, BuildersAre DEF InRange
<1>9. Ensured(s, collection')
  <2>1. CASE proc[p].builder = 1
    <3>1. proc[p].step >= Len(IngestSteps)
      <4>1. Builders[1] = IngestSteps
        BY DEF Builders
      <4>2. proc[p].step >= 1 /\ proc[p].step \notin 1 .. 10
        BY <1>1, <2>1, <4>1, TheProcess, IngestStepsAre DEF BuilderDone, Good, InRange
      <4>3. QED
        BY <1>2, <4>2, IngestStepsAre
    <3>2. QED
      BY <1>1, <1>4, <1>6, <3>1, CollectedIs DEF Ensured
  <2>2. CASE proc[p].builder # 1
    BY <1>1, <1>2, <1>4, <1>6, <2>2, CollectedIs DEF Ensured
  <2>3. QED
    BY <2>1, <2>2
<1>10. QED
  BY <1>4, <1>5, <1>7, <1>8, <1>9, OthersKeep DEF Good

\* The last builder is done: all closers are on one stack.
LEMMA ServeKeeps ==
  ASSUME LifecycleInv, LifecycleAssumption, NEW p \in Processes, Serve(p)
  PROVE  LifecycleInv'
<1>1. BuilderDone(p)
  BY DEF Serve
<1>2. PICK c, s : /\ c = Collected(p)
                  /\ s = [proc[p] EXCEPT !.closers = c, !.building = <<>>, !.phase = "serving"]
  OBVIOUS
<1>3. proc' = [proc EXCEPT ![p] = s] /\ UNCHANGED collection
  BY <1>2 DEF Serve, Becomes
<1>4. s \in Process
  <2>1. proc[p] \in Process /\ c \in Seq(Resources) /\ <<>> \in Seq(Resources)
    BY <1>1, <1>2, CollectedIs
  <2>2. QED
    BY <1>2, <2>1 DEF Process
<1>5. /\ s.phase = "serving" /\ s.closers = c /\ s.building = <<>>
      /\ s.built = proc[p].built /\ s.attempts = <<>> /\ s.closing = <<>>
      /\ s.step = proc[p].step /\ s.builder = proc[p].builder /\ s.size = proc[p].size
  BY <1>1, <1>2, CollectedIs DEF Process
<1>6. Stack(s)
  BY <1>1, <1>2, <1>5, CollectedIs DEF Stack
<1>7. InRange(s)
  BY <1>5, TheProcess DEF Good, InRange
<1>8. Ensured(s, collection')
  BY <1>3, <1>5, TheProcess DEF Ensured
<1>9. QED
  BY <1>3, <1>4, <1>6, <1>7, <1>8, OthersKeep DEF Good

\* Shutdown calls the closers from the top.
LEMMA ShutdownKeeps ==
  ASSUME LifecycleInv, LifecycleAssumption, NEW p \in Processes, Shutdown(p)
  PROVE  LifecycleInv'
<1>1. /\ proc[p] \in Process /\ Good(proc[p]) /\ Ensured(proc[p], collection)
      /\ proc[p].phase = "serving"
  BY TheProcess DEF Good, Shutdown
<1>2. PICK s : s = [proc[p] EXCEPT !.phase = "stopping", !.closing = proc[p].closers]
  OBVIOUS
<1>3. proc' = [proc EXCEPT ![p] = s] /\ UNCHANGED collection
  BY <1>2 DEF Shutdown, Becomes
<1>4. s \in Process /\ proc[p].closers \in Seq(Resources)
  BY <1>1, <1>2 DEF Process
<1>5. /\ s.phase = "stopping" /\ s.closing = proc[p].closers
      /\ s.built = proc[p].built /\ s.attempts = proc[p].attempts
      /\ s.step = proc[p].step /\ s.builder = proc[p].builder /\ s.size = proc[p].size
  BY <1>1, <1>2 DEF Process
<1>6. Stack(s)
  <2>1. /\ proc[p].attempts = <<>>
        /\ Reverse(<<>>) \o proc[p].closers = Reverse(proc[p].built)
    BY <1>1 DEF Good, Stack
  <2>2. <<>> \o proc[p].closers = proc[p].closers
    BY <1>4, ConcatEmptySeq
  <2>3. QED
    BY <1>5, <2>1, <2>2, ReverseEmpty DEF Stack
<1>7. InRange(s) /\ Ensured(s, collection')
  BY <1>1, <1>3, <1>5 DEF Good, InRange, Ensured
<1>8. QED
  BY <1>3, <1>4, <1>6, <1>7, OthersKeep DEF Good

\* Whether the next close returns or raises, it counts as attempted.
LEMMA CloseNextKeeps ==
  ASSUME LifecycleInv, LifecycleAssumption, NEW p \in Processes, CloseNext(p)
  PROVE  LifecycleInv'
<1>1. /\ proc[p] \in Process /\ Good(proc[p]) /\ Ensured(proc[p], collection)
      /\ proc[p].closing # <<>>
  BY TheProcess DEF Good, CloseNext
<1>2. proc[p].closing \in Seq(Resources) /\ proc[p].attempts \in Seq(Resources)
  BY <1>1 DEF Process
<1>3. PICK a, c, s : /\ a = Append(proc[p].attempts, Head(proc[p].closing))
                     /\ c = Tail(proc[p].closing)
                     /\ s = [proc[p] EXCEPT !.attempts = a, !.closing = c]
  OBVIOUS
<1>4. proc' = [proc EXCEPT ![p] = s] /\ UNCHANGED collection
  <2>1. s = [proc[p] EXCEPT !.attempts = Append(@, Head(proc[p].closing)),
                            !.closing = Tail(@)]
    BY <1>1, <1>3 DEF Process
  <2>2. QED
    BY <2>1 DEF CloseNext, Becomes
<1>5. /\ a \in Seq(Resources) /\ c \in Seq(Resources)
      /\ a \o c = proc[p].attempts \o proc[p].closing
  <2>1. Head(proc[p].closing) \in Resources /\ c \in Seq(Resources)
    BY <1>1, <1>2, <1>3, HeadTailProperties
  <2>2. a \in Seq(Resources)
    BY <1>2, <1>3, <2>1, AppendProperties
  <2>3. Append(proc[p].attempts, Head(proc[p].closing)) \o Tail(proc[p].closing)
          = proc[p].attempts \o proc[p].closing
    BY <1>1, <1>2, NextClose
  <2>4. QED
    BY <1>3, <2>1, <2>2, <2>3
<1>6. s \in Process
  BY <1>1, <1>3, <1>5 DEF Process
<1>7. /\ s.phase = proc[p].phase /\ s.attempts = a /\ s.closing = c
      /\ s.built = proc[p].built
      /\ s.step = proc[p].step /\ s.builder = proc[p].builder /\ s.size = proc[p].size
  BY <1>1, <1>3 DEF Process
<1>8. proc[p].phase \in {"unwinding", "stopping"}
  BY <1>1 DEF Good, Stack, Process
<1>9. Stack(s)
  BY <1>1, <1>5, <1>7, <1>8 DEF Good, Stack
<1>10. InRange(s) /\ Ensured(s, collection')
  BY <1>1, <1>4, <1>7 DEF Good, InRange, Ensured
<1>11. QED
  BY <1>4, <1>6, <1>9, <1>10, OthersKeep DEF Good

\* The process ends when nothing is left to close.
LEMMA ExitKeeps ==
  ASSUME LifecycleInv, LifecycleAssumption, NEW p \in Processes, Exit(p)
  PROVE  LifecycleInv'
<1>1. /\ proc[p] \in Process /\ Good(proc[p]) /\ Ensured(proc[p], collection)
      /\ proc[p].phase \in {"unwinding", "stopping"} /\ proc[p].closing = <<>>
  BY TheProcess DEF Good, Exit
<1>2. PICK s : s = [proc[p] EXCEPT !.phase = "stopped"]
  OBVIOUS
<1>3. proc' = [proc EXCEPT ![p] = s] /\ UNCHANGED collection
  BY <1>2 DEF Exit, Becomes
<1>4. s \in Process
  BY <1>1, <1>2 DEF Process
<1>5. /\ s.phase = "stopped" /\ s.closing = proc[p].closing
      /\ s.built = proc[p].built /\ s.attempts = proc[p].attempts
      /\ s.step = proc[p].step /\ s.builder = proc[p].builder /\ s.size = proc[p].size
  BY <1>1, <1>2 DEF Process
<1>6. Stack(s)
  BY <1>1, <1>5 DEF Good, Stack
<1>7. InRange(s) /\ Ensured(s, collection')
  BY <1>1, <1>3, <1>5 DEF Good, InRange, Ensured
<1>8. QED
  BY <1>3, <1>4, <1>6, <1>7, OthersKeep DEF Good

\* A crash leaves the collection to the next start.
LEMMA RestartKeeps ==
  ASSUME LifecycleInv, LifecycleAssumption, NEW p \in Processes, Restart(p)
  PROVE  LifecycleInv'
<1>1. PICK n \in Sizes : Becomes(p, Down(n))
  BY DEF Restart
<1>2. PICK s : s = Down(n)
  OBVIOUS
<1>3. Good(s) /\ Ensured(s, collection')
  BY <1>2, DownIsGood
<1>4. proc' = [proc EXCEPT ![p] = s] /\ UNCHANGED collection
  BY <1>1, <1>2 DEF Becomes
<1>5. QED
  BY <1>3, <1>4, OthersKeep

-----------------------------------------------------------------------------
(* A retrieval and its clients *)

\* Which steps open the pool and the clients it shares, and where no call of a
\* builder steps past the opening of the pool.
LEMMA PoolPlace ==
  ASSUME NEW b \in DOMAIN Builders, NEW i \in DOMAIN Builders[b]
  PROVE  /\ Builders[b][i] = Pool <=> b = 2 /\ i = 7
         /\ Builders[b][i] \in Clients => b = 2 /\ i < 7
         /\ Builders[b][i] \in {"exists", "create"} /\ b = 2 => i + 2 <= 7
<1>1. DOMAIN Builders = {1, 2, 3}
  BY DEF Builders
<1>2. Builders[1] = IngestSteps /\ Builders[2] = ChatSteps /\ Builders[3] = ReadySteps
  BY DEF Builders
<1>3. CASE b = 1
  <2>1. i \in 1 .. 10 /\ Builders[b][i] = IngestSteps[i]
    BY <1>2, <1>3, IngestStepsAre
  <2>2. IngestSteps[i] # Pool /\ IngestSteps[i] \notin Clients
    BY <2>1, IngestStepsAre
  <2>3. QED
    BY <1>3, <2>1, <2>2
<1>4. CASE b = 2
  <2>1. i \in 1 .. 11 /\ Builders[b][i] = ChatSteps[i]
    BY <1>2, <1>4, ChatStepsAre
  <2>2. /\ ChatSteps[i] = Pool <=> i = 7
        /\ ChatSteps[i] \in Clients => i < 7
        /\ ChatSteps[i] = "exists" => i = 4
        /\ ChatSteps[i] = "create" => i = 5
    BY <2>1, ChatStepsAre
  <2>3. QED
    BY <1>4, <2>1, <2>2
<1>5. CASE b = 3
  <2>1. i \in 1 .. 3 /\ Builders[b][i] = ReadySteps[i]
    BY <1>2, <1>5, ReadyStepsAre
  <2>2. ReadySteps[i] # Pool /\ ReadySteps[i] \notin Clients
    BY <2>1, ReadyStepsAre
  <2>3. QED
    BY <1>5, <2>1, <2>2
<1>6. QED
  BY <1>1, <1>3, <1>4, <1>5

\* The step of one process leaves the others as they are.
LEMMA OnlyItsOwn ==
  ASSUME RetrievalInv, LifecycleInv', NEW p \in Processes, NEW s,
         proc' = [proc EXCEPT ![p] = s], OpenOrder(s), ReaderState(s)
  PROVE  RetrievalInv'
<1>1. \A q \in Processes : proc'[q] = IF q = p THEN s ELSE proc[q]
  BY DEF RetrievalInv, LifecycleInv
<1>2. QED
  BY <1>1 DEF RetrievalInv

\* What is known of the process that takes a step.
LEMMA ItsReader ==
  ASSUME RetrievalInv, NEW p \in Processes
  PROVE  /\ proc[p] \in Process /\ InRange(proc[p]) /\ Stack(proc[p])
         /\ OpenOrder(proc[p]) /\ ReaderState(proc[p])
  BY TheProcess DEF RetrievalInv, Good

\* Steps that open nothing and keep the place in the builders.
LEMMA OrderStays ==
  ASSUME NEW r, NEW s, OpenOrder(r), s.built = r.built, s.builder = r.builder, s.step = r.step
  PROVE  OpenOrder(s)
  BY DEF OpenOrder

\* A process that begins, unwinds, serves or is told to stop.
LEMMA PhaseSteps ==
  ASSUME RetrievalInv, LifecycleInv', NEW p \in Processes,
         \/ Start(p)
         \/ Fail(p) /\ proc[p].phase = "building"
         \/ Serve(p) \/ Shutdown(p) \/ Exit(p)
  PROVE  RetrievalInv'
<1> DEFINE r == proc[p]
<1>1. /\ r \in Process /\ InRange(r) /\ Stack(r) /\ OpenOrder(r) /\ ReaderState(r)
  BY ItsReader
<1>2. \A s : Becomes(p, s) => proc' = [proc EXCEPT ![p] = s]
  BY DEF Becomes
<1>3. CASE Start(p)
  <2> DEFINE s == [r EXCEPT !.phase = "building"]
  <2>1. /\ s.phase = "building" /\ s.built = r.built /\ s.builder = r.builder /\ s.step = r.step
        /\ s.retrieving = r.retrieving /\ s.reader = r.reader /\ s.attempts = r.attempts
    BY <1>1 DEF Process
  <2>2. Becomes(p, s) /\ r.phase = "down"
    BY <1>3 DEF Start
  <2> HIDE DEF s
  <2>3. OpenOrder(s)
    BY <1>1, <2>1, OrderStays
  <2>4. ReaderState(s)
    BY <1>1, <2>1, <2>2 DEF ReaderState
  <2>5. QED
    BY <1>2, <2>2, <2>3, <2>4, OnlyItsOwn
<1>4. CASE Fail(p) /\ r.phase = "building"
  <2>1. PICK c : c = Reverse(r.building) \o r.closers
    OBVIOUS
  <2> DEFINE s == [r EXCEPT !.phase = "unwinding", !.closing = c]
  <2>2. /\ s.phase = "unwinding" /\ s.built = r.built /\ s.builder = r.builder /\ s.step = r.step
        /\ s.retrieving = r.retrieving /\ s.reader = r.reader /\ s.attempts = r.attempts
    BY <1>1 DEF Process
  <2>3. Becomes(p, s) /\ r.phase = "building"
    BY <1>4, <2>1 DEF Fail
  <2> HIDE DEF s
  <2>4. OpenOrder(s)
    BY <1>1, <2>2, OrderStays
  <2>5. ReaderState(s)
    BY <1>1, <2>2, <2>3 DEF ReaderState
  <2>6. QED
    BY <1>2, <2>3, <2>4, <2>5, OnlyItsOwn
<1>5. CASE Serve(p)
  <2>1. PICK c : c = Collected(p)
    OBVIOUS
  <2> DEFINE s == [r EXCEPT !.closers = c, !.building = <<>>, !.phase = "serving"]
  <2>2. /\ s.phase = "serving" /\ s.built = r.built /\ s.builder = r.builder /\ s.step = r.step
        /\ s.retrieving = r.retrieving /\ s.reader = r.reader /\ s.attempts = r.attempts
    BY <1>1 DEF Process
  <2>3. Becomes(p, s) /\ r.phase = "building" /\ r.builder = 3
    BY <1>5, <2>1 DEF Serve, BuilderDone, Builders
  <2> HIDE DEF s
  <2>4. OpenOrder(s)
    BY <1>1, <2>2, OrderStays
  <2>5. ReaderState(s)
    BY <1>1, <2>2, <2>3 DEF ReaderState
  <2>6. QED
    BY <1>2, <2>3, <2>4, <2>5, OnlyItsOwn
<1>6. CASE Shutdown(p)
  <2>1. PICK c : c = r.closers
    OBVIOUS
  <2> DEFINE s == [r EXCEPT !.phase = "stopping", !.closing = c]
  <2>2. /\ s.phase = "stopping" /\ s.built = r.built /\ s.builder = r.builder /\ s.step = r.step
        /\ s.retrieving = r.retrieving /\ s.reader = r.reader /\ s.attempts = r.attempts
    BY <1>1 DEF Process
  <2>3. Becomes(p, s) /\ r.phase = "serving"
    BY <1>6, <2>1 DEF Shutdown
  <2> HIDE DEF s
  <2>4. OpenOrder(s)
    BY <1>1, <2>2, OrderStays
  <2>5. ReaderState(s)
    BY <1>1, <2>2, <2>3 DEF ReaderState
  <2>6. QED
    BY <1>2, <2>3, <2>4, <2>5, OnlyItsOwn
<1>7. CASE Exit(p)
  <2> DEFINE s == [r EXCEPT !.phase = "stopped"]
  <2>1. /\ s.phase = "stopped" /\ s.built = r.built /\ s.builder = r.builder /\ s.step = r.step
        /\ s.retrieving = r.retrieving /\ s.reader = r.reader /\ s.attempts = r.attempts
    BY <1>1 DEF Process
  <2>2. Becomes(p, s) /\ r.phase \in {"unwinding", "stopping"} /\ r.closing = <<>>
    BY <1>7 DEF Exit
  <2> HIDE DEF s
  <2>3. OpenOrder(s)
    BY <1>1, <2>1, OrderStays
  <2>4. ASSUME r.retrieving PROVE FALSE
    <3>1. r.phase = "stopping" /\ r.builder = 3 /\ r.reader = "open"
      BY <1>1, <2>2, <2>4 DEF ReaderState
    <3>2. PICK i \in DOMAIN r.built : r.built[i] = Pool
      BY <1>1, <3>1 DEF OpenOrder
    <3>3. r.attempts = Reverse(r.built)
      BY <1>1, <2>2, <3>1, ConcatEmptySeq DEF Stack, Process
    <3>4. /\ Len(r.built) + 1 - i \in DOMAIN Reverse(r.built)
          /\ Reverse(r.built)[Len(r.built) + 1 - i] = r.built[i]
      <4>1. r.built \in Seq(Resources)
        BY <1>1 DEF Process
      <4>2. QED
        BY <4>1, ReverseAt
    <3>5. QED
      BY <1>1, <3>1, <3>2, <3>3, <3>4 DEF ReaderState
  <2>5. ReaderState(s)
    BY <1>1, <2>1, <2>4 DEF ReaderState
  <2>6. QED
    BY <1>2, <2>2, <2>3, <2>5, OnlyItsOwn
<1>8. QED
  BY <1>3, <1>4, <1>5, <1>6, <1>7

\* A retrieval starts while nothing is closed, and its pair is closed only once
\* it has returned.
LEMMA ReaderSteps ==
  ASSUME RetrievalInv, LifecycleInv', NEW p \in Processes,
         Retrieve(p) \/ RetrieveReturns(p) \/ CloseReader(p)
  PROVE  RetrievalInv'
<1> DEFINE r == proc[p]
<1>1. /\ r \in Process /\ InRange(r) /\ Stack(r) /\ OpenOrder(r) /\ ReaderState(r)
  BY ItsReader
<1>2. \A s : Becomes(p, s) => proc' = [proc EXCEPT ![p] = s]
  BY DEF Becomes
<1>3. CASE Retrieve(p)
  <2> DEFINE s == [r EXCEPT !.retrieving = TRUE, !.reader = "open"]
  <2>1. /\ s.phase = r.phase /\ s.built = r.built /\ s.builder = r.builder /\ s.step = r.step
        /\ s.reader = "open" /\ s.attempts = r.attempts
    BY <1>1 DEF Process
  <2>2. Becomes(p, s) /\ r.phase = "serving"
    BY <1>3 DEF Retrieve
  <2> HIDE DEF s
  <2>3. OpenOrder(s)
    BY <1>1, <2>1, OrderStays
  <2>4. r.attempts = <<>>
    BY <1>1, <2>2 DEF Stack
  <2>5. ReaderState(s)
    BY <1>1, <2>1, <2>2, <2>4 DEF ReaderState
  <2>6. QED
    BY <1>2, <2>2, <2>3, <2>5, OnlyItsOwn
<1>4. CASE RetrieveReturns(p)
  <2> DEFINE s == [r EXCEPT !.retrieving = FALSE]
  <2>1. /\ s.phase = r.phase /\ s.built = r.built /\ s.builder = r.builder /\ s.step = r.step
        /\ s.retrieving = FALSE /\ s.reader = r.reader /\ s.attempts = r.attempts
    BY <1>1 DEF Process
  <2>2. Becomes(p, s)
    BY <1>4 DEF RetrieveReturns
  <2> HIDE DEF s
  <2>3. OpenOrder(s)
    BY <1>1, <2>1, OrderStays
  <2>4. ReaderState(s)
    BY <1>1, <2>1 DEF ReaderState
  <2>5. QED
    BY <1>2, <2>2, <2>3, <2>4, OnlyItsOwn
<1>5. CASE CloseReader(p)
  <2>1. PICK leaks \in BOOLEAN : Becomes(p, [r EXCEPT !.reader = "closed", !.leaked = leaks])
    BY <1>5 DEF CloseReader
  <2> DEFINE s == [r EXCEPT !.reader = "closed", !.leaked = leaks]
  <2>2. /\ s.phase = r.phase /\ s.built = r.built /\ s.builder = r.builder /\ s.step = r.step
        /\ s.retrieving = r.retrieving /\ s.reader = "closed" /\ s.attempts = r.attempts
    BY <1>1 DEF Process
  <2>3. Becomes(p, s) /\ ~r.retrieving
    BY <1>5, <2>1 DEF CloseReader
  <2> HIDE DEF s
  <2>4. OpenOrder(s)
    BY <1>1, <2>2, OrderStays
  <2>5. ReaderState(s)
    BY <1>1, <2>2, <2>3 DEF ReaderState
  <2>6. QED
    BY <1>2, <2>3, <2>4, <2>5, OnlyItsOwn
<1>6. QED
  BY <1>3, <1>4, <1>5

\* The pool is closed after its pair.
LEMMA CloseNextStep ==
  ASSUME RetrievalInv, LifecycleInv', NEW p \in Processes, CloseNext(p)
  PROVE  RetrievalInv'
<1> DEFINE r == proc[p]
<1>1. /\ r \in Process /\ InRange(r) /\ Stack(r) /\ OpenOrder(r) /\ ReaderState(r)
  BY ItsReader
<1>2. r.attempts \in Seq(Resources) /\ r.closing \in Seq(Resources) /\ r.closing # <<>>
  BY <1>1 DEF Process, CloseNext
<1>3. PICK h, a, c : h = Head(r.closing) /\ a = Append(r.attempts, h) /\ c = Tail(r.closing)
  OBVIOUS
<1> DEFINE s == [r EXCEPT !.attempts = a, !.closing = c]
<1>4. /\ s.phase = r.phase /\ s.built = r.built /\ s.builder = r.builder /\ s.step = r.step
      /\ s.retrieving = r.retrieving /\ s.reader = r.reader /\ s.attempts = a
  BY <1>1 DEF Process
<1>5. Becomes(p, s)
  <2>1. s = [proc[p] EXCEPT !.attempts = Append(@, Head(proc[p].closing)), !.closing = Tail(@)]
    BY <1>1, <1>3 DEF Process
  <2>2. QED
    BY <2>1 DEF CloseNext
<1> HIDE DEF s
<1>6. h = Pool => r.reader # "open"
  BY <1>2, <1>3 DEF CloseNext, AtCloser, Pool
<1>7. h \in Resources
  BY <1>2, <1>3, HeadTailProperties
<1>8. ASSUME NEW i \in DOMAIN a, a[i] = Pool PROVE r.reader # "open"
  <2>1. /\ DOMAIN a = 1 .. (Len(r.attempts) + 1) /\ DOMAIN r.attempts = 1 .. Len(r.attempts)
        /\ a[Len(r.attempts) + 1] = h /\ \A j \in 1 .. Len(r.attempts) : a[j] = r.attempts[j]
        /\ Len(r.attempts) \in Nat
    BY <1>2, <1>3, <1>7, AppendProperties
  <2>2. CASE i \in 1 .. Len(r.attempts)
    BY <1>1, <1>8, <2>1, <2>2 DEF ReaderState
  <2>3. CASE i = Len(r.attempts) + 1
    BY <1>6, <1>8, <2>1, <2>3
  <2>4. QED
    BY <2>1, <2>2, <2>3
<1>9. OpenOrder(s)
  BY <1>1, <1>4, OrderStays
<1>10. ReaderState(s)
  BY <1>1, <1>4, <1>8 DEF ReaderState
<1>11. QED
  BY <1>5, <1>9, <1>10, OnlyItsOwn DEF Becomes

\* A builder that goes on without opening anything has opened the pool after the
\* step exactly if it had before.
LEMMA AdvanceStep ==
  ASSUME RetrievalInv, LifecycleInv', NEW p \in Processes, BuilderRuns(p),
         NEW n \in {1, 2}, proc' = [proc EXCEPT ![p] = Advanced(p, n)],
         ~AtStep(p, Pool), n = 2 => AtStep(p, "exists") \/ AtStep(p, "create")
  PROVE  RetrievalInv'
<1> DEFINE r == proc[p]
<1>1. /\ r \in Process /\ InRange(r) /\ Stack(r) /\ OpenOrder(r) /\ ReaderState(r)
  BY ItsReader
<1>2. r.builder \in DOMAIN Builders /\ r.step \in DOMAIN Builders[r.builder] /\ r.step \in Nat
  BY <1>1 DEF Process, BuilderRuns
<1>3. r.builder = 2 => r.step > 7 \/ r.step + n <= 7
  <2>1. /\ r.builder = 2 => r.step # 7
        /\ r.builder = 2 /\ n = 2 => r.step + 2 <= 7
    BY <1>2, PoolPlace DEF AtStep
  <2>2. QED
    BY <1>2, <2>1
<1>4. PICK m : m = r.step + n
  OBVIOUS
<1>5. PICK s : s = Advanced(p, n)
  OBVIOUS
<1>6. /\ s.phase = r.phase /\ s.built = r.built /\ s.builder = r.builder /\ s.step = r.step + n
      /\ s.retrieving = r.retrieving /\ s.reader = r.reader /\ s.attempts = r.attempts
  BY <1>1, <1>4, <1>5 DEF Process, Advanced
<1>7. OpenOrder(s)
  BY <1>1, <1>2, <1>3, <1>6 DEF OpenOrder
<1>8. ReaderState(s)
  BY <1>1, <1>6 DEF ReaderState
<1>9. QED
  BY <1>5, <1>7, <1>8, OnlyItsOwn

\* The calls of a builder open nothing.
LEMMA CallSteps ==
  ASSUME RetrievalInv, LifecycleInv', NEW p \in Processes,
         CallReturns(p) \/ CheckExists(p) \/ Create(p) \/ Validate(p)
  PROVE  RetrievalInv'
<1>1. \A name, other : AtStep(p, name) /\ AtStep(p, other) => name = other
  BY DEF AtStep
<1>2. \A name : AtStep(p, name) => BuilderRuns(p)
  BY DEF AtStep
<1>3. Pool \notin Calls \cup {"exists", "create", "validate"}
  BY DEF Pool, Calls
<1>4. \A s : Becomes(p, s) => proc' = [proc EXCEPT ![p] = s]
  BY DEF Becomes
<1>5. CASE CallReturns(p)
  <2>1. PICK name \in Calls : AtStep(p, name)
    BY <1>5 DEF CallReturns
  <2>2. BuilderRuns(p) /\ ~AtStep(p, Pool)
    BY <1>1, <1>2, <1>3, <2>1
  <2>3. PICK n \in {1, 2} : n = 1 /\ proc' = [proc EXCEPT ![p] = Advanced(p, n)]
    BY <1>4, <1>5 DEF CallReturns
  <2>4. n # 2
    BY <2>3
  <2>5. QED
    BY <2>2, <2>3, <2>4, AdvanceStep
<1>6. CASE CheckExists(p)
  <2>1. AtStep(p, "exists") /\ BuilderRuns(p) /\ ~AtStep(p, Pool)
    BY <1>1, <1>2, <1>3, <1>6 DEF CheckExists
  <2>2. \E n \in {1, 2} : proc' = [proc EXCEPT ![p] = Advanced(p, n)]
    BY <1>4, <1>6 DEF CheckExists
  <2>3. QED
    BY <2>1, <2>2, AdvanceStep
<1>7. CASE Create(p)
  <2>1. AtStep(p, "create") /\ BuilderRuns(p) /\ ~AtStep(p, Pool)
    BY <1>1, <1>2, <1>3, <1>7 DEF Create
  <2>2. \E n \in {1, 2} : proc' = [proc EXCEPT ![p] = Advanced(p, n)]
    BY <1>4, <1>7 DEF Create
  <2>3. QED
    BY <2>1, <2>2, AdvanceStep
<1>8. CASE Validate(p)
  <2>1. BuilderRuns(p) /\ ~AtStep(p, Pool)
    BY <1>1, <1>2, <1>3, <1>8 DEF Validate
  <2>2. CASE Becomes(p, Advanced(p, 1))
    BY <1>4, <2>1, <2>2, AdvanceStep
  <2>3. CASE Fail(p)
    <3>1. proc[p].phase = "building"
      BY <2>1 DEF BuilderRuns
    <3>2. QED
      BY <2>3, <3>1, PhaseSteps
  <2>4. QED
    BY <1>8, <2>2, <2>3 DEF Validate
<1>9. QED
  BY <1>5, <1>6, <1>7, <1>8

\* A client is opened while the pool is not, and the pool only once.
LEMMA OpenNextStep ==
  ASSUME RetrievalInv, LifecycleInv', NEW p \in Processes, OpenNext(p)
  PROVE  RetrievalInv'
<1> DEFINE r == proc[p]
<1>1. /\ r \in Process /\ InRange(r) /\ Stack(r) /\ OpenOrder(r) /\ ReaderState(r)
  BY ItsReader
<1>2. PICK name \in Resources :
        /\ AtStep(p, name)
        /\ Becomes(p, [Advanced(p, 1) EXCEPT !.building = Append(@, name),
                                             !.built = Append(@, name)])
  BY DEF OpenNext
<1>3. PICK m, b, t, s :
        /\ m = r.step + 1 /\ b = Append(r.building, name) /\ t = Append(r.built, name)
        /\ s = [r EXCEPT !.step = m, !.building = b, !.built = t]
  OBVIOUS
<1>4. proc' = [proc EXCEPT ![p] = s]
  <2>1. s = [Advanced(p, 1) EXCEPT !.building = Append(@, name), !.built = Append(@, name)]
    BY <1>1, <1>3 DEF Process, Advanced
  <2>2. QED
    BY <1>2, <2>1 DEF Becomes
<1>5. /\ s.phase = r.phase /\ s.built = t /\ s.builder = r.builder /\ s.step = m
      /\ s.retrieving = r.retrieving /\ s.reader = r.reader /\ s.attempts = r.attempts
  BY <1>1, <1>3 DEF Process
<1>6. /\ r.builder \in DOMAIN Builders /\ r.step \in DOMAIN Builders[r.builder] /\ r.step \in Nat
      /\ Builders[r.builder][r.step] = name
  BY <1>1, <1>2 DEF Process, AtStep, BuilderRuns
<1>7. /\ name = Pool <=> r.builder = 2 /\ r.step = 7
      /\ name \in Clients => r.builder = 2 /\ r.step < 7
  BY <1>6, PoolPlace
<1>8. PICK k \in Nat :
        /\ k = Len(r.built) /\ DOMAIN r.built = 1 .. k /\ DOMAIN t = 1 .. (k + 1)
        /\ t[k + 1] = name /\ \A i \in 1 .. k : t[i] = r.built[i]
  <2>1. r.built \in Seq(Resources)
    BY <1>1 DEF Process
  <2>2. /\ Len(r.built) \in Nat /\ DOMAIN r.built = 1 .. Len(r.built)
        /\ t \in Seq(Resources) /\ Len(t) = Len(r.built) + 1 /\ t[Len(r.built) + 1] = name
        /\ \A i \in 1 .. Len(r.built) : t[i] = r.built[i]
    BY <1>3, <2>1, AppendProperties
  <2>3. DOMAIN t = 1 .. (Len(r.built) + 1)
    BY <2>2
  <2>4. QED
    BY <2>2, <2>3
<1>9. OpenOrder(s)
  <2>1. ASSUME NEW i \in DOMAIN t, NEW j \in DOMAIN t, t[i] \in Clients, t[j] = Pool
        PROVE  i < j
    <3>1. CASE i \in 1 .. k /\ j \in 1 .. k
      BY <1>1, <1>8, <2>1, <3>1 DEF OpenOrder
    <3>2. CASE i \in 1 .. k /\ j = k + 1
      BY <3>2
    <3>3. CASE i = k + 1
      <4>1. name \in Clients /\ name # Pool
        BY <1>7, <1>8, <2>1, <3>3
      <4>2. j \in 1 .. k /\ r.built[j] = Pool
        BY <1>8, <2>1, <3>3, <4>1
      <4>3. r.builder = 2 /\ r.step <= 7
        BY <1>6, <1>7, <4>1
      <4>4. \A l \in DOMAIN r.built : r.built[l] # Pool
        BY <1>1, <4>3 DEF OpenOrder
      <4>5. QED
        BY <1>8, <4>2, <4>4
    <3>4. QED
      BY <1>8, <3>1, <3>2, <3>3
  <2>2. ASSUME r.builder = 1 \/ (r.builder = 2 /\ m <= 7), NEW i \in DOMAIN t
        PROVE  t[i] # Pool
    <3>1. r.builder = 1 \/ (r.builder = 2 /\ r.step <= 7)
      BY <1>3, <1>6, <2>2
    <3>2. name # Pool
      BY <1>3, <1>6, <1>7, <2>2
    <3>3. CASE i \in 1 .. k
      BY <1>1, <1>8, <3>1, <3>3 DEF OpenOrder
    <3>4. CASE i = k + 1
      BY <1>8, <3>2, <3>4
    <3>5. QED
      BY <1>8, <3>3, <3>4
  <2>3. ASSUME r.builder = 3 \/ (r.builder = 2 /\ m > 7)
        PROVE  \E i \in DOMAIN t : t[i] = Pool
    <3>1. CASE r.builder = 2 /\ r.step = 7
      BY <1>7, <1>8, <3>1
    <3>2. CASE ~(r.builder = 2 /\ r.step = 7)
      <4>1. r.builder = 3 \/ (r.builder = 2 /\ r.step > 7)
        BY <1>3, <1>6, <2>3, <3>2
      <4>2. PICK i \in DOMAIN r.built : r.built[i] = Pool
        BY <1>1, <4>1 DEF OpenOrder
      <4>3. QED
        BY <1>8, <4>2
    <3>3. QED
      BY <3>1, <3>2
  <2>4. QED
    BY <1>5, <2>1, <2>2, <2>3 DEF OpenOrder
<1>10. ReaderState(s)
  BY <1>1, <1>5 DEF ReaderState
<1>11. QED
  BY <1>4, <1>9, <1>10, OnlyItsOwn

\* The second builder starts with no pool and ends with one.
LEMMA BuilderReturnsStep ==
  ASSUME RetrievalInv, LifecycleInv', NEW p \in Processes, BuilderReturns(p)
  PROVE  RetrievalInv'
<1> DEFINE r == proc[p]
<1>1. /\ r \in Process /\ InRange(r) /\ Stack(r) /\ OpenOrder(r) /\ ReaderState(r)
  BY ItsReader
<1>2. /\ r.phase = "building" /\ r.builder \in {1, 2} /\ r.step \in Nat /\ r.step >= 1
      /\ r.step \notin DOMAIN Builders[r.builder]
  <2>1. DOMAIN Builders = {1, 2, 3} /\ Len(Builders) = 3
    BY DEF Builders
  <2>2. r.builder \in {1, 2, 3} /\ r.step \in Nat
    BY <1>1, <2>1 DEF Process
  <2>3. QED
    BY <1>1, <2>1, <2>2 DEF BuilderReturns, BuilderDone, InRange
<1>3. r.builder = 2 => r.step > 7
  <2>1. Builders[2] = ChatSteps
    BY DEF Builders
  <2>2. r.builder = 2 => r.step \notin 1 .. 11
    BY <1>2, <2>1, ChatStepsAre
  <2>3. QED
    BY <1>2, <2>2
<1>4. PICK c, b, s :
        /\ c = Collected(p) /\ b = r.builder + 1
        /\ s = [r EXCEPT !.closers = c, !.building = <<>>, !.builder = b, !.step = 1]
  OBVIOUS
<1>5. proc' = [proc EXCEPT ![p] = s]
  <2>1. s = [proc[p] EXCEPT !.closers = Collected(p), !.building = <<>>,
                            !.builder = proc[p].builder + 1, !.step = 1]
    BY <1>4
  <2>2. QED
    BY <2>1 DEF BuilderReturns, Becomes
<1>6. /\ s.phase = r.phase /\ s.built = r.built /\ s.builder = b /\ s.step = 1
      /\ s.retrieving = r.retrieving /\ s.reader = r.reader /\ s.attempts = r.attempts
  BY <1>1, <1>4 DEF Process
<1>7. OpenOrder(s)
  <2>1. CASE r.builder = 1
    BY <1>1, <1>4, <1>6, <2>1 DEF OpenOrder
  <2>2. CASE r.builder = 2
    BY <1>1, <1>3, <1>4, <1>6, <2>2 DEF OpenOrder
  <2>3. QED
    BY <1>2, <2>1, <2>2
<1>8. ReaderState(s)
  BY <1>1, <1>2, <1>6 DEF ReaderState
<1>9. QED
  BY <1>5, <1>7, <1>8, OnlyItsOwn

\* Before the start nothing is open, and no retrieval runs.
LEMMA DownHasNoPool ==
  ASSUME NEW n \in Sizes
  PROVE  OpenOrder(Down(n)) /\ ReaderState(Down(n))
<1>1. DOMAIN <<>> = {}
  OBVIOUS
<1>2. QED
  BY <1>1 DEF Down, OpenOrder, ReaderState

\* A crash takes the retrieval with it.
LEMMA RestartStep ==
  ASSUME RetrievalInv, LifecycleInv', NEW p \in Processes, Restart(p)
  PROVE  RetrievalInv'
<1>1. PICK n \in Sizes : Becomes(p, Down(n))
  BY DEF Restart
<1>2. QED
  BY <1>1, DownHasNoPool, OnlyItsOwn DEF Becomes

-----------------------------------------------------------------------------

\* The invariant holds in every reachable state, of any number of processes.
THEOREM LifecycleInvariant == Spec => []LifecycleInv
<1>1. Init => LifecycleInv
  <2> SUFFICES ASSUME Init PROVE LifecycleInv
    OBVIOUS
  <2>1. ASSUME NEW p \in Processes
        PROVE  Good(proc[p]) /\ Ensured(proc[p], collection)
    <3>1. PICK n \in Sizes : proc[p] = Down(n)
      BY DEF Init
    <3>2. QED
      BY <3>1, DownIsGood
  <2>2. proc \in [Processes -> Process]
    BY <2>1 DEF Init, Good
  <2>3. QED
    BY <2>1, <2>2 DEF Init, LifecycleInv
<1>2. LifecycleInv /\ [Next]_vars => LifecycleInv'
  <2> SUFFICES ASSUME LifecycleInv, [Next]_vars PROVE LifecycleInv'
    OBVIOUS
  <2>1. CASE UNCHANGED vars
    BY <2>1 DEF vars, LifecycleInv
  <2>2. ASSUME NEW p \in Processes,
               \/ Start(p) \/ StepFails(p) \/ Work(p)
               \/ Retrieve(p) \/ Shutdown(p) \/ Restart(p)
        PROVE  LifecycleInv'
    <3>1. CASE Start(p) \/ Retrieve(p) \/ RetrieveReturns(p) \/ CloseReader(p)
      BY <3>1, LifecycleAssumption, QuietSteps
    <3>2. CASE OpenNext(p) \/ CallReturns(p) \/ CheckExists(p) \/ Create(p) \/ Validate(p)
      BY <3>2, LifecycleAssumption, OpenNextKeeps, CallReturnsKeeps, CheckExistsKeeps,
         CreateKeeps, ValidateKeeps
    <3>3. CASE BuilderReturns(p) \/ Serve(p) \/ StepFails(p)
      BY <3>3, LifecycleAssumption, BuilderReturnsKeeps, ServeKeeps, FailKeeps DEF StepFails
    <3>4. CASE Shutdown(p) \/ CloseNext(p) \/ Exit(p) \/ Restart(p)
      BY <3>4, LifecycleAssumption, ShutdownKeeps, CloseNextKeeps, ExitKeeps, RestartKeeps
    <3>5. QED
      BY <2>2, <3>1, <3>2, <3>3, <3>4 DEF Work
  <2>3. QED
    BY <2>1, <2>2 DEF Next
<1>3. QED
  BY <1>1, <1>2, PTL DEF Spec

\* The variables keep their types, and a builder stays within its list.
THEOREM LifecycleTypeCorrect == Spec => []TypeOK
<1>1. LifecycleInv => TypeOK
  BY DEF LifecycleInv, Good, InRange, TypeOK
<1>2. QED
  BY <1>1, LifecycleInvariant, PTL

\* Everything opened is closed once, in reverse, however far the startup came.
THEOREM ClosesAreInReverse == Spec => []ClosedInReverse
<1>1. LifecycleInv => ClosedInReverse
  <2> SUFFICES ASSUME LifecycleInv, NEW p \in Processes
               PROVE  LET closed == Len(proc[p].attempts)
                      IN  /\ closed <= Len(proc[p].built)
                          /\ proc[p].attempts = SubSeq(Reverse(proc[p].built), 1, closed)
                          /\ proc[p].phase = "stopped" => closed = Len(proc[p].built)
    BY DEF ClosedInReverse
  <2> DEFINE a == proc[p].attempts
             c == proc[p].closing
             r == Reverse(proc[p].built)
  <2>1. /\ a \in Seq(Resources) /\ c \in Seq(Resources) /\ r \in Seq(Resources)
        /\ Len(r) = Len(proc[p].built)
        /\ proc[p].phase \in {"down", "building", "unwinding", "serving", "stopping", "stopped"}
    BY TheProcess, ReverseIs DEF Good, Process
  <2>2. /\ \/ a = <<>>
           \/ a \o c = r
        /\ proc[p].phase = "stopped" => a \o c = r /\ c = <<>>
    BY <2>1, TheProcess DEF Good, Stack
  <2> HIDE DEF a, c, r
  <2>3. CASE a = <<>>
    <3>1. SubSeq(r, 1, 0) = <<>>
      BY SubSeqEmpty
    <3>2. proc[p].phase = "stopped" => Len(r) = 0
      BY <2>1, <2>2, <2>3, ConcatProperties
    <3>3. QED
      BY <2>1, <2>3, <3>1, <3>2 DEF a, r
  <2>4. CASE a \o c = r
    <3>1. /\ Len(r) = Len(a) + Len(c)
          /\ \A i \in 1 .. Len(a) : r[i] = a[i]
      BY <2>1, <2>4, ConcatIs
    <3>2. SubSeq(r, 1, Len(a)) = a
      <4>1. /\ SubSeq(r, 1, Len(a)) \in Seq(Resources)
            /\ Len(SubSeq(r, 1, Len(a))) = Len(a)
            /\ \A i \in 1 .. Len(a) : SubSeq(r, 1, Len(a))[i] = r[i]
        BY <2>1, <3>1, SubSeqProperties
      <4>2. QED
        BY <2>1, <3>1, <4>1, SeqEqual
    <3>3. proc[p].phase = "stopped" => Len(c) = 0
      BY <2>2
    <3>4. QED
      BY <2>1, <3>1, <3>2, <3>3 DEF a, r
  <2>5. QED
    BY <2>2, <2>3, <2>4
<1>2. QED
  BY <1>1, LifecycleInvariant, PTL

\* Whatever processes race to create the collection, with whatever models, whoever
\* is past ensure_collection has its size.
THEOREM TheCollectionIsEnsured == Spec => []EnsuredMatchesCollection
<1>1. LifecycleInv => EnsuredMatchesCollection
  BY DEF LifecycleInv, Ensured, EnsuredMatchesCollection
<1>2. QED
  BY <1>1, LifecycleInvariant, PTL

\* What a retrieval runs on is opened before it in every reachable state, and its
\* pair is closed before the pool counts as closed.
THEOREM RetrievalInvariant == Spec => []RetrievalInv
<1>1. Init /\ LifecycleInv => RetrievalInv
  <2> SUFFICES ASSUME Init, LifecycleInv PROVE RetrievalInv
    OBVIOUS
  <2>1. ASSUME NEW p \in Processes PROVE OpenOrder(proc[p]) /\ ReaderState(proc[p])
    <3>1. PICK n \in Sizes : proc[p] = Down(n)
      BY DEF Init
    <3>2. QED
      BY <3>1, DownHasNoPool
  <2>2. QED
    BY <2>1 DEF RetrievalInv
<1>2. RetrievalInv /\ LifecycleInv' /\ [Next]_vars => RetrievalInv'
  <2> SUFFICES ASSUME RetrievalInv, LifecycleInv', [Next]_vars PROVE RetrievalInv'
    OBVIOUS
  <2>1. CASE UNCHANGED vars
    BY <2>1 DEF vars, RetrievalInv
  <2>2. ASSUME NEW p \in Processes,
               \/ Start(p) \/ StepFails(p) \/ Work(p)
               \/ Retrieve(p) \/ Shutdown(p) \/ Restart(p)
        PROVE  RetrievalInv'
    <3>1. CASE Start(p) \/ StepFails(p) \/ Serve(p) \/ Shutdown(p) \/ Exit(p)
      <4>1. StepFails(p) => Fail(p) /\ proc[p].phase = "building"
        BY DEF StepFails, BuilderRuns
      <4>2. \/ Start(p)
            \/ Fail(p) /\ proc[p].phase = "building"
            \/ Serve(p) \/ Shutdown(p) \/ Exit(p)
        BY <3>1, <4>1
      <4>3. QED
        BY <4>2, PhaseSteps
    <3>2. CASE OpenNext(p) \/ BuilderReturns(p) \/ Restart(p)
      BY <3>2, OpenNextStep, BuilderReturnsStep, RestartStep
    <3>3. CASE CallReturns(p) \/ CheckExists(p) \/ Create(p) \/ Validate(p)
      BY <3>3, CallSteps
    <3>4. CASE Retrieve(p) \/ RetrieveReturns(p) \/ CloseReader(p) \/ CloseNext(p)
      BY <3>4, ReaderSteps, CloseNextStep
    <3>5. QED
      BY <2>2, <3>1, <3>2, <3>3, <3>4 DEF Work
  <2>3. QED
    BY <2>1, <2>2 DEF Next
<1>3. QED
  BY <1>1, <1>2, LifecycleInvariant, PTL DEF Spec

\* A retrieval that outlives its request has its pair and the clients it shares
\* open until it returns, however far the shutdown has come: they are closed after
\* the pool, and the pool only after the pair, which waits for the retrieval.
THEOREM RetrievalsKeepClients == Spec => []RetrievalKeepsItsClients
<1>1. RetrievalInv => RetrievalKeepsItsClients
  <2> SUFFICES ASSUME RetrievalInv, NEW p \in Processes, proc[p].retrieving
               PROVE  /\ proc[p].reader = "open"
                      /\ \A i \in DOMAIN proc[p].attempts :
                           proc[p].attempts[i] \notin
                             {"retriever pool", "chat vector store", "chat embedder"}
    BY DEF RetrievalKeepsItsClients
  <2> DEFINE r == proc[p]
             a == r.attempts
             c == r.closing
             o == r.built
  <2>1. /\ r \in Process /\ Stack(r) /\ OpenOrder(r) /\ ReaderState(r)
    BY ItsReader
  <2>2. /\ r.reader = "open" /\ r.phase \in {"serving", "stopping"} /\ r.builder = 3
        /\ \A i \in DOMAIN a : a[i] # Pool
    BY <2>1 DEF ReaderState
  <2>3. a \in Seq(Resources) /\ c \in Seq(Resources) /\ o \in Seq(Resources)
    BY <2>1 DEF Process
  <2>4. a = <<>> \/ a \o c = Reverse(o)
    BY <2>1, <2>2 DEF Stack
  <2>5. /\ \A i, j \in DOMAIN o : o[i] \in Clients /\ o[j] = Pool => i < j
        /\ \E j \in DOMAIN o : o[j] = Pool
    BY <2>1, <2>2 DEF OpenOrder
  <2> HIDE DEF r, a, c, o
  <2>6. ASSUME NEW i \in DOMAIN a, a[i] \in Clients, a \o c = Reverse(o) PROVE FALSE
    <3>1. PICK j \in DOMAIN o : o[j] = Pool
      BY <2>5
    <3>2. /\ Len(a) \in Nat /\ Len(c) \in Nat /\ Len(o) \in Nat /\ DOMAIN a = 1 .. Len(a)
          /\ DOMAIN o = 1 .. Len(o)
      BY <2>3
    <3>3. /\ Len(o) = Len(a) + Len(c)
          /\ \A k \in 1 .. Len(a) : Reverse(o)[k] = a[k]
      BY <2>3, <2>6, ConcatIs, ReverseIs
    <3>4. i \in DOMAIN o /\ i \in 1 .. Len(a)
      BY <3>2, <3>3
    <3>5. Len(o) + 1 - i \in DOMAIN o /\ Reverse(o)[i] = o[Len(o) + 1 - i]
      BY <2>3, <3>4, ReverseAt
    <3>6. o[Len(o) + 1 - i] \in Clients
      BY <2>6, <3>3, <3>4, <3>5
    <3>7. Len(o) + 1 - i < j
      BY <2>5, <3>1, <3>5, <3>6
    <3>8. Reverse(o)[Len(o) + 1 - j] = Pool
      BY <2>3, <3>1, ReverseAt
    <3>9. Len(o) + 1 - j \in 1 .. Len(a)
      BY <3>2, <3>4, <3>7
    <3>10. QED
      BY <2>2, <3>2, <3>3, <3>8, <3>9
  <2>7. \A i \in DOMAIN a : a[i] # Pool /\ a[i] \notin Clients
    <3>1. CASE a = <<>>
      BY <3>1
    <3>2. CASE a \o c = Reverse(o)
      BY <2>2, <2>6, <3>2
    <3>3. QED
      BY <2>4, <3>1, <3>2
  <2>8. QED
    BY <2>2, <2>7 DEF r, a, Pool, Clients
<1>2. QED
  BY <1>1, RetrievalInvariant, PTL
===============================================================================
