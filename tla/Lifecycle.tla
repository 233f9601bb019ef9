------------------------------ MODULE Lifecycle ------------------------------
(***************************************************************************)
(* Startup and shutdown of the service (src/src/app/main.py): three         *)
(* builders open its resources in order, each keeping a stack of closers; a *)
(* failure closes what is open and ends the process, and shutdown closes    *)
(* everything while a retrieval may still run on a worker thread.  The      *)
(* processes share one Qdrant collection, which the first of them creates   *)
(* (VectorStore.ensure_collection).                                        *)
(*                                                                         *)
(* A definition marked Faulty is the one after it with one slip, to show    *)
(* that the properties tell the difference; nothing else uses it.          *)
(***************************************************************************)
EXTENDS Integers, Sequences

CONSTANTS
  Processes,  \* the processes that serve from the collection
  Sizes       \* the vector sizes of the embedding models in use

ASSUME LifecycleAssumption == Sizes \subseteq Nat \ {0}

VARIABLES
  proc,       \* the state of each process
  collection  \* the vector size of the collection, 0 if there is none

vars == <<proc, collection>>

\* What each builder does, in order: it opens a resource or makes a call, the
\* last ones the three of ensure_collection.
Ensure == <<"exists", "create", "validate">>
IngestSteps ==
  <<"chunk store", "bm25 connection", "bm25 index", "embedder", "dim",
    "vector store">> \o Ensure \o <<"cache invalidator">>
ChatSteps ==
  <<"chat embedder", "dim", "chat vector store">> \o Ensure \o
  <<"retriever pool", "reranker", "session store", "response cache", "llm client">>
ReadySteps == <<"ready sqlite", "ready qdrant", "ready redis">>
Builders == <<IngestSteps, ChatSteps, ReadySteps>>

Calls == {"bm25 index", "dim"}
Resources ==
  (UNION {{Builders[b][i] : i \in DOMAIN Builders[b]} : b \in DOMAIN Builders})
    \ (Calls \cup {Ensure[i] : i \in DOMAIN Ensure})

\* size: the vector size of the embedding model it is configured for; building:
\* the closers of the builder that runs, in the order of opening; closers: those
\* of the builders that are done, in calling order; closing: those still to be
\* called; retrieving: a retrieval is under way in a worker thread; reader: the
\* pool's pair of connections.  Of the model: built and attempts, all that was
\* opened and closed so far; leaked, a connection of the pair was not closed.
Process ==
  [phase: {"down", "building", "unwinding", "serving", "stopping", "stopped"},
   size: Sizes, builder: DOMAIN Builders, step: Nat,
   building: Seq(Resources), closers: Seq(Resources), closing: Seq(Resources),
   built: Seq(Resources), attempts: Seq(Resources),
   retrieving: BOOLEAN, reader: {"none", "open", "closed"}, leaked: BOOLEAN]

Down(n) ==
  [phase |-> "down", size |-> n, builder |-> 1, step |-> 1, building |-> <<>>,
   closers |-> <<>>, closing |-> <<>>, built |-> <<>>, attempts |-> <<>>,
   retrieving |-> FALSE, reader |-> "none", leaked |-> FALSE]

Reverse(s) == [i \in DOMAIN s |-> s[Len(s) + 1 - i]]

Init ==
  /\ proc \in [Processes -> {Down(n) : n \in Sizes}]
  /\ collection = 0

\* The process goes on in this state, with the collection as it is.
Becomes(p, state) ==
  /\ proc' = [proc EXCEPT ![p] = state]
  /\ UNCHANGED collection

-----------------------------------------------------------------------------
(* Startup *)

Start(p) ==
  /\ proc[p].phase = "down"
  /\ Becomes(p, [proc[p] EXCEPT !.phase = "building"])

BuilderRuns(p) ==
  proc[p].phase = "building" /\ proc[p].step \in DOMAIN Builders[proc[p].builder]
BuilderDone(p) ==
  proc[p].phase = "building" /\ proc[p].step \notin DOMAIN Builders[proc[p].builder]
AtStep(p, name) == BuilderRuns(p) /\ Builders[proc[p].builder][proc[p].step] = name

Advanced(p, n) == [proc[p] EXCEPT !.step = @ + n]

OpenNext(p) ==
  \E name \in Resources :
    /\ AtStep(p, name)
    /\ Becomes(p, [Advanced(p, 1) EXCEPT !.building = Append(@, name),
                                         !.built = Append(@, name)])

\* Creating the tables of the index, probing the size of the vectors.
CallReturns(p) ==
  /\ \E name \in Calls : AtStep(p, name)
  /\ Becomes(p, Advanced(p, 1))

\* Faulty: only the builder that failed cleans up.
FailAlone(p) ==
  Becomes(p, [proc[p] EXCEPT !.phase = "unwinding", !.closing = Reverse(proc[p].building)])

\* A step raises: the builder closes what it opened, in reverse, and the
\* lifespan then closes what the builders before it opened.
Fail(p) ==
  Becomes(p, [proc[p] EXCEPT !.phase = "unwinding",
                             !.closing = Reverse(proc[p].building) \o proc[p].closers])

\* Any step of a builder may raise, with its resource not open.
StepFails(p) == BuilderRuns(p) /\ Fail(p)

\* A builder returns its closers, last opened first, ahead of the earlier ones.
Collected(p) == Reverse(proc[p].building) \o proc[p].closers

\* Faulty: the next builder starts where this one ended.
BuilderReturnsThere(p) ==
  /\ BuilderDone(p)
  /\ proc[p].builder < Len(Builders)
  /\ Becomes(p, [proc[p] EXCEPT !.closers = Collected(p), !.building = <<>>,
                                !.builder = @ + 1])

BuilderReturns(p) ==
  /\ BuilderDone(p)
  /\ proc[p].builder < Len(Builders)
  /\ Becomes(p, [proc[p] EXCEPT !.closers = Collected(p), !.building = <<>>,
                                !.builder = @ + 1, !.step = 1])

Serve(p) ==
  /\ BuilderDone(p)
  /\ proc[p].builder = Len(Builders)
  /\ Becomes(p, [proc[p] EXCEPT !.closers = Collected(p), !.building = <<>>,
                                !.phase = "serving"])

-----------------------------------------------------------------------------
(* ensure_collection: three calls, with other processes between them *)

CheckExists(p) ==
  /\ AtStep(p, "exists")
  /\ Becomes(p, Advanced(p, IF collection = 0 THEN 1 ELSE 2))

\* Faulty: a lost race counts as created.
CreateOrAccept(p) ==
  /\ AtStep(p, "create")
  /\ collection' = IF collection = 0 THEN proc[p].size ELSE collection
  /\ proc' = [proc EXCEPT ![p] = Advanced(p, 2)]

\* create_collection: done, or refused because another process was faster,
\* and then the collection is validated like any other.
Create(p) ==
  /\ AtStep(p, "create")
  /\ \/ /\ collection = 0
        /\ collection' = proc[p].size
        /\ proc' = [proc EXCEPT ![p] = Advanced(p, 2)]
     \/ collection # 0 /\ Becomes(p, Advanced(p, 1))

\* It is never created again with another size: the process fails to start.
Validate(p) ==
  /\ AtStep(p, "validate")
  /\ \/ collection = proc[p].size /\ Becomes(p, Advanced(p, 1))
     \/ collection # proc[p].size /\ Fail(p)

-----------------------------------------------------------------------------
(* Retrievals, which outlive a request that was cancelled *)

\* A call of the pool, whose first one opens the pair of connections.
Retrieve(p) ==
  /\ proc[p].phase = "serving" /\ ~proc[p].retrieving
  /\ Becomes(p, [proc[p] EXCEPT !.retrieving = TRUE, !.reader = "open"])

RetrieveReturns(p) ==
  /\ proc[p].retrieving
  /\ Becomes(p, [proc[p] EXCEPT !.retrieving = FALSE])

-----------------------------------------------------------------------------
(* Shutdown *)

Shutdown(p) ==
  /\ proc[p].phase = "serving"
  /\ Becomes(p, [proc[p] EXCEPT !.phase = "stopping", !.closing = proc[p].closers])

AtCloser(p, name) == proc[p].closing # <<>> /\ Head(proc[p].closing) = name

\* Faulty: the pool does not wait for the retrieval under way.
CloseReaderNow(p) ==
  /\ AtCloser(p, "retriever pool") /\ proc[p].reader = "open"
  /\ \E leaks \in BOOLEAN :
       Becomes(p, [proc[p] EXCEPT !.reader = "closed", !.leaked = leaks])

\* RetrieverPool.close calls _close of its pair: the chunk store, then the BM25
\* connection, which is skipped when the first close raises.
CloseReader(p) ==
  /\ AtCloser(p, "retriever pool") /\ proc[p].reader = "open"
  /\ ~proc[p].retrieving
  /\ \E leaks \in BOOLEAN :
       Becomes(p, [proc[p] EXCEPT !.reader = "closed", !.leaked = leaks])

\* Faulty: the close of the pool waits for a pair that was never opened.
CloseNextStuck(p) ==
  /\ proc[p].closing # <<>>
  /\ AtCloser(p, "retriever pool") => proc[p].reader = "closed"
  /\ Becomes(p, [proc[p] EXCEPT !.attempts = Append(@, Head(proc[p].closing)),
                                !.closing = Tail(@)])

\* _close_all: the next close returns or raises, and the loop goes on.
CloseNext(p) ==
  /\ proc[p].closing # <<>>
  /\ AtCloser(p, "retriever pool") => proc[p].reader # "open"
  /\ Becomes(p, [proc[p] EXCEPT !.attempts = Append(@, Head(proc[p].closing)),
                                !.closing = Tail(@)])

Exit(p) ==
  /\ proc[p].phase \in {"unwinding", "stopping"} /\ proc[p].closing = <<>>
  /\ Becomes(p, [proc[p] EXCEPT !.phase = "stopped"])

\* The process crashes, or is started again, perhaps with another model.
Restart(p) ==
  /\ proc[p].phase # "down"
  /\ \E n \in Sizes : Becomes(p, Down(n))

-----------------------------------------------------------------------------

Work(p) ==
  \/ OpenNext(p) \/ CallReturns(p) \/ BuilderReturns(p) \/ Serve(p)
  \/ CheckExists(p) \/ Create(p) \/ Validate(p)
  \/ RetrieveReturns(p) \/ CloseReader(p) \/ CloseNext(p) \/ Exit(p)

Next ==
  \E p \in Processes :
    Start(p) \/ StepFails(p) \/ Work(p) \/ Retrieve(p) \/ Shutdown(p) \/ Restart(p)

\* A process keeps working; nobody has to start it or to shut it down.
Spec == Init /\ [][Next]_vars /\ \A p \in Processes : WF_vars(Work(p))

-----------------------------------------------------------------------------

\* Type invariant; a builder never runs past its last step.
TypeOK ==
  /\ proc \in [Processes -> Process]
  /\ \A p \in Processes : proc[p].step <= Len(Builders[proc[p].builder]) + 1
  /\ collection \in Sizes \cup {0}

\* However far startup got and whichever closes raise, resources are closed in
\* the reverse of the order in which they were opened, over all three
\* builders, and when the process has ended each was attempted exactly once
\* (main.py: "closes run in reverse construction order").
ClosedInReverse ==
  \A p \in Processes :
    LET closed == Len(proc[p].attempts)
    IN  /\ closed <= Len(proc[p].built)
        /\ proc[p].attempts = SubSeq(Reverse(proc[p].built), 1, closed)
        /\ proc[p].phase = "stopped" => closed = Len(proc[p].built)

\* A retrieval that is still under way at shutdown has its connections, its
\* embedder and its vector store open until it returns.
RetrievalKeepsItsClients ==
  \A p \in Processes :
    proc[p].retrieving =>
      /\ proc[p].reader = "open"
      /\ \A i \in DOMAIN proc[p].attempts :
           proc[p].attempts[i] \notin {"retriever pool", "chat vector store", "chat embedder"}

\* A vector store whose ensure_collection has returned is of the size of the
\* collection, for as long as its process runs, although several processes may
\* create the collection at once and come back with another model.
EnsuredMatchesCollection ==
  \A p \in Processes :
    (proc[p].builder > 1 \/ proc[p].step >= Len(IngestSteps)) => collection = proc[p].size

\* A startup comes to an end, complete or unwound, and so does a shutdown,
\* whatever retrieval it finds under way, unless the process crashes.
Settles ==
  \A p \in Processes :
    proc[p].phase \in {"building", "unwinding", "stopping"}
      ~> proc[p].phase \in {"serving", "stopped", "down"}

\* What main.py and RetrieverPool.close say: every close is attempted, so one
\* failing close cannot leak the rest.
FailedCloseLeaksNothing == \A p \in Processes : ~proc[p].leaked

=============================================================================
