---------------------------- MODULE RetrieverPool ----------------------------
(***************************************************************************)
(* RetrieverPool (src/src/app/retrieval/pool.py): the pool that lends the   *)
(* threads answering chat questions one retriever each, with its own read  *)
(* connections, and that drains itself before it closes them.              *)
(*                                                                         *)
(* A thread is a caller of retrieve or of close.  Every step is what a      *)
(* thread does between two points where another may run: an operation on   *)
(* the semaphore, one block under the lock, one call of the factory, of a  *)
(* retriever or of a connection's close.  A retriever with its connections *)
(* is an entry.                                                            *)
(*                                                                         *)
(* A definition marked Faulty is the one after it with one slip, to show    *)
(* that the properties tell the difference; nothing else uses it.          *)
(***************************************************************************)
EXTENDS Integers, FiniteSets

CONSTANTS
  Callers,    \* the threads that call retrieve
  Closers,    \* the threads that call close
  Entries,    \* the retrievers the factory can build
  Size,       \* the size of the pool
  MaxCalls,   \* bound on the calls of retrieve by one thread
  NoEntry     \* no retriever

ASSUME PoolAssumption ==
  /\ Size \in Nat \ {0}      \* __init__ rejects a size below 1
  /\ MaxCalls \in Nat
  /\ NoEntry \notin Entries
  /\ IsFiniteSet(Callers) /\ IsFiniteSet(Closers)

VARIABLES
  permits,    \* the value of the semaphore _slots
  closed,     \* _closed
  idle,       \* _idle
  all,        \* _all
  open,       \* the entries built whose connections have not been closed
  stuck,      \* the entries whose connections failed to close
  pc,         \* what each caller of retrieve does next
  held,       \* the entry each of them has checked out
  calls,      \* how many calls of retrieve each has made
  closing,    \* what each caller of close does next
  drained,    \* how many permits each of them has taken
  toClose     \* the entries each of them has yet to close

callerVars == <<pc, held, calls>>
closerVars == <<closing, drained, toClose>>
vars == <<permits, closed, idle, all, open, stuck, callerVars, closerVars>>

CallerLabels == {"outside", "acquire", "checkout", "build", "register", "query",
                 "giveBack", "releaseSlot", "raised"}
CloserLabels == {"outside", "drain", "collect", "close", "returned"}

\* Where a caller holds a permit it has to give back.
HoldsSlot == {"checkout", "build", "register", "query", "giveBack", "releaseSlot"}

\* __init__
Init ==
  /\ permits = Size
  /\ closed = FALSE
  /\ idle = {} /\ all = {}
  /\ open = {} /\ stuck = {}
  /\ pc = [t \in Callers |-> "outside"]
  /\ held = [t \in Callers |-> NoEntry]
  /\ calls = [t \in Callers |-> 0]
  /\ closing = [c \in Closers |-> "outside"]
  /\ drained = [c \in Closers |-> 0]
  /\ toClose = [c \in Closers |-> {}]

-----------------------------------------------------------------------------
(* retrieve *)

Moves(t, from, to) ==
  /\ pc[t] = from
  /\ pc' = [pc EXCEPT ![t] = to]
  /\ UNCHANGED closerVars

\* A thread calls retrieve.  MaxCalls bounds how often.
Call(t) ==
  /\ pc[t] \in {"outside", "raised"}
  /\ calls[t] < MaxCalls
  /\ Moves(t, pc[t], "acquire")
  /\ calls' = [calls EXCEPT ![t] = @ + 1]
  /\ UNCHANGED <<permits, closed, idle, all, open, stuck, held>>

\* Faulty: acquire(blocking=False), its answer ignored.
AcquireSlotAnyway(t) ==
  /\ Moves(t, "acquire", "checkout")
  /\ permits' = permits - 1
  /\ UNCHANGED <<closed, idle, all, open, stuck, held, calls>>

\* _acquire: _slots.acquire() blocks while there is no permit.
AcquireSlot(t) ==
  /\ Moves(t, "acquire", "checkout")
  /\ permits > 0
  /\ permits' = permits - 1
  /\ UNCHANGED <<closed, idle, all, open, stuck, held, calls>>

\* Faulty: a refused call keeps its permit.
CheckoutKeepsSlot(t) ==
  /\ \/ Moves(t, "checkout", "raised") /\ closed /\ UNCHANGED <<idle, held>>
     \/ /\ Moves(t, "checkout", "query")
        /\ ~closed
        /\ \E e \in idle :
             /\ idle' = idle \ {e}
             /\ held' = [held EXCEPT ![t] = e]
     \/ Moves(t, "checkout", "build") /\ ~closed /\ idle = {} /\ UNCHANGED <<idle, held>>
  /\ UNCHANGED <<permits, closed, all, open, stuck, calls>>

\* Faulty: does not look at _closed after the wait for the permit.
CheckoutUnrefused(t) ==
  /\ \/ /\ Moves(t, "checkout", "query")
        /\ \E e \in idle :
             /\ idle' = idle \ {e}
             /\ held' = [held EXCEPT ![t] = e]
     \/ Moves(t, "checkout", "build") /\ idle = {} /\ UNCHANGED <<idle, held>>
  /\ UNCHANGED <<permits, closed, all, open, stuck, calls>>

\* Faulty: reads _idle[-1] where the code pops it.
CheckoutPeeks(t) ==
  /\ \/ Moves(t, "checkout", "raised") /\ closed /\ permits' = permits + 1 /\ UNCHANGED held
     \/ /\ Moves(t, "checkout", "query")
        /\ ~closed
        /\ \E e \in idle : held' = [held EXCEPT ![t] = e]
        /\ UNCHANGED permits
     \/ Moves(t, "checkout", "build") /\ ~closed /\ idle = {} /\ UNCHANGED <<permits, held>>
  /\ UNCHANGED <<closed, idle, all, open, stuck, calls>>

\* _acquire, under the lock: refuse, take an idle entry, or go on to build one.
Checkout(t) ==
  /\ \/ /\ Moves(t, "checkout", "raised")
        /\ closed
        /\ permits' = permits + 1
        /\ UNCHANGED <<idle, held>>
     \/ /\ Moves(t, "checkout", "query")
        /\ ~closed
        /\ \E e \in idle :
             /\ idle' = idle \ {e}
             /\ held' = [held EXCEPT ![t] = e]
        /\ UNCHANGED permits
     \/ /\ Moves(t, "checkout", "build")
        /\ ~closed
        /\ idle = {}
        /\ UNCHANGED <<permits, idle, held>>
  /\ UNCHANGED <<closed, all, open, stuck, calls>>

\* Faulty: a build that fails keeps its permit.
BuildKeepsSlot(t) ==
  /\ \/ /\ Moves(t, "build", "register")
        /\ \E e \in Entries \ (open \cup stuck) :
             /\ open' = open \cup {e}
             /\ held' = [held EXCEPT ![t] = e]
     \/ Moves(t, "build", "raised") /\ UNCHANGED <<open, held>>
  /\ UNCHANGED <<permits, closed, idle, all, stuck, calls>>

\* _acquire: the factory opens new connections, or fails and the slot is freed.
Build(t) ==
  /\ \/ /\ Moves(t, "build", "register")
        /\ \E e \in Entries \ (open \cup stuck) :
             /\ open' = open \cup {e}
             /\ held' = [held EXCEPT ![t] = e]
        /\ UNCHANGED permits
     \/ /\ Moves(t, "build", "raised")
        /\ permits' = permits + 1
        /\ UNCHANGED <<open, held>>
  /\ UNCHANGED <<closed, idle, all, stuck, calls>>

\* Faulty: an entry built while the pool closes is not recorded.
RegisterUnlessClosed(t) ==
  /\ Moves(t, "register", "query")
  /\ all' = IF closed THEN all ELSE all \cup {held[t]}
  /\ UNCHANGED <<permits, closed, idle, open, stuck, held, calls>>

Register(t) ==
  /\ Moves(t, "register", "query")
  /\ all' = all \cup {held[t]}
  /\ UNCHANGED <<permits, closed, idle, open, stuck, held, calls>>

\* retriever.retrieve returned or raised: the finally clause runs either way.
Query(t) ==
  /\ Moves(t, "query", "giveBack")
  /\ UNCHANGED <<permits, closed, idle, all, open, stuck, held, calls>>

\* Faulty: the entry is never idle again.
GiveBackNothing(t) ==
  /\ Moves(t, "giveBack", "releaseSlot")
  /\ held' = [held EXCEPT ![t] = NoEntry]
  /\ UNCHANGED <<permits, closed, idle, all, open, stuck, calls>>

\* _release, under the lock
GiveBack(t) ==
  /\ Moves(t, "giveBack", "releaseSlot")
  /\ idle' = IF closed THEN idle ELSE idle \cup {held[t]}
  /\ held' = [held EXCEPT ![t] = NoEntry]
  /\ UNCHANGED <<permits, closed, all, open, stuck, calls>>

\* _release: _slots.release()
ReleaseSlot(t) ==
  /\ Moves(t, "releaseSlot", "outside")
  /\ permits' = permits + 1
  /\ UNCHANGED <<closed, idle, all, open, stuck, held, calls>>

-----------------------------------------------------------------------------
(* close *)

MovesOn(c, from, to) ==
  /\ closing[c] = from
  /\ closing' = [closing EXCEPT ![c] = to]
  /\ UNCHANGED callerVars

\* Only the first call drains the pool; another returns at once.
BeginClose(c) ==
  /\ \/ closed /\ MovesOn(c, "outside", "returned") /\ UNCHANGED closed
     \/ ~closed /\ MovesOn(c, "outside", "drain") /\ closed' = TRUE
  /\ UNCHANGED <<permits, idle, all, open, stuck, drained, toClose>>

\* Faulty: one acquire short of the size.
DrainShort(c) ==
  /\ permits > 0
  /\ permits' = permits - 1
  /\ drained' = [drained EXCEPT ![c] = @ + 1]
  /\ MovesOn(c, "drain", IF drained[c] + 2 >= Size THEN "collect" ELSE "drain")
  /\ UNCHANGED <<closed, idle, all, open, stuck, toClose>>

\* One of the Size acquires; each waits for a checkout to be returned.
Drain(c) ==
  /\ permits > 0
  /\ permits' = permits - 1
  /\ drained' = [drained EXCEPT ![c] = @ + 1]
  /\ MovesOn(c, "drain", IF drained[c] + 1 = Size THEN "collect" ELSE "drain")
  /\ UNCHANGED <<closed, idle, all, open, stuck, toClose>>

Collect(c) ==
  /\ MovesOn(c, "collect", "close")
  /\ toClose' = [toClose EXCEPT ![c] = all]
  /\ all' = {}
  /\ idle' = {}
  /\ UNCHANGED <<permits, closed, open, stuck, drained>>

\* The close of one entry succeeds, or fails and the loop goes on.
CloseEntry(c) ==
  /\ closing[c] = "close"
  /\ \E e \in toClose[c] :
       /\ toClose' = [toClose EXCEPT ![c] = @ \ {e}]
       /\ open' = open \ {e}
       /\ stuck' \in {stuck, stuck \cup {e}}
  /\ UNCHANGED <<permits, closed, idle, all, closing, drained, callerVars>>

EndClose(c) ==
  /\ toClose[c] = {}
  /\ MovesOn(c, "close", "returned")
  /\ UNCHANGED <<permits, closed, idle, all, open, stuck, drained, toClose>>

-----------------------------------------------------------------------------

CallerStep(t) ==
  \/ AcquireSlot(t) \/ Checkout(t) \/ Build(t) \/ Register(t)
  \/ Query(t) \/ GiveBack(t) \/ ReleaseSlot(t)

CloserStep(c) ==
  Drain(c) \/ Collect(c) \/ CloseEntry(c) \/ EndClose(c)

Next ==
  \/ \E t \in Callers : Call(t) \/ CallerStep(t)
  \/ \E c \in Closers : BeginClose(c) \/ CloserStep(c)

\* Threads that can run do; nobody has to call retrieve or close.
Fairness ==
  /\ \A t \in Callers : WF_vars(CallerStep(t))
  /\ \A c \in Closers : WF_vars(CloserStep(c))

Spec == Init /\ [][Next]_vars /\ Fairness

-----------------------------------------------------------------------------

TypeOK ==
  /\ permits \in Nat
  /\ closed \in BOOLEAN
  /\ idle \subseteq Entries /\ all \subseteq Entries
  /\ open \subseteq Entries /\ stuck \subseteq Entries
  /\ pc \in [Callers -> CallerLabels]
  /\ held \in [Callers -> Entries \cup {NoEntry}]
  /\ calls \in [Callers -> 0 .. MaxCalls]
  /\ closing \in [Closers -> CloserLabels]
  /\ drained \in [Closers -> 0 .. Size]
  /\ toClose \in [Closers -> SUBSET Entries]

\* A retriever is checked out to at most one thread at a time, and is not idle
\* meanwhile: no SQLite connection is used by two threads at once.
ExclusiveCheckout ==
  \A t \in Callers :
    held[t] # NoEntry =>
      /\ held[t] \notin idle
      /\ \A u \in Callers \ {t} : held[u] # held[t]

\* At most Size retrievers, and their connections, exist at any time, although
\* a retriever is built outside the lock.
ConnectionsBounded == Cardinality(open) <= Size

\* The threads with a permit to give back, and the permits close has taken.
SlotHolders == {t \in Callers : pc[t] \in HoldsSlot}
DrainedPermits == {p \in Closers \X (1 .. Size) : p[2] <= drained[p[1]]}

\* No permit is lost or made up: what is not in the semaphore is with a caller
\* that will release it or was drained by close.  In particular a release
\* never exceeds the bound of the BoundedSemaphore, which would raise.
PermitsConserved ==
  permits + Cardinality(SlotHolders) + Cardinality(DrainedPermits) = Size

\* A connection is never closed out from under a thread that holds it.
NoUseAfterClose ==
  \A t \in Callers : held[t] # NoEntry => held[t] \in open

\* Once close has returned to the thread that drained the pool, every
\* retriever ever built has been closed, the one built by a call that was
\* under way included, unless its own close failed.
CloseLeavesNothingOpen ==
  (\E c \in Closers : closing[c] = "returned" /\ drained[c] > 0) => open = {}

\* A call of close has taken every permit, and closes the entries or has.
Emptied(c) == closing[c] = "close" \/ (closing[c] = "returned" /\ drained[c] = Size)

Phase ==
  IF ~closed THEN "lending"
  ELSE IF \E c \in Closers : Emptied(c) THEN "closing" ELSE "recalling"

Lending == INSTANCE ConnectionLending WITH live <- open, lent <- held, phase <- Phase

\* The pool keeps the promises of ConnectionLending, seen as the entries that are
\* open, the ones in use, and how far close has come.  Beyond the properties
\* above: nothing idle is lent once close was called, no connection is closed
\* before every entry came back, and none is opened after.
ImplementsLending == Lending!Spec

\* A call of close returns, whatever calls of retrieve are under way.
CloseReturns ==
  \A c \in Closers : closing[c] = "drain" ~> closing[c] = "returned"

\* A call of retrieve returns or raises, unless the pool is closed.
RetrieveReturns ==
  \A t \in Callers : pc[t] = "acquire" ~> (pc[t] \in {"outside", "raised"} \/ closed)

\* What close's docstring says, "further retrieve calls raise": a thread that
\* calls retrieve after the pool was closed gets an exception.
ClosedPoolRaises ==
  \A t \in Callers :
    [](closed /\ pc[t] = "outside" => [](pc[t] = "acquire" => <>(pc[t] = "raised")))

=============================================================================
