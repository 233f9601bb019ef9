----------------------- MODULE RetrieverPoolInvariants -----------------------
(***************************************************************************)
(* The inductive invariant behind the safety properties of RetrieverPool:   *)
(* what a thread may rely on between two of its steps, whatever the other   *)
(* threads did meanwhile.                                                  *)
(***************************************************************************)
EXTENDS RetrieverPool

\* A thread has an entry exactly between building or taking it and giving it
\* back, and it holds a permit all that time.
HeldInv ==
  \A t \in Callers : pc[t] \in {"register", "query", "giveBack"} <=> held[t] # NoEntry

HeldEntries == {held[t] : t \in Callers} \ {NoEntry}

\* Every open entry is recorded, checked out or about to be closed, an idle one
\* and one in use are recorded, and one about to be closed is nothing else.
EntriesInv ==
  /\ open = all \cup HeldEntries \cup UNION {toClose[c] : c \in Closers}
  /\ idle \subseteq all
  /\ \A t \in Callers : pc[t] \in {"query", "giveBack"} => held[t] \in all
  /\ \A c \in Closers : toClose[c] \cap (all \cup HeldEntries) = {}

\* Until the pool is closed what is recorded is idle or checked out.
IdleInv == ~closed => all \subseteq idle \cup HeldEntries

\* One call of close drains the pool, up to Size permits, and only then
\* collects the entries; the other calls return at once.
CloserInv ==
  /\ \A c \in Closers :
       /\ closing[c] = "outside" => drained[c] = 0
       /\ closing[c] = "drain" => drained[c] < Size
       /\ closing[c] \in {"collect", "close"} => drained[c] = Size
       /\ closing[c] = "returned" => drained[c] \in {0, Size}
       /\ toClose[c] # {} => closing[c] = "close"
       /\ closing[c] # "outside" => closed
  /\ \A c, d \in Closers :
       closing[c] \in {"drain", "collect", "close"} /\ c # d =>
         /\ closing[d] \in {"outside", "returned"}
         /\ drained[d] = 0
  /\ \A c \in Closers :
       closing[c] = "close" \/ (closing[c] = "returned" /\ drained[c] = Size) => all = {}

\* The builds under way, added to the entries that are open, never exceed the
\* size: a thread goes on to build only when every open entry is checked out.
Builders == {t \in Callers : pc[t] = "build"}
BuildInv ==
  /\ IsFiniteSet(open)
  /\ Cardinality(open) + Cardinality(Builders) <= Size

\* Whoever waits for a permit waits for a thread that has one and will release
\* it, or takes one at once: close while it drains, retrieve until the pool is
\* closed.  It is what CloseReturns and RetrieveReturns rest on.
WaitersWaitForHolders ==
  (\E c \in Closers : closing[c] = "drain") \/ (~closed /\ \E t \in Callers : pc[t] = "acquire")
    => permits > 0 \/ SlotHolders # {}

PoolInv ==
  /\ TypeOK
  /\ HeldInv
  /\ ExclusiveCheckout
  /\ EntriesInv
  /\ IdleInv
  /\ CloserInv
  /\ PermitsConserved
  /\ BuildInv

=============================================================================
