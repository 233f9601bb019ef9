-------------------------- MODULE ConnectionLending --------------------------
(***************************************************************************)
(* What the pool of retrievers promises its callers, without its semaphore, *)
(* its lock and its lists: who uses which entry, and which entries have     *)
(* their connections open.                                                 *)
(*                                                                         *)
(*   - an entry is lent to one thread at a time, and only while it is open; *)
(*   - entries are opened by need, never more than Size at once;            *)
(*   - once the pool is told to close, what is idle is lent no more, though *)
(*     a thread whose call is under way may still open an entry;            *)
(*   - the first entry is closed when every one has come back, and from     *)
(*     then on none is opened.                                             *)
(*                                                                         *)
(* It states the docstrings of src/src/app/retrieval/pool.py, lines 3-19    *)
(* and 96-104.                                                             *)
(***************************************************************************)
EXTENDS Integers, FiniteSets

CONSTANTS Callers, Entries, Size, NoEntry

VARIABLES
  live,   \* the entries whose connections are open
  lent,   \* the entry each thread uses
  phase   \* "lending", "recalling" from the call of close, then "closing"

vars == <<live, lent, phase>>

Init ==
  /\ live = {}
  /\ lent = [t \in Callers |-> NoEntry]
  /\ phase = "lending"

\* A thread is lent an entry that nobody uses.
Lend(t, e) ==
  /\ phase = "lending"
  /\ e \in live /\ \A u \in Callers : lent[u] # e
  /\ lent[t] = NoEntry
  /\ lent' = [lent EXCEPT ![t] = e]
  /\ UNCHANGED <<live, phase>>

\* A thread is lent an entry opened for it.
Open(t, e) ==
  /\ phase # "closing"
  /\ e \notin live /\ Cardinality(live) < Size
  /\ lent[t] = NoEntry
  /\ live' = live \cup {e}
  /\ lent' = [lent EXCEPT ![t] = e]
  /\ UNCHANGED phase

Return(t) ==
  /\ lent[t] # NoEntry
  /\ lent' = [lent EXCEPT ![t] = NoEntry]
  /\ UNCHANGED <<live, phase>>

Recall ==
  /\ phase = "lending"
  /\ phase' = "recalling"
  /\ UNCHANGED <<live, lent>>

\* Every entry has come back.
BeginClosing ==
  /\ phase = "recalling"
  /\ \A t \in Callers : lent[t] = NoEntry
  /\ phase' = "closing"
  /\ UNCHANGED <<live, lent>>

CloseOne(e) ==
  /\ phase = "closing"
  /\ e \in live
  /\ live' = live \ {e}
  /\ UNCHANGED <<lent, phase>>

Next ==
  \/ \E t \in Callers, e \in Entries : Lend(t, e) \/ Open(t, e)
  \/ \E t \in Callers : Return(t)
  \/ Recall \/ BeginClosing
  \/ \E e \in Entries : CloseOne(e)

Spec == Init /\ [][Next]_vars

=============================================================================
