------------------------- MODULE RetrieverPoolProofs -------------------------
(***************************************************************************)
(* The safety properties of RetrieverPool for every number of threads, of   *)
(* retrievers and of permits, from the inductive invariant PoolInv.         *)
(***************************************************************************)
EXTENDS RetrieverPoolInvariants, FiniteSetTheorems, TLAPS

\* Every step of the system is one of these, by one thread.
LEMMA StepCases ==
  ASSUME [Next]_vars
  PROVE  \/ \E t \in Callers : Call(t) \/ CallerStep(t)
         \/ \E c \in Closers : BeginClose(c) \/ CloserStep(c)
         \/ UNCHANGED vars
  BY DEF Next

-----------------------------------------------------------------------------
(* The permits *)

PermitsCountable ==
  /\ IsFiniteSet(SlotHolders) /\ IsFiniteSet(DrainedPermits)
  /\ Cardinality(SlotHolders) \in Nat /\ Cardinality(DrainedPermits) \in Nat

\* The holders of a permit and the drained permits are finite sets.
LEMMA PermitSetsFinite == TypeOK => PermitsCountable
<1> USE DEF PermitsCountable
<1> SUFFICES ASSUME TypeOK PROVE PermitsCountable
  OBVIOUS
<1>1. IsFiniteSet(1 .. Size)
  BY FS_Interval, PoolAssumption
<1>2. IsFiniteSet(Closers \X (1 .. Size))
  BY <1>1, FS_Product, PoolAssumption
<1>3. IsFiniteSet(SlotHolders) /\ IsFiniteSet(DrainedPermits)
  BY <1>2, FS_Subset, PoolAssumption DEF SlotHolders, DrainedPermits
<1>4. QED
  BY <1>3, FS_CardinalityType

\* A caller that moves on joins, leaves or stays among the holders.
LEMMA HoldersMove ==
  ASSUME TypeOK, NEW t \in Callers, NEW to \in CallerLabels,
         pc' = [pc EXCEPT ![t] = to]
  PROVE  SlotHolders' = IF to \in HoldsSlot THEN SlotHolders \cup {t}
                                            ELSE SlotHolders \ {t}
<1>1. \A u \in Callers : pc'[u] = IF u = t THEN to ELSE pc[u]
  BY DEF TypeOK
<1>2. QED
  BY <1>1 DEF SlotHolders

\* The holders, counted, after a caller took a permit, gave one back, or kept
\* what it had.
LEMMA HoldersCount ==
  ASSUME TypeOK, NEW t \in Callers, NEW to \in CallerLabels,
         pc' = [pc EXCEPT ![t] = to]
  PROVE  Cardinality(SlotHolders') =
           CASE pc[t] \notin HoldsSlot /\ to \in HoldsSlot -> Cardinality(SlotHolders) + 1
             [] pc[t] \in HoldsSlot /\ to \notin HoldsSlot -> Cardinality(SlotHolders) - 1
             [] OTHER -> Cardinality(SlotHolders)
<1>1. t \in SlotHolders <=> pc[t] \in HoldsSlot
  BY DEF SlotHolders
<1>2. IsFiniteSet(SlotHolders)
  BY PermitSetsFinite DEF PermitsCountable
<1>3. CASE to \in HoldsSlot
  <2>1. SlotHolders' = SlotHolders \cup {t}
    BY <1>3, HoldersMove
  <2>2. QED
    BY <1>1, <1>2, <1>3, <2>1, FS_AddElement
<1>4. CASE to \notin HoldsSlot
  <2>1. SlotHolders' = SlotHolders \ {t}
    BY <1>4, HoldersMove
  <2>2. QED
    BY <1>1, <1>2, <1>4, <2>1, FS_RemoveElement
<1>5. QED
  BY <1>3, <1>4

\* One more permit drained.
LEMMA DrainedCount ==
  ASSUME TypeOK, NEW c \in Closers, drained[c] < Size,
         drained' = [drained EXCEPT ![c] = @ + 1]
  PROVE  Cardinality(DrainedPermits') = Cardinality(DrainedPermits) + 1
<1>1. drained[c] + 1 \in 1 .. Size
  BY PoolAssumption DEF TypeOK
<1>2. \A d \in Closers : drained'[d] = IF d = c THEN drained[c] + 1 ELSE drained[d]
  BY DEF TypeOK
<1>3. \A d \in Closers, i \in 1 .. Size :
        i <= drained'[d] <=> (i <= drained[d] \/ (d = c /\ i = drained[c] + 1))
  BY <1>2, PoolAssumption DEF TypeOK
<1>4. DrainedPermits' = DrainedPermits \cup {<<c, drained[c] + 1>>}
  BY <1>1, <1>3 DEF DrainedPermits
<1>5. <<c, drained[c] + 1>> \notin DrainedPermits
  BY PoolAssumption DEF DrainedPermits, TypeOK
<1>6. QED
  BY <1>4, <1>5, PermitSetsFinite, FS_AddElement DEF PermitsCountable

\* Once a closer has drained Size permits, no caller holds one.
LEMMA DrainedExcludesHolders ==
  ASSUME PoolInv, NEW c \in Closers, drained[c] = Size
  PROVE  SlotHolders = {}
<1>1. TypeOK /\ PermitsConserved
  BY DEF PoolInv
<1>2. /\ IsFiniteSet(SlotHolders) /\ IsFiniteSet(DrainedPermits)
      /\ Cardinality(SlotHolders) \in Nat /\ Cardinality(DrainedPermits) \in Nat
  BY <1>1, PermitSetsFinite DEF PermitsCountable
<1>3. {c} \X (1 .. Size) \subseteq DrainedPermits
  BY DEF DrainedPermits
<1>4. Cardinality({c} \X (1 .. Size)) = Size
  <2>1. IsFiniteSet({c}) /\ Cardinality({c}) = 1
    BY FS_Singleton
  <2>2. IsFiniteSet(1 .. Size) /\ Cardinality(1 .. Size) = Size
    BY FS_Interval, PoolAssumption
  <2>3. Cardinality({c} \X (1 .. Size)) = 1 * Size
    BY <2>1, <2>2, FS_Product
  <2>4. QED
    BY <2>3, PoolAssumption
<1>5. Cardinality(DrainedPermits) >= Size
  BY <1>2, <1>3, <1>4, FS_Subset
<1>6. Cardinality(SlotHolders) = 0
  BY <1>1, <1>2, <1>5, PoolAssumption DEF PermitsConserved, TypeOK
<1>7. QED
  BY <1>2, <1>6, FS_EmptySet

-----------------------------------------------------------------------------
(* The types *)

\* Every step of a caller keeps the types.
LEMMA CallerType ==
  ASSUME PoolInv, NEW t \in Callers, Call(t) \/ CallerStep(t)
  PROVE  TypeOK'
<1> USE DEF Moves, closerVars, CallerLabels
<1>type. TypeOK /\ HeldInv
  BY DEF PoolInv
<1>1. CASE Call(t)
  BY <1>1, <1>type, PoolAssumption DEF Call, TypeOK
<1>2. CASE AcquireSlot(t)
  BY <1>2, <1>type DEF AcquireSlot, TypeOK
<1>3. CASE Checkout(t)
  BY <1>3, <1>type DEF Checkout, TypeOK
<1>4. CASE Build(t)
  BY <1>4, <1>type DEF Build, TypeOK
<1>5. CASE Register(t)
  <2>1. held[t] \in Entries
    BY <1>5, <1>type DEF Register, HeldInv, TypeOK
  <2>2. QED
    BY <1>5, <2>1, <1>type DEF Register, TypeOK
<1>6. CASE Query(t)
  BY <1>6, <1>type DEF Query, TypeOK
<1>7. CASE GiveBack(t)
  <2>1. held[t] \in Entries
    BY <1>7, <1>type DEF GiveBack, HeldInv, TypeOK
  <2>2. QED
    BY <1>7, <2>1, <1>type DEF GiveBack, TypeOK
<1>8. CASE ReleaseSlot(t)
  BY <1>8, <1>type DEF ReleaseSlot, TypeOK
<1>9. QED
  BY <1>1, <1>2, <1>3, <1>4, <1>5, <1>6, <1>7, <1>8 DEF CallerStep

\* Every step of a closer keeps the types.
LEMMA CloserType ==
  ASSUME PoolInv, NEW c \in Closers, BeginClose(c) \/ CloserStep(c)
  PROVE  TypeOK'
<1> USE DEF MovesOn, callerVars, CloserLabels
<1>type. TypeOK /\ CloserInv
  BY DEF PoolInv
<1>1. CASE BeginClose(c)
  BY <1>1, <1>type DEF BeginClose, TypeOK
<1>2. CASE Drain(c)
  <2>1. drained[c] + 1 \in 0 .. Size
    BY <1>2, <1>type, PoolAssumption DEF Drain, CloserInv, TypeOK
  <2>2. QED
    BY <1>2, <2>1, <1>type DEF Drain, TypeOK
<1>3. CASE Collect(c)
  BY <1>3, <1>type DEF Collect, TypeOK
<1>4. CASE CloseEntry(c)
  <2>1. \A e \in toClose[c] : e \in Entries
    BY <1>type DEF TypeOK
  <2>2. open' \subseteq Entries /\ stuck' \subseteq Entries
    BY <1>4, <1>type, <2>1 DEF CloseEntry, TypeOK
  <2>3. toClose' \in [Closers -> SUBSET Entries]
    BY <1>4, <1>type DEF CloseEntry, TypeOK
  <2>4. QED
    BY <1>4, <2>2, <2>3, <1>type DEF CloseEntry, TypeOK
<1>5. CASE EndClose(c)
  BY <1>5, <1>type DEF EndClose, TypeOK
<1>6. QED
  BY <1>1, <1>2, <1>3, <1>4, <1>5 DEF CloserStep

-----------------------------------------------------------------------------
(* The permits and the entries, step by step *)

\* No permit is lost or made up by a step of a caller.
LEMMA CallerPermits ==
  ASSUME PoolInv, NEW t \in Callers, Call(t) \/ CallerStep(t)
  PROVE  PermitsConserved'
<1>type. TypeOK /\ PermitsConserved
  BY DEF PoolInv
<1>finite. Cardinality(SlotHolders) \in Nat /\ Cardinality(DrainedPermits) \in Nat
  BY <1>type, PermitSetsFinite DEF PermitsCountable
<1>1. /\ DrainedPermits' = DrainedPermits
      /\ \E to \in CallerLabels :
           /\ pc' = [pc EXCEPT ![t] = to]
           /\ \/ /\ pc[t] \notin HoldsSlot /\ to \in HoldsSlot
                 /\ permits' = permits - 1
              \/ /\ pc[t] \in HoldsSlot /\ to \notin HoldsSlot
                 /\ permits' = permits + 1
              \/ /\ pc[t] \in HoldsSlot <=> to \in HoldsSlot
                 /\ permits' = permits
  BY <1>type DEF DrainedPermits, CallerStep, Call, AcquireSlot, Checkout, Build, Register,
     Query, GiveBack, ReleaseSlot, Moves, closerVars, CallerLabels, HoldsSlot, TypeOK
<1>2. PICK to \in CallerLabels :
        /\ pc' = [pc EXCEPT ![t] = to]
        /\ \/ /\ pc[t] \notin HoldsSlot /\ to \in HoldsSlot
              /\ permits' = permits - 1
           \/ /\ pc[t] \in HoldsSlot /\ to \notin HoldsSlot
              /\ permits' = permits + 1
           \/ /\ pc[t] \in HoldsSlot <=> to \in HoldsSlot
              /\ permits' = permits
  BY <1>1
<1>3. Cardinality(SlotHolders') =
        CASE pc[t] \notin HoldsSlot /\ to \in HoldsSlot -> Cardinality(SlotHolders) + 1
          [] pc[t] \in HoldsSlot /\ to \notin HoldsSlot -> Cardinality(SlotHolders) - 1
          [] OTHER -> Cardinality(SlotHolders)
  BY <1>2, <1>type, HoldersCount
<1>4. QED
  BY <1>1, <1>2, <1>3, <1>type, <1>finite, PoolAssumption DEF PermitsConserved, TypeOK

\* Nor by a step of a closer.
LEMMA CloserPermits ==
  ASSUME PoolInv, NEW c \in Closers, BeginClose(c) \/ CloserStep(c)
  PROVE  PermitsConserved'
<1>type. TypeOK /\ PermitsConserved /\ CloserInv
  BY DEF PoolInv
<1>finite. Cardinality(SlotHolders) \in Nat /\ Cardinality(DrainedPermits) \in Nat
  BY <1>type, PermitSetsFinite DEF PermitsCountable
<1>1. SlotHolders' = SlotHolders
  BY DEF SlotHolders, CloserStep, BeginClose, Drain, Collect, CloseEntry, EndClose,
     MovesOn, callerVars
<1>2. CASE Drain(c)
  <2>1. drained[c] < Size
    BY <1>2, <1>type DEF Drain, MovesOn, CloserInv
  <2>2. Cardinality(DrainedPermits') = Cardinality(DrainedPermits) + 1
    BY <1>2, <2>1, <1>type, DrainedCount DEF Drain
  <2>3. permits' = permits - 1
    BY <1>2 DEF Drain
  <2>4. QED
    BY <1>1, <2>2, <2>3, <1>type, <1>finite, PoolAssumption DEF PermitsConserved, TypeOK
<1>3. CASE BeginClose(c) \/ Collect(c) \/ CloseEntry(c) \/ EndClose(c)
  <2>1. permits' = permits /\ DrainedPermits' = DrainedPermits
    BY <1>3 DEF DrainedPermits, BeginClose, Collect, CloseEntry, EndClose
  <2>2. QED
    BY <1>1, <2>1, <1>type DEF PermitsConserved
<1>4. QED
  BY <1>2, <1>3 DEF CloserStep

\* A caller only ever changes its own label and its own entry, and it takes no
\* entry that is idle no longer or open already.
LEMMA CallerEntries ==
  ASSUME PoolInv, NEW t \in Callers, Call(t) \/ CallerStep(t)
  PROVE  HeldInv' /\ ExclusiveCheckout' /\ EntriesInv' /\ IdleInv'
<1> USE DEF Moves, closerVars
<1>inv. TypeOK /\ HeldInv /\ ExclusiveCheckout /\ EntriesInv /\ IdleInv /\ CloserInv
  BY DEF PoolInv
<1>none. NoEntry \notin Entries
  BY PoolAssumption
<1>1. CASE \/ Call(t) \/ AcquireSlot(t) \/ Query(t) \/ ReleaseSlot(t)
           \/ (Checkout(t) /\ held' = held) \/ (Build(t) /\ held' = held)
  <2>1. /\ held' = held /\ all' = all /\ open' = open
        /\ toClose' = toClose /\ closed' = closed /\ idle' = idle
    BY <1>1, <1>inv, <1>none DEF Call, AcquireSlot, Query, ReleaseSlot, Checkout, Build,
       TypeOK, HeldInv
  <2>2. \A u \in Callers :
          /\ pc'[u] \in {"register", "query", "giveBack"}
               <=> pc[u] \in {"register", "query", "giveBack"}
          /\ pc'[u] \in {"query", "giveBack"} <=> pc[u] \in {"query", "giveBack"}
    BY <1>1, <1>inv, <1>none DEF Call, AcquireSlot, Query, ReleaseSlot, Checkout, Build,
       TypeOK, HeldInv
  <2>3. HeldEntries' = HeldEntries
    BY <2>1 DEF HeldEntries
  <2>4. QED
    BY <2>1, <2>2, <2>3, <1>inv DEF HeldInv, ExclusiveCheckout, EntriesInv, IdleInv
<1>2. CASE Checkout(t) /\ held' # held
  <2>1. PICK e \in idle : /\ idle' = idle \ {e}
                          /\ held' = [held EXCEPT ![t] = e]
                          /\ pc' = [pc EXCEPT ![t] = "query"]
    BY <1>2 DEF Checkout
  <2>2. pc[t] = "checkout" /\ UNCHANGED <<all, open, toClose, closed>>
    BY <1>2 DEF Checkout
  <2>3. held[t] = NoEntry /\ e # NoEntry /\ e \in all /\ e \in Entries
    BY <2>1, <2>2, <1>inv, <1>none DEF HeldInv, EntriesInv, TypeOK
  <2>4. HeldEntries' = HeldEntries \cup {e}
    BY <2>1, <2>3, <1>inv DEF HeldEntries, TypeOK
  <2>5. HeldInv'
    BY <2>1, <2>2, <2>3, <1>inv DEF HeldInv, TypeOK
  <2>6. ExclusiveCheckout'
    BY <2>1, <2>3, <1>inv DEF ExclusiveCheckout, TypeOK
  <2>7. EntriesInv'
    BY <2>1, <2>2, <2>3, <2>4, <1>inv DEF EntriesInv, TypeOK
  <2>8. IdleInv'
    BY <2>1, <2>2, <2>4, <1>inv DEF IdleInv
  <2>9. QED
    BY <2>5, <2>6, <2>7, <2>8
<1>3. CASE Build(t) /\ held' # held
  <2>1. PICK e \in Entries \ (open \cup stuck) :
          /\ open' = open \cup {e}
          /\ held' = [held EXCEPT ![t] = e]
          /\ pc' = [pc EXCEPT ![t] = "register"]
    BY <1>3 DEF Build
  <2>2. pc[t] = "build" /\ UNCHANGED <<all, idle, toClose, closed>>
    BY <1>3 DEF Build
  <2>3. /\ held[t] = NoEntry /\ e # NoEntry
        /\ e \notin all /\ e \notin idle /\ \A u \in Callers : held[u] # e
        /\ \A c \in Closers : e \notin toClose[c]
    <3>1. held[t] = NoEntry /\ e # NoEntry
      BY <2>1, <2>2, <1>inv, <1>none DEF HeldInv
    <3>2. e \notin all /\ e \notin idle /\ \A c \in Closers : e \notin toClose[c]
      BY <2>1, <1>inv DEF EntriesInv
    <3>3. e \notin HeldEntries
      BY <2>1, <1>inv DEF EntriesInv
    <3>4. QED
      BY <3>1, <3>2, <3>3 DEF HeldEntries
  <2>4. HeldEntries' = HeldEntries \cup {e}
    BY <2>1, <2>3, <1>inv DEF HeldEntries, TypeOK
  <2>5. HeldInv'
    BY <2>1, <2>2, <2>3, <1>inv DEF HeldInv, TypeOK
  <2>6. ExclusiveCheckout'
    BY <2>1, <2>2, <2>3, <1>inv DEF ExclusiveCheckout, TypeOK
  <2>7. EntriesInv'
    BY <2>1, <2>2, <2>3, <2>4, <1>inv DEF EntriesInv, TypeOK
  <2>8. IdleInv'
    BY <2>2, <2>4, <1>inv DEF IdleInv
  <2>9. QED
    BY <2>5, <2>6, <2>7, <2>8
<1>4. CASE Register(t)
  <2>1. /\ pc[t] = "register" /\ pc' = [pc EXCEPT ![t] = "query"]
        /\ all' = all \cup {held[t]}
        /\ UNCHANGED <<held, idle, open, toClose, closed>>
    BY <1>4 DEF Register
  <2>2. held[t] \in HeldEntries /\ HeldEntries' = HeldEntries
    BY <2>1, <1>inv DEF HeldInv, HeldEntries
  <2>3. HeldInv' /\ ExclusiveCheckout'
    BY <2>1, <1>inv DEF HeldInv, ExclusiveCheckout, TypeOK
  <2>4. EntriesInv'
    BY <2>1, <2>2, <1>inv DEF EntriesInv, TypeOK
  <2>5. IdleInv'
    BY <2>1, <2>2, <1>inv DEF IdleInv
  <2>6. QED
    BY <2>3, <2>4, <2>5
<1>5. CASE GiveBack(t)
  <2>1. /\ pc[t] = "giveBack" /\ pc' = [pc EXCEPT ![t] = "releaseSlot"]
        /\ held' = [held EXCEPT ![t] = NoEntry]
        /\ idle' = IF closed THEN idle ELSE idle \cup {held[t]}
        /\ UNCHANGED <<all, open, toClose, closed>>
    BY <1>5 DEF GiveBack
  <2>2. held[t] # NoEntry /\ held[t] \in all
    BY <2>1, <1>inv DEF HeldInv, EntriesInv
  <2>3. HeldEntries = HeldEntries' \cup {held[t]}
    BY <2>1, <2>2, <1>inv DEF HeldEntries, TypeOK
  <2>4. HeldInv'
    BY <2>1, <1>inv DEF HeldInv, TypeOK
  <2>5. ExclusiveCheckout'
    BY <2>1, <2>2, <1>inv DEF ExclusiveCheckout, TypeOK
  <2>6. EntriesInv'
    BY <2>1, <2>2, <2>3, <1>inv DEF EntriesInv, TypeOK
  <2>7. IdleInv'
    BY <2>1, <2>3, <1>inv DEF IdleInv
  <2>8. QED
    BY <2>4, <2>5, <2>6, <2>7
<1>6. QED
  BY <1>1, <1>2, <1>3, <1>4, <1>5 DEF CallerStep

\* A closer changes no label and no entry of a caller; what it collects is
\* still open, and what it closes is no longer recorded nor checked out.
LEMMA CloserEntries ==
  ASSUME PoolInv, NEW c \in Closers, BeginClose(c) \/ CloserStep(c)
  PROVE  HeldInv' /\ ExclusiveCheckout' /\ EntriesInv' /\ IdleInv'
<1> USE DEF MovesOn, callerVars
<1>inv. TypeOK /\ HeldInv /\ ExclusiveCheckout /\ EntriesInv /\ IdleInv /\ CloserInv
  BY DEF PoolInv
<1>pc. pc' = pc /\ held' = held /\ HeldEntries' = HeldEntries
  BY DEF HeldEntries, CloserStep, BeginClose, Drain, Collect, CloseEntry, EndClose
<1>held. HeldInv'
  BY <1>pc, <1>inv DEF HeldInv
<1>1. CASE BeginClose(c) \/ Drain(c) \/ EndClose(c)
  <2>1. /\ UNCHANGED <<idle, all, open, toClose>>
        /\ closed' = closed \/ closed'
    BY <1>1, <1>inv DEF BeginClose, Drain, EndClose, TypeOK
  <2>2. QED
    BY <2>1, <1>pc, <1>held, <1>inv DEF ExclusiveCheckout, EntriesInv, IdleInv
<1>2. CASE Collect(c)
  <2>1. /\ closing[c] = "collect"
        /\ toClose' = [toClose EXCEPT ![c] = all]
        /\ all' = {} /\ idle' = {} /\ UNCHANGED <<open, closed>>
    BY <1>2 DEF Collect
  <2>2. SlotHolders = {}
    BY <2>1, <1>inv, DrainedExcludesHolders DEF CloserInv
  <2>3. \A t \in Callers : held[t] = NoEntry /\ pc[t] \notin {"query", "giveBack"}
    BY <2>2, <1>inv DEF SlotHolders, HoldsSlot, HeldInv
  <2>4. HeldEntries = {}
    BY <2>3 DEF HeldEntries
  <2>5. \A d \in Closers : toClose[d] = {}
    BY <2>1, <1>inv DEF CloserInv
  <2>6. \A d \in Closers : toClose'[d] = IF d = c THEN all ELSE {}
    BY <2>1, <2>5, <1>inv DEF TypeOK
  <2>7. open = all
    BY <2>4, <2>5, <1>inv DEF EntriesInv
  <2>8. UNION {toClose'[d] : d \in Closers} = all
    BY <2>6
  <2>9. EntriesInv'
    BY <2>1, <2>3, <2>4, <2>7, <2>8, <1>pc DEF EntriesInv
  <2>10. QED
    BY <2>1, <2>3, <2>9, <1>pc, <1>held DEF ExclusiveCheckout, IdleInv
<1>3. CASE CloseEntry(c)
  <2>1. PICK e \in toClose[c] :
          /\ closing[c] = "close"
          /\ toClose' = [toClose EXCEPT ![c] = @ \ {e}]
          /\ open' = open \ {e}
          /\ UNCHANGED <<idle, all, closed>>
    BY <1>3 DEF CloseEntry
  <2>2. \A d \in Closers \ {c} : toClose[d] = {}
    BY <2>1, <1>inv DEF CloserInv
  <2>3. \A d \in Closers : toClose'[d] = IF d = c THEN toClose[c] \ {e} ELSE {}
    BY <2>1, <2>2, <1>inv DEF TypeOK
  <2>4. /\ UNION {toClose[d] : d \in Closers} = toClose[c]
        /\ UNION {toClose'[d] : d \in Closers} = toClose[c] \ {e}
    BY <2>2, <2>3
  <2>5. e \notin all \cup HeldEntries
    BY <1>inv, <2>1 DEF EntriesInv
  <2>6. EntriesInv'
    BY <2>1, <2>3, <2>4, <2>5, <1>pc, <1>inv DEF EntriesInv
  <2>7. QED
    BY <2>1, <2>6, <1>pc, <1>held, <1>inv DEF ExclusiveCheckout, IdleInv
<1>4. QED
  BY <1>1, <1>2, <1>3 DEF CloserStep

\* No step of a caller disturbs a close under way: once the entries have been
\* collected no thread is left that could record another.
LEMMA CallerKeepsClosers ==
  ASSUME PoolInv, NEW t \in Callers, Call(t) \/ CallerStep(t)
  PROVE  CloserInv'
<1>inv. CloserInv
  BY DEF PoolInv
<1>1. /\ UNCHANGED <<closing, drained, toClose, closed>>
      /\ all' = all \/ pc[t] = "register"
  BY DEF CallerStep, Call, AcquireSlot, Checkout, Build, Register, Query, GiveBack,
     ReleaseSlot, Moves, closerVars
<1>2. ASSUME NEW c \in Closers, drained[c] = Size
      PROVE  all' = all
  <2>1. SlotHolders = {}
    BY <1>2, DrainedExcludesHolders
  <2>2. QED
    BY <1>1, <2>1 DEF SlotHolders, HoldsSlot
<1>3. QED
  BY <1>1, <1>2, <1>inv DEF CloserInv

\* One close at a time drains, and what it has drained it keeps.
LEMMA CloserKeepsClosers ==
  ASSUME PoolInv, NEW c \in Closers, BeginClose(c) \/ CloserStep(c)
  PROVE  CloserInv'
<1> USE DEF MovesOn
<1>inv. TypeOK /\ CloserInv
  BY DEF PoolInv
<1>size. Size \in Nat \ {0}
  BY PoolAssumption
<1>1. CASE BeginClose(c)
  <2>1. closing[c] = "outside" /\ drained[c] = 0
    BY <1>1, <1>inv DEF BeginClose, CloserInv
  <2>2. \A d \in Closers : ~closed => closing[d] = "outside" /\ drained[d] = 0
    BY <1>inv DEF CloserInv
  <2>3. QED
    BY <1>1, <2>1, <2>2, <1>inv, <1>size DEF BeginClose, CloserInv, TypeOK
<1>2. CASE Drain(c)
  <2>1. closing[c] = "drain" /\ drained[c] \in Nat /\ drained[c] < Size
    BY <1>2, <1>inv DEF Drain, CloserInv, TypeOK
  <2>2. /\ closing' = [closing EXCEPT ![c] = IF drained[c] + 1 = Size THEN "collect" ELSE "drain"]
        /\ drained' = [drained EXCEPT ![c] = @ + 1]
        /\ UNCHANGED <<closed, all, toClose>>
    BY <1>2 DEF Drain
  <2>3. /\ closing'[c] = IF drained[c] + 1 = Size THEN "collect" ELSE "drain"
        /\ drained'[c] = drained[c] + 1
        /\ \A d \in Closers \ {c} : closing'[d] = closing[d] /\ drained'[d] = drained[d]
    BY <2>2, <1>inv DEF TypeOK
  <2>4. \A d \in Closers \ {c} :
          /\ closing[d] \in {"outside", "returned"} /\ drained[d] = 0
    BY <2>1, <1>inv DEF CloserInv
  <2>5. QED
    BY <2>1, <2>2, <2>3, <2>4, <1>inv, <1>size DEF CloserInv
<1>3. CASE Collect(c)
  BY <1>3, <1>inv, <1>size DEF Collect, CloserInv, TypeOK
<1>4. CASE CloseEntry(c)
  BY <1>4, <1>inv DEF CloseEntry, CloserInv, TypeOK
<1>5. CASE EndClose(c)
  BY <1>5, <1>inv, <1>size DEF EndClose, CloserInv, TypeOK
<1>6. QED
  BY <1>1, <1>2, <1>3, <1>4, <1>5 DEF CloserStep

-----------------------------------------------------------------------------
(* The number of open entries *)

HeldBounded ==
  /\ IsFiniteSet(HeldEntries) /\ IsFiniteSet(Builders)
  /\ Cardinality(HeldEntries) + Cardinality(Builders) <= Cardinality(SlotHolders)

\* No more entries are checked out than callers hold a permit, builders aside.
LEMMA HeldAndBuildersBounded == TypeOK /\ HeldInv => HeldBounded
<1> USE DEF HeldBounded, PermitsCountable
<1> SUFFICES ASSUME TypeOK, HeldInv PROVE HeldBounded
  OBVIOUS
<1> DEFINE having == {t \in Callers : held[t] # NoEntry}
           f == [t \in having |-> held[t]]
<1>1. /\ having \subseteq SlotHolders /\ Builders \subseteq SlotHolders
      /\ having \cap Builders = {}
  BY DEF HeldInv, SlotHolders, Builders, HoldsSlot
<1>2. /\ IsFiniteSet(SlotHolders) /\ Cardinality(SlotHolders) \in Nat
      /\ IsFiniteSet(having) /\ IsFiniteSet(Builders)
  BY <1>1, PermitSetsFinite, FS_Subset DEF PermitsCountable
<1>3. f \in Surjection(having, HeldEntries)
  BY DEF Surjection, HeldEntries
<1>4. IsFiniteSet(HeldEntries) /\ Cardinality(HeldEntries) <= Cardinality(having)
  BY <1>2, <1>3, FS_Surjection
<1>5. Cardinality(having \cup Builders) = Cardinality(having) + Cardinality(Builders)
  <2>1. Cardinality(having \cup Builders)
          = Cardinality(having) + Cardinality(Builders) - Cardinality(having \cap Builders)
    BY <1>2, FS_Union
  <2>2. Cardinality(having \cap Builders) = 0
    BY <1>1, FS_EmptySet
  <2>3. QED
    BY <2>1, <2>2, <1>2, FS_CardinalityType
<1>6. Cardinality(having \cup Builders) <= Cardinality(SlotHolders)
  BY <1>1, <1>2, FS_Subset
<1>7. /\ Cardinality(having) \in Nat /\ Cardinality(Builders) \in Nat
      /\ Cardinality(HeldEntries) \in Nat
  BY <1>2, <1>4, FS_CardinalityType
<1>8. QED
  BY <1>2, <1>4, <1>5, <1>6, <1>7

\* A caller goes on to build only when every open entry is checked out, and a
\* build trades the builder for the entry.
LEMMA CallerBuilds ==
  ASSUME PoolInv, NEW t \in Callers, Call(t) \/ CallerStep(t), TypeOK', HeldInv',
         PermitsConserved'
  PROVE  BuildInv'
<1> USE DEF Moves, closerVars
<1>inv. TypeOK /\ HeldInv /\ EntriesInv /\ IdleInv /\ CloserInv /\ BuildInv
  BY DEF PoolInv
<1>finite. /\ IsFiniteSet(Builders) /\ IsFiniteSet(open)
           /\ Cardinality(Builders) \in Nat /\ Cardinality(open) \in Nat
  BY <1>inv, HeldAndBuildersBounded, FS_CardinalityType DEF BuildInv, HeldBounded
<1>1. CASE Checkout(t) /\ pc'[t] = "build"
  <2>1. ~closed /\ idle = {} /\ open' = open /\ HeldEntries' = HeldEntries
    BY <1>1, <1>inv DEF Checkout, TypeOK, HeldEntries
  <2>2. \A c \in Closers : toClose[c] = {}
    BY <2>1, <1>inv DEF CloserInv
  <2>3. open \subseteq HeldEntries
    BY <2>1, <2>2, <1>inv DEF EntriesInv, IdleInv
  <2>4. /\ IsFiniteSet(HeldEntries') /\ IsFiniteSet(Builders')
        /\ Cardinality(HeldEntries') + Cardinality(Builders') <= Cardinality(SlotHolders')
    <3>1. HeldBounded'
      BY HeldAndBuildersBounded, PTL
    <3>2. QED
      BY <3>1 DEF HeldBounded
  <2>5. Cardinality(SlotHolders') <= Size
    <3>1. PermitsCountable'
      BY PermitSetsFinite, PTL
    <3>2. QED
      BY <3>1, PoolAssumption DEF PermitsConserved, PermitsCountable, TypeOK
  <2>6. Cardinality(open) <= Cardinality(HeldEntries)
    BY <2>1, <2>3, <2>4, FS_Subset
  <2>7. /\ Cardinality(HeldEntries') \in Nat /\ Cardinality(Builders') \in Nat
        /\ Cardinality(SlotHolders') \in Nat
    <3>1. PermitsCountable'
      BY PermitSetsFinite, PTL
    <3>2. QED
      BY <3>1, <2>4, FS_CardinalityType DEF PermitsCountable
  <2>8. QED
    BY <2>1, <2>4, <2>5, <2>6, <2>7, <1>finite, PoolAssumption DEF BuildInv
<1>2. CASE Build(t) /\ pc'[t] = "register"
  <2>1. PICK e \in Entries \ (open \cup stuck) :
          open' = open \cup {e} /\ pc[t] = "build" /\ pc' = [pc EXCEPT ![t] = "register"]
    BY <1>2, <1>inv DEF Build, TypeOK
  <2>2. Builders' = Builders \ {t} /\ t \in Builders
    BY <2>1, <1>inv DEF Builders, TypeOK
  <2>3. IsFiniteSet(open') /\ Cardinality(open') = Cardinality(open) + 1
    BY <2>1, <1>finite, FS_AddElement
  <2>4. Cardinality(Builders') = Cardinality(Builders) - 1
    BY <2>2, <1>finite, FS_RemoveElement
  <2>5. QED
    BY <2>3, <2>4, <1>finite, <1>inv, PoolAssumption DEF BuildInv
<1>3. CASE ~(Checkout(t) /\ pc'[t] = "build") /\ ~(Build(t) /\ pc'[t] = "register")
  <2>1. open' = open
    BY <1>3, <1>inv DEF CallerStep, Call, AcquireSlot, Checkout, Build, Register, Query,
       GiveBack, ReleaseSlot, TypeOK
  <2>2. Builders' \subseteq Builders
    BY <1>3, <1>inv DEF Builders, CallerStep, Call, AcquireSlot, Checkout, Build, Register,
       Query, GiveBack, ReleaseSlot, TypeOK
  <2>3. Cardinality(Builders') <= Cardinality(Builders) /\ Cardinality(Builders') \in Nat
    BY <2>2, <1>finite, FS_Subset, FS_CardinalityType
  <2>4. QED
    BY <2>1, <2>3, <1>finite, <1>inv, PoolAssumption DEF BuildInv
<1>4. QED
  BY <1>1, <1>2, <1>3

\* A closer only ever closes entries.
LEMMA CloserBuilds ==
  ASSUME PoolInv, NEW c \in Closers, BeginClose(c) \/ CloserStep(c)
  PROVE  BuildInv'
<1>inv. TypeOK /\ HeldInv /\ BuildInv
  BY DEF PoolInv
<1>1. open' \subseteq open /\ Builders' = Builders
  BY DEF Builders, CloserStep, BeginClose, Drain, Collect, CloseEntry, EndClose, MovesOn,
     callerVars
<1>2. /\ IsFiniteSet(open') /\ Cardinality(open') <= Cardinality(open)
      /\ Cardinality(open') \in Nat /\ Cardinality(open) \in Nat
      /\ Cardinality(Builders) \in Nat
  BY <1>1, <1>inv, HeldAndBuildersBounded, FS_Subset, FS_CardinalityType DEF BuildInv, HeldBounded
<1>3. QED
  BY <1>1, <1>2, <1>inv, PoolAssumption DEF BuildInv

-----------------------------------------------------------------------------
(* The theorems *)

\* The invariant holds of a pool no thread has used.
LEMMA InitPoolInv == Init => PoolInv
<1> SUFFICES ASSUME Init PROVE PoolInv
  OBVIOUS
<1> USE DEF Init
<1>type. TypeOK
  <2>1. 0 \in 0 .. MaxCalls /\ 0 \in 0 .. Size
    BY PoolAssumption
  <2>2. /\ held \in [Callers -> Entries \cup {NoEntry}]
        /\ calls \in [Callers -> 0 .. MaxCalls]
        /\ drained \in [Closers -> 0 .. Size]
        /\ toClose \in [Closers -> SUBSET Entries]
    BY <2>1
  <2>3. pc \in [Callers -> CallerLabels] /\ closing \in [Closers -> CloserLabels]
    BY DEF CallerLabels, CloserLabels
  <2>4. QED
    BY <2>2, <2>3, PoolAssumption DEF TypeOK
<1>1. HeldInv /\ ExclusiveCheckout
  BY DEF HeldInv, ExclusiveCheckout
<1>2. HeldEntries = {} /\ UNION {toClose[c] : c \in Closers} = {}
  BY DEF HeldEntries
<1>3. EntriesInv /\ IdleInv
  BY <1>2 DEF EntriesInv, IdleInv
<1>4. CloserInv
  BY PoolAssumption DEF CloserInv
<1>5. SlotHolders = {} /\ DrainedPermits = {} /\ Builders = {}
  BY DEF SlotHolders, DrainedPermits, Builders, HoldsSlot
<1>6. PermitsConserved /\ BuildInv
  BY <1>5, FS_EmptySet, PoolAssumption DEF PermitsConserved, BuildInv
<1>7. QED
  BY <1>type, <1>1, <1>3, <1>4, <1>6 DEF PoolInv

\* The invariant is kept by every step of every thread.
LEMMA StepPoolInv == PoolInv /\ [Next]_vars => PoolInv'
<1> SUFFICES ASSUME PoolInv, [Next]_vars PROVE PoolInv'
  OBVIOUS
<1>1. ASSUME NEW t \in Callers, Call(t) \/ CallerStep(t)
      PROVE  PoolInv'
  BY <1>1, CallerType, CallerEntries, CallerKeepsClosers, CallerPermits, CallerBuilds
     DEF PoolInv
<1>2. ASSUME NEW c \in Closers, BeginClose(c) \/ CloserStep(c)
      PROVE  PoolInv'
  BY <1>2, CloserType, CloserEntries, CloserKeepsClosers, CloserPermits, CloserBuilds
     DEF PoolInv
<1>3. CASE UNCHANGED vars
  BY <1>3 DEF vars, callerVars, closerVars, PoolInv, TypeOK, HeldInv, ExclusiveCheckout,
     EntriesInv, HeldEntries, IdleInv, CloserInv, PermitsConserved, SlotHolders,
     DrainedPermits, BuildInv, Builders
<1>4. QED
  BY <1>1, <1>2, <1>3, StepCases

\* The invariant holds in every reachable state.
THEOREM PoolInvariant == Spec => []PoolInv
  BY InitPoolInv, StepPoolInv, PTL DEF Spec

\* A retriever is lent to one thread at a time, for any number of threads.
THEOREM CheckoutIsExclusive == Spec => []ExclusiveCheckout
<1>1. PoolInv => ExclusiveCheckout
  BY DEF PoolInv
<1>2. QED
  BY <1>1, PoolInvariant, PTL

\* No permit is lost or made up, whatever calls fail and whenever the pool closes.
THEOREM PermitsAreConserved == Spec => []PermitsConserved
<1>1. PoolInv => PermitsConserved
  BY DEF PoolInv
<1>2. QED
  BY <1>1, PoolInvariant, PTL

\* At most Size retrievers have connections open at any time.
THEOREM ConnectionsAreBounded == Spec => []ConnectionsBounded
<1>1. PoolInv => ConnectionsBounded
  <2> SUFFICES ASSUME PoolInv PROVE ConnectionsBounded
    OBVIOUS
  <2>1. TypeOK /\ HeldInv /\ BuildInv
    BY DEF PoolInv
  <2>2. Cardinality(open) \in Nat /\ Cardinality(Builders) \in Nat
    BY <2>1, HeldAndBuildersBounded, FS_CardinalityType DEF BuildInv, HeldBounded
  <2>3. QED
    BY <2>1, <2>2, PoolAssumption DEF BuildInv, ConnectionsBounded
<1>2. QED
  BY <1>1, PoolInvariant, PTL

\* Every variable of the pool keeps its type, for any number of threads.
THEOREM PoolTypeCorrect == Spec => []TypeOK
<1>1. PoolInv => TypeOK
  BY DEF PoolInv
<1>2. QED
  BY <1>1, PoolInvariant, PTL

\* No connection is closed out from under the thread that uses it.
THEOREM NoConnectionUsedAfterClose == Spec => []NoUseAfterClose
<1>1. PoolInv => NoUseAfterClose
  BY DEF PoolInv, EntriesInv, HeldEntries, NoUseAfterClose
<1>2. QED
  BY <1>1, PoolInvariant, PTL

\* When close has returned to the thread that drained the pool, nothing is open.
THEOREM CloseIsComplete == Spec => []CloseLeavesNothingOpen
<1>1. PoolInv => CloseLeavesNothingOpen
  <2> SUFFICES ASSUME PoolInv, NEW c \in Closers, closing[c] = "returned", drained[c] > 0
               PROVE  open = {}
    BY DEF CloseLeavesNothingOpen
  <2>1. TypeOK /\ HeldInv /\ EntriesInv /\ CloserInv
    BY DEF PoolInv
  <2>2. drained[c] = Size /\ all = {}
    BY <2>1 DEF CloserInv
  <2>3. HeldEntries = {}
    <3>1. SlotHolders = {}
      BY <2>2, DrainedExcludesHolders
    <3>2. QED
      BY <3>1, <2>1 DEF SlotHolders, HoldsSlot, HeldInv, HeldEntries
  <2>4. \A d \in Closers : toClose[d] = {}
    BY <2>1, <2>2, PoolAssumption DEF CloserInv
  <2>5. QED
    BY <2>1, <2>2, <2>3, <2>4 DEF EntriesInv
<1>2. QED
  BY <1>1, PoolInvariant, PTL

\* No thread waits for a permit that is with nobody, whatever builds have failed
\* and whichever calls were refused: the safety part of the liveness properties,
\* for every size and number of threads.
THEOREM NobodyWaitsInVain == Spec => []WaitersWaitForHolders
<1>1. PoolInv => WaitersWaitForHolders
  <2> SUFFICES ASSUME PoolInv, permits = 0, SlotHolders = {},
                      \/ \E c \in Closers : closing[c] = "drain"
                      \/ ~closed
               PROVE  FALSE
    BY DEF WaitersWaitForHolders, PoolInv, TypeOK
  <2>1. TypeOK /\ CloserInv /\ PermitsConserved
    BY DEF PoolInv
  <2>2. Cardinality(DrainedPermits) = Size
    BY <2>1, FS_EmptySet, PermitSetsFinite, PoolAssumption DEF PermitsConserved, PermitsCountable
  <2>3. CASE ~closed
    <3>1. DrainedPermits = {}
      BY <2>1, <2>3 DEF DrainedPermits, CloserInv
    <3>2. QED
      BY <2>2, <3>1, FS_EmptySet, PoolAssumption
  <2>4. ASSUME NEW c \in Closers, closing[c] = "drain"
        PROVE  FALSE
    <3>1. drained[c] \in 0 .. Size - 1 /\ \A d \in Closers \ {c} : drained[d] = 0
      BY <2>1, <2>4, PoolAssumption DEF CloserInv, TypeOK
    <3>2. DrainedPermits \subseteq {c} \X (1 .. Size - 1)
      BY <3>1, PoolAssumption DEF DrainedPermits
    <3>3. /\ IsFiniteSet({c} \X (1 .. Size - 1))
          /\ Cardinality({c} \X (1 .. Size - 1)) = Size - 1
      <4> DEFINE one == {c}
                 some == 1 .. Size - 1
      <4>1. IsFiniteSet(one) /\ Cardinality(one) = 1
        BY FS_Singleton
      <4>2. Size - 1 \in Nat /\ IsFiniteSet(some) /\ Cardinality(some) = Size - 1
        BY FS_Interval, PoolAssumption
      <4> HIDE DEF one, some
      <4>3. IsFiniteSet(one \X some) /\ Cardinality(one \X some) = 1 * Cardinality(some)
        BY <4>1, <4>2, FS_Product
      <4>4. IsFiniteSet(one \X some) /\ Cardinality(one \X some) = Size - 1
        BY <4>2, <4>3
      <4>5. QED
        BY <4>4 DEF one, some
    <3>4. Cardinality(DrainedPermits) <= Size - 1
      BY <3>2, <3>3, FS_Subset, PoolAssumption
    <3>5. QED
      BY <2>2, <3>4, PoolAssumption
  <2>5. QED
    BY <2>3, <2>4
<1>2. QED
  BY <1>1, PoolInvariant, PTL

-----------------------------------------------------------------------------
(* The abstract pool *)

LendingStep == Lending!Next \/ UNCHANGED <<open, held, Phase>>

\* The two modules count with the same Cardinality.
LEMMA SameCardinality == \A S : Lending!Cardinality(S) = Cardinality(S)
  BY DEF Lending!Cardinality, Cardinality

\* While a thread has a permit, close has not begun to close the entries.
LEMMA HolderKeepsOpen ==
  ASSUME PoolInv, NEW t \in Callers, pc[t] \in HoldsSlot
  PROVE  Phase # "closing"
<1>1. TypeOK /\ CloserInv /\ t \in SlotHolders
  BY DEF PoolInv, SlotHolders
<1>2. \A c \in Closers : drained[c] # Size
  BY <1>1, DrainedExcludesHolders
<1>3. QED
  BY <1>1, <1>2 DEF CloserInv, Phase, Emptied

\* What a caller of retrieve does is lending, opening, returning, or unseen.
LEMMA CallerImplementsLending ==
  ASSUME PoolInv, NEW t \in Callers, Call(t) \/ CallerStep(t)
  PROVE  LendingStep
<1>inv. TypeOK /\ HeldInv /\ ExclusiveCheckout /\ EntriesInv /\ BuildInv
  BY DEF PoolInv
<1>phase. Phase' = Phase
  BY DEF Phase, Emptied, CallerStep, Call, AcquireSlot, Checkout, Build, Register, Query,
     GiveBack, ReleaseSlot, Moves, closerVars
<1>1. CASE Call(t) \/ AcquireSlot(t) \/ Register(t) \/ Query(t) \/ ReleaseSlot(t)
  BY <1>1, <1>phase DEF LendingStep, Call, AcquireSlot, Register, Query, ReleaseSlot
<1>2. CASE Checkout(t)
  <2>1. CASE held' = held
    BY <1>2, <2>1, <1>phase DEF LendingStep, Checkout
  <2>2. CASE held' # held
    <3>1. PICK e \in idle : held' = [held EXCEPT ![t] = e]
      BY <1>2, <2>2 DEF Checkout
    <3>2. ~closed /\ pc[t] = "checkout" /\ open' = open
      BY <1>2, <2>2 DEF Checkout, Moves
    <3>3. held[t] = NoEntry
      BY <3>2, <1>inv DEF HeldInv
    <3>4. e \in Entries /\ e # NoEntry /\ e \in open
      BY <1>inv, PoolAssumption DEF TypeOK, EntriesInv
    <3>5. \A u \in Callers : held[u] # e
      BY <1>inv, <3>4 DEF ExclusiveCheckout
    <3>6. Phase = "lending"
      BY <3>2 DEF Phase
    <3>7. Lending!Lend(t, e)
      BY <3>1, <3>2, <3>3, <3>4, <3>5, <3>6, <1>phase DEF Lending!Lend
    <3>8. QED
      BY <3>4, <3>7 DEF LendingStep, Lending!Next
  <2>3. QED
    BY <2>1, <2>2
<1>3. CASE Build(t)
  <2>1. CASE held' = held /\ open' = open
    BY <2>1, <1>phase DEF LendingStep
  <2>2. CASE ~(held' = held /\ open' = open)
    <3>1. PICK e \in Entries \ (open \cup stuck) :
            open' = open \cup {e} /\ held' = [held EXCEPT ![t] = e]
      BY <1>3, <2>2 DEF Build
    <3>2. pc[t] = "build"
      BY <1>3 DEF Build, Moves
    <3>3. held[t] = NoEntry
      BY <3>2, <1>inv DEF HeldInv
    <3>4. Phase # "closing"
      BY <3>2, HolderKeepsOpen DEF HoldsSlot
    <3>5. Cardinality(open) < Size
      <4>1. /\ Cardinality(open) \in Nat /\ IsFiniteSet(Builders)
            /\ Cardinality(Builders) \in Nat
        BY <1>inv, HeldAndBuildersBounded, FS_CardinalityType DEF BuildInv, HeldBounded
      <4>2. Cardinality(Builders) # 0
        BY <3>2, <4>1, FS_EmptySet DEF Builders
      <4>3. QED
        BY <4>1, <4>2, <1>inv, PoolAssumption DEF BuildInv
    <3>6. e \in Entries /\ e \notin open
      OBVIOUS
    <3>7. Lending!Open(t, e)
      BY <3>1, <3>3, <3>4, <3>5, <3>6, <1>phase, SameCardinality DEF Lending!Open
    <3>8. QED
      BY <3>6, <3>7 DEF LendingStep, Lending!Next
  <2>3. QED
    BY <2>1, <2>2
<1>4. CASE GiveBack(t)
  <2>1. held[t] # NoEntry
    BY <1>4, <1>inv DEF GiveBack, Moves, HeldInv
  <2>2. Lending!Return(t)
    BY <1>4, <2>1, <1>phase DEF GiveBack, Lending!Return
  <2>3. QED
    BY <2>2 DEF LendingStep, Lending!Next
<1>5. QED
  BY <1>1, <1>2, <1>3, <1>4 DEF CallerStep

\* What a caller of close does is recalling, closing, or unseen.
LEMMA CloserImplementsLending ==
  ASSUME PoolInv, NEW c \in Closers, BeginClose(c) \/ CloserStep(c)
  PROVE  LendingStep
<1>inv. TypeOK /\ HeldInv /\ EntriesInv /\ CloserInv
  BY DEF PoolInv
<1>move. ASSUME NEW to \in CloserLabels, closing' = [closing EXCEPT ![c] = to]
         PROVE  \A d \in Closers : closing'[d] = IF d = c THEN to ELSE closing[d]
  BY <1>move, <1>inv DEF TypeOK
<1>1. CASE BeginClose(c)
  <2>1. open' = open /\ held' = held /\ drained' = drained /\ closing[c] = "outside"
    BY <1>1 DEF BeginClose, MovesOn, callerVars
  <2>2. CASE closed
    <3>1. closed' /\ closing' = [closing EXCEPT ![c] = "returned"]
      BY <1>1, <2>2 DEF BeginClose, MovesOn
    <3>2. \A d \in Closers : closing'[d] = IF d = c THEN "returned" ELSE closing[d]
      BY <3>1, <1>move DEF CloserLabels
    <3>3. drained[c] = 0
      BY <2>1, <1>inv DEF CloserInv
    <3>4. \A d \in Closers : Emptied(d)' <=> Emptied(d)
      BY <2>1, <3>2, <3>3, PoolAssumption DEF Emptied
    <3>5. Phase' = Phase
      BY <2>2, <3>1, <3>4 DEF Phase
    <3>6. QED
      BY <2>1, <3>5 DEF LendingStep
  <2>3. CASE ~closed
    <3>1. closed' /\ closing' = [closing EXCEPT ![c] = "drain"]
      BY <1>1, <2>3 DEF BeginClose, MovesOn
    <3>2. \A d \in Closers : closing'[d] = IF d = c THEN "drain" ELSE closing[d]
      BY <3>1, <1>move DEF CloserLabels
    <3>3. \A d \in Closers : closing[d] = "outside"
      BY <2>3, <1>inv DEF CloserInv
    <3>4. \A d \in Closers : ~Emptied(d)'
      BY <3>2, <3>3 DEF Emptied
    <3>5. Phase = "lending" /\ Phase' = "recalling"
      BY <2>3, <3>1, <3>4 DEF Phase
    <3>6. Lending!Recall
      BY <2>1, <3>5 DEF Lending!Recall
    <3>7. QED
      BY <3>6 DEF LendingStep, Lending!Next
  <2>4. QED
    BY <2>2, <2>3
<1>2. CASE Drain(c)
  <2>1. PICK to \in {"collect", "drain"} : closing' = [closing EXCEPT ![c] = to]
    BY <1>2 DEF Drain, MovesOn
  <2>2. \A d \in Closers : closing'[d] = IF d = c THEN to ELSE closing[d]
    BY <2>1, <1>move DEF CloserLabels
  <2>3. /\ open' = open /\ held' = held /\ closed' = closed /\ closing[c] = "drain"
        /\ \A d \in Closers \ {c} : drained'[d] = drained[d]
    BY <1>2, <1>inv DEF Drain, MovesOn, callerVars, TypeOK
  <2>4. \A d \in Closers : Emptied(d)' <=> Emptied(d)
    BY <2>2, <2>3 DEF Emptied
  <2>5. Phase' = Phase
    BY <2>3, <2>4 DEF Phase
  <2>6. QED
    BY <2>3, <2>5 DEF LendingStep
<1>3. CASE Collect(c)
  <2>1. /\ closing[c] = "collect" /\ closing' = [closing EXCEPT ![c] = "close"]
        /\ open' = open /\ held' = held /\ closed' = closed /\ drained' = drained
    BY <1>3 DEF Collect, MovesOn, callerVars
  <2>2. closing'[c] = "close"
    BY <2>1, <1>move DEF CloserLabels
  <2>3. closed /\ drained[c] = Size
    BY <2>1, <1>inv DEF CloserInv
  <2>4. \A d \in Closers : ~Emptied(d)
    BY <2>1, <1>inv, PoolAssumption DEF CloserInv, Emptied
  <2>5. Phase = "recalling" /\ Phase' = "closing"
    BY <2>1, <2>2, <2>3, <2>4 DEF Phase, Emptied
  <2>6. SlotHolders = {}
    BY <2>3, DrainedExcludesHolders, <1>inv
  <2>7. \A t \in Callers : held[t] = NoEntry
    BY <2>6, <1>inv DEF SlotHolders, HoldsSlot, HeldInv
  <2>8. Lending!BeginClosing
    BY <2>1, <2>5, <2>7 DEF Lending!BeginClosing
  <2>9. QED
    BY <2>8 DEF LendingStep, Lending!Next
<1>4. CASE CloseEntry(c)
  <2>1. PICK e \in toClose[c] : open' = open \ {e}
    BY <1>4 DEF CloseEntry
  <2>2. /\ closing[c] = "close" /\ closing' = closing /\ drained' = drained
        /\ closed' = closed /\ held' = held
    BY <1>4 DEF CloseEntry, callerVars
  <2>3. Phase' = Phase
    BY <2>2 DEF Phase, Emptied
  <2>4. Phase = "closing"
    BY <2>2, <1>inv DEF CloserInv, Phase, Emptied
  <2>5. e \in open /\ e \in Entries
    BY <2>1, <1>inv DEF EntriesInv, TypeOK
  <2>6. Lending!CloseOne(e)
    BY <2>1, <2>2, <2>3, <2>4, <2>5 DEF Lending!CloseOne
  <2>7. QED
    BY <2>5, <2>6 DEF LendingStep, Lending!Next
<1>5. CASE EndClose(c)
  <2>1. /\ closing[c] = "close" /\ closing' = [closing EXCEPT ![c] = "returned"]
        /\ open' = open /\ held' = held /\ closed' = closed /\ drained' = drained
    BY <1>5 DEF EndClose, MovesOn, callerVars
  <2>2. \A d \in Closers : closing'[d] = IF d = c THEN "returned" ELSE closing[d]
    BY <2>1, <1>move DEF CloserLabels
  <2>3. drained[c] = Size
    BY <2>1, <1>inv DEF CloserInv
  <2>4. \A d \in Closers : Emptied(d)' <=> Emptied(d)
    BY <2>1, <2>2, <2>3 DEF Emptied
  <2>5. Phase' = Phase
    BY <2>1, <2>4 DEF Phase
  <2>6. QED
    BY <2>1, <2>5 DEF LendingStep
<1>6. QED
  BY <1>1, <1>2, <1>3, <1>4, <1>5 DEF CloserStep

\* The pool implements ConnectionLending, for any number of threads, of entries
\* and of permits, whatever builds and closes fail.
THEOREM PoolImplementsLending == Spec => ImplementsLending
<1>1. Init => Lending!Init
  BY DEF Init, Lending!Init, Phase
<1>2. PoolInv /\ [Next]_vars => [Lending!Next]_(Lending!vars)
  <2> SUFFICES ASSUME PoolInv, [Next]_vars PROVE LendingStep
    BY DEF LendingStep, Lending!vars
  <2>1. CASE UNCHANGED vars
    BY <2>1 DEF vars, closerVars, callerVars, LendingStep, Phase, Emptied
  <2>2. QED
    BY <2>1, StepCases, CallerImplementsLending, CloserImplementsLending
<1>3. QED
  BY <1>1, <1>2, PoolInvariant, PTL DEF Spec, ImplementsLending, Lending!Spec

=============================================================================
