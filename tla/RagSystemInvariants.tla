------------------------- MODULE RagSystemInvariants -------------------------
(***************************************************************************)
(* The inductive invariant behind the safety properties of RagSystem, on   *)
(* top of the one of its ingest: what a chat has read is never older than  *)
(* it was promised, the keys an invalidation has read are those it must     *)
(* drop, and the turns of a chat stand where its progress says.            *)
(***************************************************************************)
EXTENDS RagSystem, IngestionInvariants

\* What was reported ingested is committed, or a newer version is; and no
\* chunk row of an older version is left.
ReportedInv ==
  /\ \A d \in Docs : reported[d] = 0 \/ \E p \in committed : p.doc = d /\ p.version >= reported[d]
  /\ \A e \in chunks : e.version >= reported[e.doc]

\* What a chat holds is from the versions it was promised at its beginning,
\* and is cacheable only when it read no history.
Fresh(held) ==
  /\ held.cacheable => held.bare
  /\ \A d \in Docs : held.floor[d] <= reported[d]
  /\ \A e \in held.cites : e.version >= held.floor[e.doc]

ChatInv ==
  \A c \in Chats :
    /\ Fresh(local[c])
    /\ stage[c] = "write" => local[c].cacheable

\* An invalidation between its round trips has read every key that still has
\* to be dropped.
EntriesInv ==
  /\ members # {} => pc = "invalidate"
  /\ \A f \in Fingerprints \ raced : entries[f] # NoAnswer =>
       \A e \in entries[f].sources :
         /\ e.version >= evicted[e.doc]
         /\ f \in tags[e.doc]
         /\ (members # {} /\ job.doc = e.doc) => f \in members

Turn == [chat: Chats, role: {"user", "assistant"}]

\* Of the turns of session s, with the chats at these stages: a turn is in the
\* session of its request, not before the request is about to append its
\* answer, and a question whose answer was appended is followed by it.
Settled(list, at, s) ==
  \A i \in DOMAIN list :
    LET c == list[i].chat
    IN  /\ request[c].session = s
        /\ at[c] \in {"assistant", "write", "answered", "failed"}
        /\ (list[i] = Question(c) /\ at[c] \in {"write", "answered"}) =>
             \E j \in DOMAIN list : j > i /\ list[j] = Reply(c)

TurnsInv ==
  /\ turns \in [SessionIds -> Seq(Turn)]
  /\ \A s \in SessionIds : Settled(turns[s], stage, s)

SystemInv ==
  /\ IngestionInv
  /\ SystemTypeOK
  /\ ReportedInv
  /\ ChatInv
  /\ EntriesInv
  /\ CacheHoldsNoConversation
  /\ TurnsInv

\* The vector search returns the points of every chunk: KEach cuts none of them
\* off.  The service does not see to it; a larger collection is a choice of the
\* nearest points.
NothingCutOff == Cardinality({Id(e) : e \in points}) <= KEach

\* The hits of a request that is about to hydrate them hold every chunk of the
\* documents that were published when it searched.
FoundInv ==
  /\ IsFiniteSet(points)
  /\ \A c \in Chats :
       stage[c] = "hydrate" =>
         \A p \in local[c].promised :
           \A e \in ChunksOf(p.doc, p.version, p.text) : Id(e) \in local[c].hits

=============================================================================
