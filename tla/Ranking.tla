-------------------------------- MODULE Ranking --------------------------------
(***************************************************************************)
(* The ranking of one query: the fusion of two result lists                 *)
(* (src/src/app/retrieval/hybrid.py), the reranking by scores a model       *)
(* returns (src/src/app/retrieval/reranker.py) and the metrics of the       *)
(* evaluation (src/src/app/eval/retrieval_eval.py).                         *)
(*                                                                         *)
(* A definition marked Faulty is the one after it with one slip, to show    *)
(* that the properties tell the difference; nothing else uses it.          *)
(***************************************************************************)
EXTENDS Integers, Sequences, FiniteSetsExt, SequencesExt, Functions

CONSTANTS
  Chunks,        \* the ids of the chunks
  DocOf,         \* the document of each
  KEach,         \* k_each
  TopN,          \* top_n
  Replies        \* what the model may reply, as sequences of Characters

\* A character is a decimal digit, another character for which str.isdigit holds
\* (a superscript two), or none of these.
OtherDigit == 10
NoDigit == 11
Characters == 0 .. NoDigit

ASSUME RankingAssumption ==
  /\ IsFiniteSet(Chunks) /\ DocOf \in [Chunks -> Range(DocOf)]
  /\ {KEach, TopN} \subseteq Nat \ {0}
  /\ Replies \subseteq Seq(Characters)

VARIABLES
  step,       \* what the query has come to
  lists,      \* the results of the two indexes, until they are fused
  candidates, \* the retrieved chunks, best first
  scores,     \* the scores given so far, by candidate
  ranked      \* the reranked chunks

rankingVars == <<step, lists, candidates, scores, ranked>>

NoLists == [bm25 |-> <<>>, vector |-> <<>>]
Unscored == -1
ValueError == -2

RankingInit ==
  /\ step = "idle"
  /\ lists = NoLists
  /\ candidates = <<>>
  /\ scores = <<>>
  /\ ranked = <<>>

-----------------------------------------------------------------------------
(* HybridRetriever.retrieve *)

\* Results of an index: distinct ids, at most KEach.
ResultLists ==
  {s \in UNION {[1 .. n -> Chunks] : n \in 0 .. KEach} : IsInjective(s)}

Search ==
  /\ step \in {"idle", "ranked", "failed"}
  /\ lists' \in [bm25: ResultLists, vector: ResultLists]
  /\ step' = "found"
  /\ candidates' = <<>> /\ scores' = <<>> /\ ranked' = <<>>

RankIn(id, list) == CHOOSE i \in DOMAIN list : list[i] = id

RRF_K == 60

\* 1 / (RRF_K + rank), and nothing for what an index has not found.
Reciprocal(id, list) ==
  IF id \in Range(list) THEN [num |-> 1, den |-> RRF_K + RankIn(id, list)]
  ELSE [num |-> 0, den |-> 1]

Plus(x, y) == [num |-> x.num * y.den + y.num * x.den, den |-> x.den * y.den]
Exceeds(x, y) == x.num * y.den > y.num * x.den

\* Faulty: the second index overwrites what the first one gave.
FusedScoreLast(id) ==
  IF id \in Range(lists.vector) THEN Reciprocal(id, lists.vector)
  ELSE Reciprocal(id, lists.bm25)

FusedScore(id) == Plus(Reciprocal(id, lists.bm25), Reciprocal(id, lists.vector))

\* The order of insertion: the hits of BM25, then those of the vectors alone.
Found == Range(lists.bm25) \cup Range(lists.vector)
Place(id) ==
  IF id \in Range(lists.bm25) THEN RankIn(id, lists.bm25)
  ELSE Len(lists.bm25) + RankIn(id, lists.vector)

\* Best first, by a stable sort: ties keep the order of insertion.
Precedes(a, b) ==
  \/ Exceeds(FusedScore(a), FusedScore(b))
  \/ ~Exceeds(FusedScore(b), FusedScore(a)) /\ Place(a) < Place(b)

\* The members of a set, each before the ones it precedes.
Sorted(set, Before(_, _)) ==
  CHOOSE s \in [1 .. Cardinality(set) -> set] :
    \A i, j \in DOMAIN s : i < j => Before(s[i], s[j])

Top(list, k) == SubSeq(list, 1, Min({k, Len(list)}))

\* The ids whose rows are in the chunk store are hydrated, in their order.
Fuse ==
  /\ step = "found"
  /\ \E stored \in SUBSET Found : candidates' = Top(Sorted(stored, Precedes), TopN)
  /\ step' = "fused"
  /\ UNCHANGED <<lists, scores, ranked>>

-----------------------------------------------------------------------------
(* Reranker.rerank_scored *)

IsDigit(character) == character <= OtherDigit

\* parse_score: the first run of digits, at most two of them, in 0 .. 10.  int()
\* raises on a digit that is not decimal.
ParseScore(raw) ==
  LET first == Min({i \in DOMAIN raw : IsDigit(raw[i])})
      last == Max({i \in first .. Len(raw) : \A j \in first .. i : IsDigit(raw[j])})
      digits == SubSeq(raw, first, last)
      value == IF Len(digits) = 1 THEN digits[1] ELSE 10 * digits[1] + digits[2]
  IN IF \A i \in DOMAIN raw : ~IsDigit(raw[i]) THEN Unscored
     ELSE IF Len(digits) > 2 THEN Unscored
     ELSE IF OtherDigit \in Range(digits) THEN ValueError
     ELSE IF value \in 0 .. 10 THEN value ELSE Unscored

BeginRerank ==
  /\ step = "fused"
  /\ lists' = NoLists
  /\ step' = "scoring"
  /\ UNCHANGED <<candidates, scores, ranked>>

\* A worker scores one of the candidates, whichever comes next: the request
\* fails (RerankError), or there is a reply.
ScoreOne ==
  /\ step = "scoring"
  /\ \E i \in DOMAIN candidates \ DOMAIN scores :
       \E score \in {Unscored} \cup {ParseScore(raw) : raw \in Replies} :
         scores' = [j \in DOMAIN scores \cup {i} |-> IF j = i THEN score ELSE scores[j]]
  /\ UNCHANGED <<step, lists, candidates, ranked>>

Scored == {i \in DOMAIN scores : scores[i] # Unscored}

\* A higher score, or the same and an earlier place.
HasBetterScore(i, j) == scores[i] > scores[j] \/ (scores[i] = scores[j] /\ i < j)

\* Faulty: what has no score is sorted as if it had the lowest one.
MergeAsZero ==
  LET order == Sorted(DOMAIN candidates, HasBetterScore)
  IN [i \in DOMAIN candidates |-> candidates[order[i]]]

\* _merge: the unscored stay where they are, the scored fill the other slots by
\* descending score, in a stable sort.
Merge ==
  LET byScore == Sorted(Scored, HasBetterScore)
      slots == Sorted(Scored, <)
  IN [i \in DOMAIN candidates |->
       IF i \in Scored THEN candidates[byScore[RankIn(i, slots)]] ELSE candidates[i]]

\* Every score is in: the list is merged, or an error of one is raised.
EndRerank ==
  /\ step = "scoring"
  /\ DOMAIN scores = DOMAIN candidates
  /\ IF ValueError \in Range(scores)
     THEN step' = "failed" /\ UNCHANGED ranked
     ELSE step' = "ranked" /\ ranked' = Merge
  /\ UNCHANGED <<lists, candidates, scores>>

RankingNext == Search \/ Fuse \/ BeginRerank \/ ScoreOne \/ EndRerank

-----------------------------------------------------------------------------
(* The metrics of retrieval_eval, as the integers they are quotients of *)

\* precision_at_k: the relevant chunks among the first k, over k.
RelevantChunks(list, relevant, k) ==
  Cardinality({i \in DOMAIN Top(list, k) : DocOf[list[i]] \in relevant})

\* Faulty: a document counts once for each of its chunks.
RelevantDocsTwice(list, relevant, k) == RelevantChunks(list, relevant, k)

\* recall_at_k: the relevant documents among the first k, over all of them.
RelevantDocs(list, relevant, k) ==
  Cardinality({DocOf[id] : id \in Range(Top(list, k))} \cap relevant)

\* reciprocal_rank: one over the rank of the first relevant chunk, 0 if none.
FirstRelevant(list, relevant) ==
  LET hits == {i \in DOMAIN list : DocOf[list[i]] \in relevant}
  IN IF hits = {} THEN 0 ELSE Min(hits)

\* run_retrieval_eval: a hit at k.
Hit(list, relevant, k) == {DocOf[id] : id \in Range(Top(list, k))} \cap relevant # {}

-----------------------------------------------------------------------------
(* Properties *)

\* Type invariant of a query: candidates are distinct and no more than asked
\* for, and what parse_score accepts is in range.
RankingTypeOK ==
  /\ step \in {"idle", "found", "fused", "scoring", "ranked", "failed"}
  /\ lists \in [bm25: ResultLists, vector: ResultLists]
  /\ candidates \in Seq(Chunks) /\ IsInjective(candidates) /\ Len(candidates) <= TopN
  /\ DOMAIN scores \subseteq DOMAIN candidates
  /\ scores \in [DOMAIN scores -> {ValueError, Unscored} \cup 0 .. 10]
  /\ ranked \in Seq(Chunks)

\* The fused order respects both indexes: an id that each of them ranks higher
\* than another comes before it, and one that both found comes before any that
\* one of them did not, which is what RRF_K = 60 does for short lists (retrieve).
\* Of two whose ranks are exchanged between the indexes, a tie, the one that BM25
\* ranks higher comes first, as its hits enter the dict first.
Dominates(a, b, list) ==
  a \in Range(list) /\ (b \in Range(list) => RankIn(a, list) < RankIn(b, list))
Consensus == Range(lists.bm25) \cap Range(lists.vector)
Mirrored(a, b) ==
  /\ Reciprocal(a, lists.bm25) = Reciprocal(b, lists.vector)
  /\ Reciprocal(a, lists.vector) = Reciprocal(b, lists.bm25)
FusionRespectsIndexes ==
  step = "fused" =>
    \A i, j \in DOMAIN candidates :
      \/ /\ Dominates(candidates[i], candidates[j], lists.bm25)
         /\ Dominates(candidates[i], candidates[j], lists.vector)
      \/ candidates[i] \in Consensus /\ candidates[j] \notin Consensus
      \/ /\ Dominates(candidates[i], candidates[j], lists.bm25)
         /\ Mirrored(candidates[i], candidates[j])
      => i < j

\* Reranking loses nothing, keeps what has no score in its place, and orders the
\* rest by score with ties in fused order, in whatever order the scores came in
\* (_merge: never dropped or reordered arbitrarily).
RerankKeepsPlaces ==
  step = "ranked" =>
    LET from == [i \in DOMAIN ranked |-> RankIn(ranked[i], candidates)]
    IN /\ Range(ranked) = Range(candidates) /\ Len(ranked) = Len(candidates)
       /\ \A i \in DOMAIN ranked : i \notin Scored => from[i] = i
       /\ \A i, j \in Scored :
            i < j => \/ scores[from[i]] > scores[from[j]]
                     \/ (scores[from[i]] = scores[from[j]] /\ from[i] < from[j])

\* The metrics agree with one another on every list and every labelling: a hit
\* at k, a relevant chunk, a relevant document and a first rank of at most k are
\* the same event, no quotient exceeds one, and reranking moves neither
\* precision nor recall of the whole list (RerankingRetriever).
MetricsAgree ==
  step = "ranked" =>
    \A relevant \in SUBSET Range(DocOf) \ {{}}, k \in 1 .. TopN, list \in {candidates, ranked} :
      LET first == FirstRelevant(list, relevant)
      IN /\ Hit(list, relevant, k) <=> first \in 1 .. k
         /\ Hit(list, relevant, k) <=> RelevantChunks(list, relevant, k) > 0
         /\ Hit(list, relevant, k) <=> RelevantDocs(list, relevant, k) > 0
         /\ RelevantChunks(list, relevant, k) <= k
         /\ RelevantDocs(list, relevant, k) <= Cardinality(relevant)
         /\ k >= Len(list) =>
              RelevantChunks(list, relevant, k) = RelevantChunks(ranked, relevant, k)
         /\ k >= Len(list) =>
              RelevantDocs(list, relevant, k) = RelevantDocs(ranked, relevant, k)

\* What the docstrings of parse_score and _score_one say: a reply that cannot be
\* parsed leaves the candidate its place, and any error is no score.
RerankFailsOpen == step # "failed"
===============================================================================
