----------------------------- MODULE ChunkerProofs -----------------------------
(***************************************************************************)
(* Theorems about Chunker for texts of any length, sentences of any size,   *)
(* every budget and every overlap.                                         *)
(***************************************************************************)
EXTENDS Chunker, TLAPS

-----------------------------------------------------------------------------
(* Estimates *)

\* The estimate of a number of words is the least one that covers 1.4 tokens
\* a word.
LEMMA EstimateIsCeiling ==
  ASSUME NEW words \in Nat
  PROVE  /\ EstimateTokens(words) \in Nat
         /\ 10 * EstimateTokens(words) >= 14 * words
         /\ \A tokens \in Nat : 10 * tokens >= 14 * words => EstimateTokens(words) <= tokens
  BY DEF EstimateTokens

-----------------------------------------------------------------------------
(* The inductive invariant *)

\* Nothing is packed before the text is split.
SplitInv == ~packing => window = WindowAt(1) /\ drafts = <<>>

\* The estimates of a window cover its words, and exceed the budget only if
\* the window is one sentence.
WindowInv ==
  /\ 10 * window.tokens >= 14 * window.words
  /\ window.tokens <= MaxTokens \/ window.end <= window.start + 1

\* A chunk ends within the text and keeps to the budget.
DraftInv ==
  \A i \in DOMAIN drafts :
    /\ drafts[i].start < drafts[i].end
    /\ drafts[i].end <= Total + 1
    /\ drafts[i].estimate <= MaxTokens \/ drafts[i].end = drafts[i].start + 1

\* The chunks follow one another with no gap, and the window follows them.
OrderInv ==
  /\ drafts # <<>> => drafts[1].start = 1
  /\ \A i \in 2 .. Len(drafts) :
       drafts[i - 1].start < drafts[i].start /\ drafts[i].start <= drafts[i - 1].end
  /\ drafts = <<>> => window.start = 1
  /\ drafts # <<>> =>
       /\ drafts[Len(drafts)].start < window.start
       /\ window.start <= drafts[Len(drafts)].end

ChunkerInv ==
  /\ ChunkerTypeOK
  /\ SplitInv
  /\ WindowInv
  /\ DraftInv
  /\ OrderInv

\* An empty window is a window.
LEMMA WindowAtType ==
  ASSUME NEW i \in Nat \ {0}
  PROVE  /\ WindowAt(i) \in Window
         /\ WindowAt(i).start = i /\ WindowAt(i).end = i
         /\ WindowAt(i).tokens = 0 /\ WindowAt(i).words = 0
  BY DEF WindowAt, Window

\* Nothing of a text is split yet.
NoText ==
  /\ packing = FALSE /\ open \in Nat /\ sentences = <<>>
  /\ window = WindowAt(1) /\ drafts = <<>>

\* The invariant holds before the first sentence.
LEMMA NoTextInv == NoText => ChunkerInv
<1> SUFFICES ASSUME NoText PROVE ChunkerInv
  OBVIOUS
<1>1. /\ packing = FALSE /\ open \in Nat /\ sentences = <<>> /\ drafts = <<>>
      /\ window = WindowAt(1) /\ window \in Window
      /\ window.start = 1 /\ window.end = 1 /\ window.tokens = 0 /\ window.words = 0
  BY WindowAtType DEF NoText
<1>2. /\ sentences \in Seq(Nat \ {0}) /\ drafts \in Seq(Draft)
      /\ Total = 0 /\ Len(drafts) = 0 /\ DOMAIN drafts = {}
  BY <1>1 DEF Total
<1>3. ChunkerTypeOK /\ SplitInv
  <2>1. packing \in BOOLEAN /\ open \in Nat
    BY <1>1
  <2>2. window.start <= window.end /\ window.end <= Total + 1
    BY <1>1, <1>2
  <2>3. SplitInv
    BY <1>1 DEF SplitInv
  <2>4. QED
    BY <1>1, <1>2, <2>1, <2>2, <2>3, Zenon DEF ChunkerTypeOK
<1>4. WindowInv /\ DraftInv /\ OrderInv
  BY <1>1, <1>2, ChunkerAssumption DEF WindowInv, DraftInv, OrderInv
<1>5. QED
  BY <1>3, <1>4 DEF ChunkerInv

LEMMA InitChunkerInv == ChunkerInit => ChunkerInv
  BY NoTextInv DEF ChunkerInit, NoText

\* Splitting adds sentences of at least one word.
LEMMA SplitStep ==
  ASSUME ChunkerInv, NEW words \in SegmentSizes, NEW abbreviation \in BOOLEAN,
         NEW lastOfLine \in BOOLEAN, Split(words, abbreviation, lastOfLine)
  PROVE  ChunkerInv'
<1>1. /\ ~packing /\ ~packing' /\ window' = window /\ drafts' = drafts /\ packing' = packing
      /\ words \in Nat \ {0} /\ open \in Nat /\ sentences \in Seq(Nat \ {0})
      /\ window = WindowAt(1) /\ drafts = <<>> /\ window \in Window
  BY ChunkerAssumption DEF Split, ChunkerInv, ChunkerTypeOK, SplitInv
<1>2. /\ open' \in Nat /\ sentences' \in Seq(Nat \ {0}) /\ Len(sentences') \in Nat
  <2>1. open + words \in Nat \ {0}
    BY <1>1
  <2>2. CASE open' = open + words /\ UNCHANGED sentences
    BY <1>1, <2>1, <2>2
  <2>3. CASE sentences' = Append(sentences, open + words) /\ open' = 0
    BY <1>1, <2>1, <2>3
  <2>4. QED
    BY <2>2, <2>3 DEF Split
<1>3. window.start = 1 /\ window.end = 1 /\ window.tokens = 0 /\ window.words = 0
  BY <1>1, WindowAtType
<1>4. QED
  BY <1>1, <1>2, <1>3, ChunkerAssumption
     DEF ChunkerInv, ChunkerTypeOK, SplitInv, WindowInv, DraftInv, OrderInv, Total

\* A sentence goes into the window if the sum of the estimates allows it, or
\* it is the first.
LEMMA AddStep ==
  ASSUME ChunkerInv, AddSentence
  PROVE  ChunkerInv'
<1> DEFINE words == sentences[window.end]
           estimate == Estimate(window.end)
<1>1. /\ packing /\ packing' = packing /\ open' = open
      /\ sentences' = sentences /\ drafts' = drafts
      /\ sentences \in Seq(Nat \ {0}) /\ Total \in Nat
      /\ window \in Window /\ window.start <= window.end /\ window.end <= Total
  BY DEF AddSentence, Fits, ChunkerInv, ChunkerTypeOK, Total
<1>2. window.end \in 1 .. Len(sentences)
  BY <1>1 DEF Window, Total
<1>3. words \in Nat
  BY <1>1, <1>2
<1>4. estimate \in Nat /\ 10 * estimate >= 14 * words
  BY <1>3, EstimateIsCeiling DEF Estimate
<1>5. window' = [window EXCEPT !.end = @ + 1, !.tokens = @ + estimate, !.words = @ + words]
  BY DEF AddSentence
<1>6. window.end = window.start \/ window.tokens + estimate <= MaxTokens
  BY DEF AddSentence, Fits
<1> HIDE DEF words, estimate
<1>t. /\ window.start \in Nat \ {0} /\ window.end \in Nat \ {0}
      /\ window.tokens \in Nat /\ window.words \in Nat
  BY <1>1 DEF Window
<1>e. window' = [start |-> window.start, end |-> window.end + 1,
                 tokens |-> window.tokens + estimate, words |-> window.words + words]
  BY <1>1, <1>5 DEF Window
<1>7. /\ window' \in Window
      /\ window'.start = window.start /\ window'.end = window.end + 1
      /\ window'.tokens = window.tokens + estimate
      /\ window'.words = window.words + words
  BY <1>3, <1>4, <1>t, <1>e DEF Window
<1>8. ChunkerTypeOK'
  BY <1>1, <1>7 DEF ChunkerInv, ChunkerTypeOK, Total, Window
<1>9. WindowInv'
  <2>1. 10 * window.tokens >= 14 * window.words
    BY DEF ChunkerInv, WindowInv
  <2>2. 10 * (window.tokens + estimate) >= 14 * (window.words + words)
    BY <2>1, <1>3, <1>4, <1>t
  <2>3. window.tokens + estimate <= MaxTokens \/ window.end + 1 <= window.start + 1
    BY <1>6, <1>t
  <2>4. QED
    BY <2>2, <2>3, <1>7 DEF WindowInv
<1>10. SplitInv' /\ DraftInv' /\ OrderInv'
  BY <1>1, <1>7 DEF ChunkerInv, SplitInv, DraftInv, OrderInv, Total
<1>11. QED
  BY <1>8, <1>9, <1>10 DEF ChunkerInv

\* A chunk is cut and the next window starts after its start and not after its
\* end.
LEMMA CutStep ==
  ASSUME ChunkerInv, CutWindow
  PROVE  ChunkerInv'
<1> DEFINE draft == [start |-> window.start, end |-> window.end,
                     estimate |-> EstimateTokens(window.words)]
           from == IF window.end > Total THEN Total + 1 ELSE NextStart
           n == Len(drafts)
<1>1. /\ packing /\ packing' = packing /\ open' = open /\ sentences' = sentences
      /\ sentences \in Seq(Nat \ {0}) /\ Total \in Nat
      /\ window \in Window /\ drafts \in Seq(Draft) /\ n \in Nat
      /\ window.start < window.end /\ window.end <= Total + 1
  BY DEF CutWindow, ChunkerInv, ChunkerTypeOK, Total
<1>2. drafts' = Append(drafts, draft) /\ window' = WindowAt(from)
  BY DEF CutWindow
<1>3. window.start \in Nat \ {0} /\ window.end \in Nat /\ window.tokens \in Nat /\ window.words \in Nat
  BY <1>1 DEF Window
<1>4. /\ EstimateTokens(window.words) \in Nat
      /\ EstimateTokens(window.words) <= window.tokens
  BY <1>3, EstimateIsCeiling DEF ChunkerInv, WindowInv
<1>5. /\ draft \in Draft /\ draft.start = window.start /\ draft.end = window.end
      /\ draft.estimate <= MaxTokens \/ draft.end = draft.start + 1
  BY <1>1, <1>3, <1>4, ChunkerAssumption DEF Draft, ChunkerInv, WindowInv
<1>6. from \in Nat \ {0} /\ window.start < from /\ from <= window.end /\ from <= Total + 1
  BY <1>1, <1>3, ChunkerAssumption DEF NextStart
<1> HIDE DEF draft, from
<1>7. /\ window' \in Window /\ window'.start = from /\ window'.end = from
      /\ window'.tokens = 0 /\ window'.words = 0
  BY <1>2, <1>6, WindowAtType
<1>8. /\ drafts' \in Seq(Draft) /\ Len(drafts') = n + 1 /\ drafts' # <<>>
      /\ drafts'[n + 1] = draft
      /\ \A i \in 1 .. n : drafts'[i] = drafts[i]
      /\ DOMAIN drafts' = 1 .. n + 1 /\ DOMAIN drafts = 1 .. n
      /\ (drafts = <<>>) <=> (n = 0)
  <2>1. Len(drafts) \in Nat /\ draft \in Draft
    BY <1>1, <1>5
  <2>2. drafts' \in Seq(Draft) /\ Len(drafts') = Len(drafts) + 1
    BY <1>1, <1>2, <2>1
  <2>3. /\ drafts'[Len(drafts) + 1] = draft
        /\ \A i \in 1 .. Len(drafts) : drafts'[i] = drafts[i]
    BY <1>1, <1>2, <2>1
  <2>4. DOMAIN drafts' = 1 .. Len(drafts) + 1 /\ DOMAIN drafts = 1 .. Len(drafts) /\ drafts' # <<>>
    BY <1>1, <2>1, <2>2
  <2>5. (drafts = <<>>) <=> (Len(drafts) = 0)
    BY <1>1
  <2>6. QED
    BY <2>2, <2>3, <2>4, <2>5
<1>9. ChunkerTypeOK'
  BY <1>1, <1>6, <1>7, <1>8 DEF ChunkerInv, ChunkerTypeOK, Total
<1>10. SplitInv' /\ WindowInv'
  BY <1>1, <1>7, ChunkerAssumption DEF SplitInv, WindowInv
<1>11. DraftInv'
  <2> SUFFICES ASSUME NEW i \in 1 .. n + 1
               PROVE  /\ drafts'[i].start < drafts'[i].end
                      /\ drafts'[i].end <= Total + 1
                      /\ drafts'[i].estimate <= MaxTokens \/ drafts'[i].end = drafts'[i].start + 1
    BY <1>1, <1>8 DEF DraftInv, Total
  <2>1. CASE i = n + 1
    BY <2>1, <1>1, <1>5, <1>8
  <2>2. CASE i \in 1 .. n
    BY <2>2, <1>8 DEF ChunkerInv, DraftInv
  <2>3. QED
    BY <2>1, <2>2, <1>1
<1>12. OrderInv'
  <2> HIDE DEF n
  <2>1. drafts'[1].start = 1
    BY <1>1, <1>5, <1>8 DEF ChunkerInv, OrderInv
  <2>2. ASSUME NEW i \in 2 .. n + 1
        PROVE  drafts'[i - 1].start < drafts'[i].start /\ drafts'[i].start <= drafts'[i - 1].end
    <3>1. CASE i = n + 1
      <4>1. n \in 1 .. n /\ i - 1 = n /\ drafts # <<>> /\ drafts'[n] = drafts[n]
        BY <3>1, <2>2, <1>1, <1>8
      <4>2. drafts[n].start < window.start /\ window.start <= drafts[n].end
        BY <4>1 DEF ChunkerInv, OrderInv, n
      <4>3. QED
        BY <3>1, <4>1, <4>2, <1>5, <1>8
    <3>2. CASE i \in 2 .. n
      <4>1. drafts'[i] = drafts[i] /\ drafts'[i - 1] = drafts[i - 1]
        BY <3>2, <1>1, <1>8
      <4>2. QED
        BY <3>2, <4>1 DEF ChunkerInv, OrderInv, n
    <3>3. QED
      BY <3>1, <3>2, <2>2, <1>1
  <2>3. drafts'[n + 1].start < window'.start /\ window'.start <= drafts'[n + 1].end
    BY <1>5, <1>6, <1>7, <1>8
  <2>4. QED
    BY <2>1, <2>2, <2>3, <1>8 DEF OrderInv
<1>13. QED
  BY <1>9, <1>10, <1>11, <1>12 DEF ChunkerInv

\* Every step keeps the invariant.
LEMMA StepChunkerInv == ChunkerInv /\ [ChunkerNext]_chunkerVars => ChunkerInv'
<1> SUFFICES ASSUME ChunkerInv, [ChunkerNext]_chunkerVars PROVE ChunkerInv'
  OBVIOUS
<1>1. CASE SplitEnds
  BY <1>1 DEF SplitEnds, ChunkerInv, ChunkerTypeOK, SplitInv, WindowInv, DraftInv, OrderInv, Total
<1>2. CASE UNCHANGED chunkerVars
  BY <1>2 DEF chunkerVars, ChunkerInv, ChunkerTypeOK, SplitInv, WindowInv, DraftInv, OrderInv, Total
<1>3. QED
  BY <1>1, <1>2, SplitStep, AddStep, CutStep DEF ChunkerNext

\* The invariant tells that the chunks cover the text.
LEMMA CoverInv == ChunkerInv => ChunksCoverText
<1> SUFFICES ASSUME ChunkerInv PROVE ChunksCoverText
  OBVIOUS
<1>1. /\ drafts \in Seq(Draft) /\ Total \in Nat
      /\ window.start \in Nat /\ drafts # <<>> => Len(drafts) \in DOMAIN drafts
  BY DEF ChunkerInv, ChunkerTypeOK, Total, Window
<1>2. ASSUME Chunked, Total > 0 PROVE drafts[Len(drafts)].end = Total + 1
  <2>1. drafts # <<>>
    BY <1>1, <1>2 DEF Chunked, ChunkerInv, OrderInv
  <2>2. drafts[Len(drafts)] \in Draft
    BY <1>1, <2>1
  <2>3. /\ drafts[Len(drafts)].end <= Total + 1
        /\ window.start <= drafts[Len(drafts)].end
    BY <1>1, <2>1 DEF ChunkerInv, DraftInv, OrderInv
  <2>4. QED
    BY <1>1, <1>2, <2>2, <2>3 DEF Chunked, Draft
<1>3. QED
  BY <1>2 DEF ChunkerInv, DraftInv, OrderInv, ChunksCoverText

\* And that they keep to the budget.
LEMMA BudgetInv == ChunkerInv => ChunksKeepBudget
  BY DEF ChunkerInv, DraftInv, ChunksKeepBudget

-----------------------------------------------------------------------------
(* The theorems *)

\* The inductive invariant holds however a text is split and packed.
THEOREM ChunkerInvariant == ChunkerSpec => []ChunkerInv
  BY InitChunkerInv, StepChunkerInv, PTL DEF ChunkerSpec

\* Every variable keeps its type, and a window stays within the text.
THEOREM ChunkerTypeCorrect == ChunkerSpec => []ChunkerTypeOK
<1>1. ChunkerInv => ChunkerTypeOK
  BY DEF ChunkerInv
<1>2. QED
  BY <1>1, ChunkerInvariant, PTL

\* No sentence is dropped: the chunks cover the text without a gap, each
\* starting after the one before, whatever the budget and the overlap.
THEOREM ChunksCoverEveryText == ChunkerSpec => []ChunksCoverText
  BY CoverInv, ChunkerInvariant, PTL

\* The estimate of a chunk keeps to the budget unless the chunk is a single
\* sentence, for every budget.
THEOREM ChunksKeepEveryBudget == ChunkerSpec => []ChunksKeepBudget
  BY BudgetInv, ChunkerInvariant, PTL

=============================================================================
