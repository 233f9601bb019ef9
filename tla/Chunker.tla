-------------------------------- MODULE Chunker --------------------------------
(***************************************************************************)
(* The chunker (src/src/app/ingestion/chunker.py): a text becomes sentences *)
(* and the sentences are packed into overlapping windows of at most         *)
(* MaxTokens estimated tokens.  A sentence is its number of words, a chunk  *)
(* the interval of its sentences.                                          *)
(*                                                                         *)
(* A definition marked Faulty is the one after it with one slip, to show    *)
(* that the properties tell the difference; nothing else uses it.          *)
(***************************************************************************)
EXTENDS Integers, Sequences

CONSTANTS
  MaxTokens,   \* max_tokens
  Overlap,     \* overlap_sentences
  SegmentSizes \* the words between two possible ends of a sentence

ASSUME ChunkerAssumption ==
  MaxTokens \in Nat /\ Overlap \in Nat /\ SegmentSizes \subseteq Nat \ {0}

VARIABLES
  packing,   \* the text is split and its windows are being packed
  open,      \* the words of the sentence that has not ended
  sentences, \* the words of each sentence
  window,    \* the window under construction
  drafts     \* the chunks so far

chunkerVars == <<packing, open, sentences, window, drafts>>

\* A window holds the sentences start .. end - 1; tokens sums their estimates,
\* words their words.
Window == [start: Nat \ {0}, end: Nat \ {0}, tokens: Nat, words: Nat]
Draft == [start: Nat \ {0}, end: Nat \ {0}, estimate: Nat]

WindowAt(i) == [start |-> i, end |-> i, tokens |-> 0, words |-> 0]

\* ceil(words * 1.4)
EstimateTokens(words) == (14 * words + 9) \div 10

ChunkerInit ==
  /\ packing = FALSE
  /\ open = 0
  /\ sentences = <<>>
  /\ window = WindowAt(1)
  /\ drafts = <<>>

-----------------------------------------------------------------------------
(* split_sentences *)

\* The next stretch of the text up to a boundary.  It ends its sentence unless
\* its last word is an abbreviation; the end of the line ends it anyway.
Split(words, abbreviation, lastOfLine) ==
  /\ ~packing
  /\ IF abbreviation /\ ~lastOfLine
     THEN open' = open + words /\ UNCHANGED sentences
     ELSE sentences' = Append(sentences, open + words) /\ open' = 0
  /\ UNCHANGED <<packing, window, drafts>>

SplitEnds ==
  /\ ~packing /\ open = 0
  /\ packing' = TRUE
  /\ UNCHANGED <<open, sentences, window, drafts>>

-----------------------------------------------------------------------------
(* chunk_text *)

Total == Len(sentences)
Estimate(i) == EstimateTokens(sentences[i])

\* Faulty: the sentence is weighed against the room left by the others only.
FitsLate == window.end <= Total /\ window.tokens <= MaxTokens

\* The inner loop goes on: a window takes its first sentence whatever its size.
Fits ==
  /\ window.end <= Total
  /\ window.end = window.start \/ window.tokens + Estimate(window.end) <= MaxTokens

AddSentence ==
  /\ packing /\ Fits
  /\ window' = [window EXCEPT !.end = @ + 1,
                              !.tokens = @ + Estimate(window.end),
                              !.words = @ + sentences[window.end]]
  /\ UNCHANGED <<packing, open, sentences, drafts>>

\* Faulty: the next window starts the overlap before the end, and may stay.
NextStartStuck == window.end - Overlap

\* Backward by the overlap, but past the start of this window.
NextStart ==
  IF window.end - Overlap > window.start + 1 THEN window.end - Overlap ELSE window.start + 1

\* The window becomes a chunk, and another starts unless it reached the end.
CutWindow ==
  /\ packing /\ ~Fits /\ window.start < window.end
  /\ drafts' = Append(drafts, [start |-> window.start, end |-> window.end,
                               estimate |-> EstimateTokens(window.words)])
  /\ window' = WindowAt(IF window.end > Total THEN Total + 1 ELSE NextStart)
  /\ UNCHANGED <<packing, open, sentences>>

\* All is packed.
Chunked == packing /\ window.start = Total + 1

ChunkerNext ==
  \/ \E words \in SegmentSizes, abbreviation, lastOfLine \in BOOLEAN :
       Split(words, abbreviation, lastOfLine)
  \/ SplitEnds
  \/ AddSentence
  \/ CutWindow

ChunkerSpec == ChunkerInit /\ [][ChunkerNext]_chunkerVars

-----------------------------------------------------------------------------
(* Properties *)

\* Type invariant of the chunker; a window never runs past the sentences.
ChunkerTypeOK ==
  /\ packing \in BOOLEAN
  /\ open \in Nat
  /\ sentences \in Seq(Nat \ {0})
  /\ window \in Window
  /\ drafts \in Seq(Draft)
  /\ window.start <= window.end /\ window.end <= Total + 1

\* The chunks cover the sentences from the first on with no gap, in order and
\* each starting after the one before, so that the packing ends and no sentence
\* is dropped (chunk_text: sentences are never split or dropped).
ChunksCoverText ==
  /\ \A i \in DOMAIN drafts : drafts[i].start < drafts[i].end
  /\ drafts # <<>> => drafts[1].start = 1
  /\ \A i \in 2 .. Len(drafts) :
       drafts[i - 1].start < drafts[i].start /\ drafts[i].start <= drafts[i - 1].end
  /\ IF drafts = <<>> THEN window.start = 1
     ELSE /\ drafts[Len(drafts)].start < window.start
          /\ window.start <= drafts[Len(drafts)].end
  /\ Chunked /\ Total > 0 => drafts[Len(drafts)].end = Total + 1

\* The estimate of a chunk's joined text keeps to the budget, unless the chunk
\* is one sentence: the sum of rounded estimates bounds the rounded sum.
ChunksKeepBudget ==
  \A i \in DOMAIN drafts :
    drafts[i].estimate <= MaxTokens \/ drafts[i].end = drafts[i].start + 1
===============================================================================
