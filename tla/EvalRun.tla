-------------------------------- MODULE EvalRun --------------------------------
(***************************************************************************)
(* The evaluation (src/src/app/eval/__main__.py): it builds the retrieval   *)
(* stack on a throwaway database and a Qdrant collection of its own,        *)
(* ingests the sample documents (Chunker), ranks the golden questions       *)
(* (Ranking) and tears everything down.  Any step may raise, also in the    *)
(* teardown.                                                               *)
(*                                                                         *)
(* A definition marked Faulty is the one after it with one slip, to show    *)
(* that the properties tell the difference; nothing else uses it.          *)
(***************************************************************************)
EXTENDS Chunker, Ranking

CONSTANTS
  MaxSentences, \* bound: the sentences of a sample
  MaxWords      \* bound: the words of a sentence

VARIABLES
  phase,    \* what the run is doing
  built,    \* how many steps of _build_retriever are done
  opened,   \* what it has registered a closer for, in order
  closing,  \* the closers still to be run
  unclosed, \* what raised when it was closed
  live      \* what exists: connections and clients that are open, the collection

runVars == <<phase, built, opened, closing, unclosed, live>>
evalVars == <<runVars, chunkerVars, rankingVars>>

\* _build_retriever: calls without a closer of their own are in lower case.
\* The name of the collection is new, so ensure_collection just creates it.
BuildSteps ==
  <<"Chunk store", "Bm25 connection", "bm25 index", "Embedder", "dim",
    "Vector store", "Eval collection">>
Closers == {"Chunk store", "Bm25 connection", "Embedder", "Vector store", "Eval collection"}

EvalInit ==
  /\ ChunkerInit
  /\ RankingInit
  /\ phase = "building"
  /\ built = 0
  /\ opened = <<>>
  /\ closing = <<>>
  /\ unclosed = {}
  /\ live = {}

-----------------------------------------------------------------------------
(* _build_retriever *)

NextStep == BuildSteps[built + 1]

Build ==
  /\ phase = "building" /\ built < Len(BuildSteps)
  /\ built' = built + 1
  /\ opened' = IF NextStep \in Closers THEN Append(opened, NextStep) ELSE opened
  /\ live' = live \cup ({NextStep} \cap Closers)
  /\ UNCHANGED <<phase, closing, unclosed, chunkerVars, rankingVars>>

Built ==
  /\ phase = "building" /\ built = Len(BuildSteps)
  /\ phase' = "ingesting"
  /\ UNCHANGED <<built, opened, closing, unclosed, live, chunkerVars, rankingVars>>

-----------------------------------------------------------------------------
(* main *)

\* Faulty: the teardown runs every closer there could be.
TeardownAll ==
  closing' = <<"Eval collection", "Vector store", "Embedder", "Bm25 connection", "Chunk store">>

\* Last opened, first closed.
Teardown == closing' = Reverse(opened)

\* A step raises, of the build, of an ingest or of a query, or all is done: what
\* was being built, chunked or ranked is gone.  The call that creates the
\* collection may raise and have created it.
Leave ==
  /\ phase \in {"building", "ingesting", "evaluating"}
  /\ phase' \in {"closing"} \cup (IF phase = "evaluating" THEN {"closing reranker"} ELSE {})
  /\ Teardown
  /\ \/ UNCHANGED live
     \/ /\ phase = "building" /\ built < Len(BuildSteps)
        /\ NextStep = "Eval collection"
        /\ live' = live \cup {"Eval collection"}
  /\ packing' = FALSE /\ open' = 0 /\ sentences' = <<>>
  /\ window' = WindowAt(1) /\ drafts' = <<>>
  /\ step' = "idle" /\ lists' = NoLists
  /\ candidates' = <<>> /\ scores' = <<>> /\ ranked' = <<>>
  /\ UNCHANGED <<built, opened, unclosed>>

\* _ingest_samples: one sample after the other is chunked and stored.
ChunkSample ==
  /\ phase = "ingesting"
  /\ \/ \E words \in SegmentSizes, abbreviation, lastOfLine \in BOOLEAN :
          /\ Len(sentences) < MaxSentences /\ open + words <= MaxWords
          /\ Split(words, abbreviation, lastOfLine)
     \/ SplitEnds
     \/ AddSentence
     \/ CutWindow
  /\ UNCHANGED <<runVars, rankingVars>>

SampleStored ==
  /\ phase = "ingesting" /\ Chunked
  /\ packing' = FALSE /\ sentences' = <<>> /\ window' = WindowAt(1) /\ drafts' = <<>>
  /\ phase' \in {"ingesting", "evaluating"}
  /\ UNCHANGED <<built, opened, closing, unclosed, live, open, rankingVars>>

\* run_retrieval_eval: one question after the other.
Evaluate ==
  /\ phase = "evaluating" /\ step # "failed"
  /\ RankingNext
  /\ UNCHANGED <<runVars, chunkerVars>>

-----------------------------------------------------------------------------
(* The finally clause and _close_all *)

\* The reranker is closed first, outside _close_all: if that raises, nothing
\* else is closed.
CloseReranker ==
  /\ phase = "closing reranker"
  /\ \/ phase' = "closing" /\ UNCHANGED unclosed
     \/ phase' = "ended" /\ unclosed' = {"Reranker"}
  /\ UNCHANGED <<built, opened, closing, live, chunkerVars, rankingVars>>

\* Faulty: the first failure ends the teardown.
RestAfterFailureNone == <<>>

RestAfterFailure == Tail(closing)

CloseNext ==
  /\ phase = "closing" /\ closing # <<>>
  /\ \/ /\ closing' = Tail(closing)
        /\ live' = live \ {Head(closing)}
        /\ UNCHANGED unclosed
     \/ /\ closing' = RestAfterFailure
        /\ unclosed' = unclosed \cup {Head(closing)}
        /\ UNCHANGED live
  /\ UNCHANGED <<phase, built, opened, chunkerVars, rankingVars>>

End ==
  /\ phase = "closing" /\ closing = <<>>
  /\ phase' = "ended"
  /\ UNCHANGED <<built, opened, closing, unclosed, live, chunkerVars, rankingVars>>

EvalNext ==
  \/ Build \/ Built \/ Leave
  \/ ChunkSample \/ SampleStored \/ Evaluate
  \/ CloseReranker \/ CloseNext \/ End

EvalSpec == EvalInit /\ [][EvalNext]_evalVars

-----------------------------------------------------------------------------
(* Properties *)

\* Type invariant of a run, a sample and a query; only what was opened is closed.
EvalTypeOK ==
  /\ ChunkerTypeOK
  /\ RankingTypeOK
  /\ phase \in {"building", "ingesting", "evaluating", "closing reranker", "closing", "ended"}
  /\ built \in 0 .. Len(BuildSteps)
  /\ opened \in Seq(Closers)
  /\ closing \in Seq(Range(opened))
  /\ unclosed \subseteq Range(opened) \cup {"Reranker"}
  /\ live \subseteq Closers

\* What outlives the run is only what raised when it was closed, everything if
\* that was the reranker, and a collection whose creation raised and had taken
\* place (main, _close_all: one failure never skips the rest).
TeardownLeavesNothing ==
  phase = "ended" /\ "Reranker" \notin unclosed =>
    live \subseteq unclosed \cup ({"Eval collection"} \ Range(opened))
===============================================================================
