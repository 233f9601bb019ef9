----------------------------- MODULE MCIngestion -----------------------------
(* Instances of Ingestion for TLC: the sizes of the texts.               *)
EXTENDS IngestionInvariants, TLC

CONSTANTS d1, blank, short, long

\* A text with no chunkable content, one of one chunk and one of two: a
\* version number can be reused by a text with fewer or with more chunks.
MCTexts == {blank, short, long}
MCChunkCount == (blank :> 0) @@ (short :> 1) @@ (long :> 2)

=============================================================================
