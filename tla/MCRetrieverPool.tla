--------------------------- MODULE MCRetrieverPool ---------------------------
(* Instances of RetrieverPool for TLC.                                       *)
EXTENDS RetrieverPoolInvariants

=============================================================================
