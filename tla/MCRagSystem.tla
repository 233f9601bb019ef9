----------------------------- MODULE MCRagSystem -----------------------------
(* Instances of RagSystem for TLC: texts of one chunk each; requests and     *)
(* sessions are interchangeable.                                             *)
EXTENDS RagSystem, TLC

MCChunkCount == [t \in Texts |-> 1]
RequestSymmetry == Permutations(Chats) \cup Permutations(SessionIds)

=============================================================================
