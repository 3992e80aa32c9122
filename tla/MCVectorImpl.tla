---------------------------- MODULE MCVectorImpl ----------------------------
(* VectorImpl with interchangeable vectors and addresses. *)
EXTENDS VectorImpl, TLC

Symmetric == Permutations(Vectors) \cup Permutations(Blocks)
=============================================================================
