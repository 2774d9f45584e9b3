---------------------------- MODULE MCBatchFetch ----------------------------
(* BatchFetch with resolvers that may be exchanged for one another.        *)
EXTENDS BatchFetch, TLC

Symmetry == Permutations(Resolvers)
=============================================================================
