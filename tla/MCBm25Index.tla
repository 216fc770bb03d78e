----------------------------- MODULE MCBm25Index -----------------------------
(* Instances of Bm25Index for TLC. *)
EXTENDS Bm25Index, TLC

Symmetry == Permutations(Threads)
=============================================================================
