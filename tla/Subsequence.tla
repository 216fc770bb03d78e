----------------------------- MODULE Subsequence -----------------------------
(* The elements of a sequence at some of its positions, in their order:    *)
(* what a list comprehension with a condition leaves of a list.            *)
EXTENDS Naturals, Sequences

Picked(seq, I) ==
  LET F[n \in 0 .. Len(seq)] ==
        IF n = 0 THEN <<>> ELSE IF n \in I THEN Append(F[n - 1], seq[n]) ELSE F[n - 1]
  IN  F[Len(seq)]
=============================================================================
