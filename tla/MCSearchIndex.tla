----------------------------- MODULE MCSearchIndex -----------------------------
(* TLC instance of SearchIndex. *)
EXTENDS SearchIndex, TLC

Symmetry == Permutations(Assets) \cup Permutations(Workers)
=============================================================================
