------------------------------ MODULE MCFeatured ------------------------------
(* TLC instance of Featured: every slot has an asset of its own, so that all  *)
(* of them can be there, and active, at once.                                 *)
EXTENDS Featured, TLC

Apart == [s \in Slots |-> s]
Symmetry == Permutations(Requests) \cup Permutations(Slots)
=============================================================================
