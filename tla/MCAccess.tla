-------------------------------- MODULE MCAccess --------------------------------
(* TLC instance of Access. *)
EXTENDS Access, TLC

Symmetry == Permutations(Users) \cup Permutations(Requests)
=============================================================================
