------------------------------ MODULE MCVersions ------------------------------
(* TLC instances of Versions. *)
EXTENDS Versions, TLC

\* The first file found is the first version's, the others the last one's.
Spread ==
    [f \in Files |-> IF f = CHOOSE g \in Files : TRUE THEN First
                     ELSE CHOOSE v \in Semvers : v # First]
AllOps == DOMAIN Plan
Symmetry == Permutations(Requests)
=============================================================================
