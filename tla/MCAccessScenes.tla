---------------------------- MODULE MCAccessScenes ----------------------------
(* TLC instance of three components in front of and behind the admin's        *)
(* handlers, which share no state: the guards (Access), what a request passes *)
(* before them (Gate) and the tables admins keep (Catalogue).  Each behaviour *)
(* plays one of them.                                                         *)
EXTENDS Access, Gate, Catalogue, TLC

VARIABLE scene

Scenes == {"access", "gate", "lists", "counts", "index"}

SceneInit ==
    /\ scene \in Scenes
    /\ Init /\ GateInit /\ CatalogueInit
    /\ scene # "access" => boot = None /\ account = [u \in Users |-> "none"]
    /\ scene # "lists" => shelf = "categories"

\* The catalogue is played in parts: lists read while admins work on the rows, lists
\* read while assets come and go, and, with no list read, all requests at once.
Asked == {desk'[k].op : k \in Clerks}

SceneNext ==
    \/ scene = "access" /\ Next /\ UNCHANGED <<gateVars, catalogueVars, scene>>
    \/ scene = "gate" /\ GateNext /\ UNCHANGED <<vars, catalogueVars, scene>>
    \/ /\ scene \in {"lists", "counts", "index"} /\ CatalogueNext /\ UNCHANGED <<vars, gateVars, scene>>
       /\ scene = "lists" => Asked \cap {"asset", "draft"} = {}
       /\ scene = "counts" => Asked \subseteq {"none", "asset", "draft"}
       /\ scene = "index" => fill' = fill

SceneSpec == SceneInit /\ [][SceneNext]_<<vars, gateVars, catalogueVars, scene>>

\* The components share model values: a permutation of one set is one of its
\* namesakes in the others, and the group stays small.
Symmetry == Permutations(Users) \cup Permutations(Requests) \cup Permutations(Goods)
===============================================================================
