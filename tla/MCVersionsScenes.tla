--------------------------- MODULE MCVersionsScenes ---------------------------
(* TLC instance of five components that share no state: the versions of an    *)
(* asset and their totals (Versions), their compatibility (Compatibility),    *)
(* the files and the objects that hold them (FileStore), an upload in parts   *)
(* (Multipart) and the order of the files (FileOrder).  Each behaviour plays  *)
(* one of them.                                                               *)
EXTENDS MCVersions, Compatibility, FileStore, Multipart, FileOrder

VARIABLE scene

Scenes == {"versions", "matrix", "files", "parts", "order"}

SceneInit == scene \in Scenes /\ Init /\ FilesInit /\ PartsInit /\ OrderInit
             /\ MatrixInit /\ (scene = "matrix" \/ matrix = {})

SceneNext ==
    \/ scene = "versions" /\ Next /\ UNCHANGED <<matrixVars, filesVars, partsVars, orderVars, scene>>
    \/ scene = "matrix" /\ MatrixNext /\ UNCHANGED <<vars, filesVars, partsVars, orderVars, scene>>
    \/ scene = "files" /\ FilesNext /\ UNCHANGED <<vars, matrixVars, partsVars, orderVars, scene>>
    \/ scene = "parts" /\ PartsNext /\ UNCHANGED <<vars, matrixVars, filesVars, orderVars, scene>>
    \/ scene = "order" /\ OrderNext /\ UNCHANGED <<vars, matrixVars, filesVars, partsVars, scene>>

SceneSpec == SceneInit /\ [][SceneNext]_<<vars, matrixVars, filesVars, partsVars, orderVars, scene>>

\* Arrivals and matrices share model values.
SceneSymmetry == Permutations(S3Prefixes) \cup Permutations(Arrivals)
===============================================================================
