--------------------------- MODULE MCAnalysisScenes ---------------------------
(* TLC instance of four components that share no state: the analysis of a     *)
(* version's files (AnalysisPipeline), the conversions, renders and           *)
(* thumbnails that follow (Previews), the nightly accounts (Upkeep) and the   *)
(* trail of an admin's changes (AuditTrail).  Each behaviour plays one of     *)
(* them.                                                                      *)
EXTENDS AnalysisPipeline, Previews, Upkeep, AuditTrail, TLC

VARIABLE scene

Scenes == {"analysis", "previews", "upkeep", "trail"}

\* Three models of different sizes; the middle one is analysed twice.
Heavy == [m \in Models |-> CASE m = "small" -> 1 [] m = "large" -> 2 [] m = "huge" -> 3]
Often == [m \in Models |-> IF m = "large" THEN 2 ELSE 1]
Mine == [g \in Goods |-> "u1"]

SceneInit ==
    /\ scene \in Scenes
    /\ Init /\ PreviewsInit /\ UpkeepInit
    /\ TrailInit /\ (scene = "trail" \/ standing = "PUBLISHED")
    /\ scene # "previews" => part = "models"
    /\ scene # "upkeep" => book = "downloads"

SceneNext ==
    \/ scene = "analysis" /\ Next /\ UNCHANGED <<previewsVars, upkeepVars, trailVars, scene>>
    \/ scene = "previews" /\ PreviewsNext /\ UNCHANGED <<vars, upkeepVars, trailVars, scene>>
    \/ scene = "upkeep" /\ UpkeepNext /\ UNCHANGED <<vars, previewsVars, trailVars, scene>>
    \/ scene = "trail" /\ TrailNext /\ UNCHANGED <<vars, previewsVars, upkeepVars, scene>>

SceneSpec == SceneInit /\ [][SceneNext]_<<vars, previewsVars, upkeepVars, trailVars, scene>>

\* Calls, uploads, goods and admins share model values.
Symmetry == Permutations(Calls)
===============================================================================
