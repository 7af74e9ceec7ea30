-------------------------- MODULE MCLifecycleScenes ---------------------------
(* TLC instance of three components that share no state: the lifecycle of     *)
(* assets (AssetLifecycle), their editing (Editing), and the documents and    *)
(* manifests they are made of (Documents).  Each behaviour plays one of them. *)
EXTENDS MCAssetLifecycle, Editing, Documents

VARIABLE scene

Scenes == {"lifecycle", "editing", "documents"}

\* Some nodes without content: those the editor makes, and others.
NodeLeaf(t, attrs, marks) == [type |-> t, attrs |-> attrs, marks |-> marks, content |-> <<>>]
Mark(t, attrs) == [type |-> t, attrs |-> attrs]
AttrSets ==
    {<<>>, [src |-> "upload"], [src |-> "elsewhere", alt |-> "x"], [src |-> "upload", onload |-> "x"],
     [src |-> "elsewhere", poster |-> "upload2"], [alt |-> "x"]}
MarkSets ==
    {<<Mark("bold", <<>>)>>, <<Mark("link", [href |-> "upload2"])>>,
     <<Mark("link", [href |-> "elsewhere", target |-> "_self", rel |-> "me"])>>, <<Mark("blink", <<>>)>>,
     <<Mark("highlight", [color |-> "red", onclick |-> "x"]), Mark("link", <<>>)>>}
SomeLeaves ==
    {NodeLeaf(t, a, <<>>) : t \in {"image", "video", "text"}, a \in AttrSets}
    \cup {NodeLeaf("text", <<>>, m) : m \in MarkSets}
    \cup {NodeLeaf("script", <<>>, <<>>), NodeLeaf("mention", [id |-> "x"], <<>>)}
    \cup {NodeLeaf("heading", [level |-> n], <<>>) : n \in {"1", "4"}}
SomePaths == {<<1>>, <<2>>, <<1, 1>>, <<1, 2>>, <<2, 1>>, <<1, 1, 2>>}

SceneInit ==
    /\ scene \in Scenes
    /\ Init /\ EditingInit /\ DocumentsInit
    /\ scene # "documents" => document = NoDocument /\ files = <<<<1>>>>

SceneNext ==
    \/ scene = "lifecycle" /\ Next /\ UNCHANGED <<editingVars, documentsVars, scene>>
    \/ scene = "editing" /\ EditingNext /\ UNCHANGED <<vars, documentsVars, scene>>
    \/ scene = "documents" /\ DocumentsNext /\ UNCHANGED <<vars, editingVars, scene>>

SceneSpec == SceneInit /\ [][SceneNext]_<<vars, editingVars, documentsVars, scene>>

\* Editors and insiders are the same model values.
Symmetry ==
    InsiderSymmetry
        \cup UNION {Permutations(S) : S \in {Slugs, Engines, Semvers}}
===============================================================================
