---------------------------- MODULE MCSearchScenes ----------------------------
(* TLC instance of four components that share no state: the upkeep of the     *)
(* search index (SearchIndex), the merges of tags that ask for it (Tags), the *)
(* queries that read it or the database (Reading) and the rows of Discover    *)
(* (DiscoverRows).  Each behaviour plays one of them.                         *)
EXTENDS MCSearchIndex, Tags, Reading, DiscoverRows

VARIABLE scene

Scenes == {"index", "tags", "reading", "rows"}

\* The question of the behaviours in which none is asked.
Unread ==
    /\ query = CHOOSE q \in Queries({FALSE}, {FALSE}) : TRUE
    /\ requester = "guest"
    /\ asset = CHOOSE a \in AssetRows({"PUBLISHED"}, {{}}, {{}}) : ~a.saved
    /\ filterable = EnsureAssetsIndex /\ ways = Unasked

\* Of all questions, those about the filters of a published asset, and those about who
\* is shown an asset in which status and by which name.
Asked ==
    \/ Question({a \in AssetRows({"PUBLISHED"}, {{}} \cup {{v} : v \in Versions}, {{}}) : ~a.saved},
                {q \in Queries({FALSE}, {FALSE}) : q.locale = "en"}, {"guest"})
    \/ Question({a \in AssetRows(Statuses, {{}}, SUBSET Locales) :
                    a.latest.fileKinds = {} /\ a.latest.compatibility = {} /\ a.tags = {}},
                {q \in Queries(BOOLEAN, BOOLEAN) :
                    ~q.license /\ q.facet = None /\ q.tags \cup q.fileKinds \cup q.renderPipelines \cup q.targets = {}},
                Requesters)

\* Two batches at once have one asset to quarrel over; where every asset has lost an
\* update, nothing is left to explain.
Narrow ==
    /\ lost # Assets
    /\ \/ Cardinality({w \in Workers : bpc[w] # "idle"}) <= 1
       \/ Cardinality({a \in Assets : rev[a] > 0 \/ life[a] # "hidden"}) <= 1

SceneInit ==
    /\ scene \in Scenes
    /\ Init /\ TagsInit
    /\ IF scene = "reading" THEN Asked ELSE Unread
    /\ RowsInit
    /\ scene = "rows" \/ shelf = [w \in Works |-> 1]

SceneNext ==
    \/ scene = "index" /\ Next /\ Narrow' /\ UNCHANGED <<tagsVars, readingVars, rowsVars, scene>>
    \/ scene = "tags" /\ TagsNext /\ UNCHANGED <<vars, readingVars, rowsVars, scene>>
    \/ scene = "reading" /\ ReadingNext /\ UNCHANGED <<vars, tagsVars, rowsVars, scene>>
    \/ scene = "rows" /\ RowsNext /\ UNCHANGED <<vars, tagsVars, readingVars, scene>>

SceneSpec == SceneInit /\ [][SceneNext]_<<vars, tagsVars, readingVars, rowsVars, scene>>

\* Two of the components share model values for assets, and curators and batch workers theirs.
SceneSymmetry == UNION {Permutations(S) : S \in {Assets, Curators, Labels}}
===============================================================================
