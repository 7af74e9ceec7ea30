-------------------------------- MODULE Editing --------------------------------
(***************************************************************************)
(* Creating and editing an asset (assets.service.ts: create, allocateSlug,   *)
(* update) while it is published, archived and restored.                     *)
(*                                                                         *)
(* An update reads the asset once, without a lock.  From what it read it     *)
(* decides whether the slug and the engine are locked and whether to reindex *)
(* the asset; its transaction only reads the latest version again.  The      *)
(* transitions of the status have interleavings of their own, which are in   *)
(* AssetLifecycle: here each commits in one step, and enqueues in another.   *)
(* Texts stand for all fields that are never locked; the checks of their     *)
(* content, of categories and licenses are in Documents and Catalogue.           *)
(***************************************************************************)
EXTENDS Naturals, FiniteSets

CONSTANTS
    Works,          \* assets
    Editors,        \* requests in flight
    Slugs, Engines, Semvers,
    Same,           \* a field that a request leaves out
    MaxDeaths       \* bound: requests that die

ASSUME EditingAssumption ==
    Same \notin Slugs \cup Engines \cup Semvers \cup Works /\ MaxDeaths \in Nat

VARIABLES
    work,           \* each asset: status, slug, engine
    latest,         \* its latest version: semver, and whether it is published
    edit,           \* each request: step, asset, what it saw, what it changes
    pinned,         \* history: the fields as they were when they became locked
    overtook,       \* history: locked fields written by a request that read them unlocked
    unindexed,      \* assets changed while published since they were last enqueued
    overlooked,     \* history: those of them nobody will enqueue
    deaths

editingVars == <<work, latest, edit, pinned, overtook, unindexed, overlooked, deaths>>

Absent == [status |-> "absent", slug |-> Same, engine |-> Same]
Keep == [slug |-> Same, engine |-> Same, semver |-> Same, text |-> FALSE]
Quiet == [step |-> "idle", work |-> Same, saw |-> "none", open |-> TRUE, new |-> Keep]
Changes ==
    [slug : Slugs \cup {Same}, engine : Engines \cup {Same}, semver : Semvers \cup {Same}, text : BOOLEAN]

TakenSlugs(others) == {work[w].slug : w \in others}
Changing(old, new) == new # Same /\ new # old

EditingInit ==
    /\ work = [w \in Works |-> Absent]
    /\ latest = [w \in Works |-> [semver |-> Same, out |-> FALSE]]
    /\ edit = [k \in Editors |-> Quiet]
    /\ pinned = [w \in Works |-> Keep]
    /\ overtook = {} /\ unindexed = {} /\ overlooked = {} /\ deaths = 0

-----------------------------------------------------------------------------
\* create: allocateSlug tries a suffix until the slug is free; the unique index
\* refuses it if it is taken before the transaction commits.
CreateWork(k, w, slug, engine, semver) ==
    /\ edit[k] = Quiet /\ work[w] = Absent /\ slug \notin TakenSlugs(Works)
    /\ work' = [work EXCEPT ![w] = [status |-> "DRAFT", slug |-> slug, engine |-> engine]]
    /\ latest' = [latest EXCEPT ![w] = [semver |-> semver, out |-> FALSE]]
    /\ UNCHANGED <<edit, pinned, overtook, unindexed, overlooked, deaths>>

\* Mutant of Refused: the slug is never locked.
RefusedTaken(w, new) ==
    \/ Changing(work[w].slug, new.slug) /\ new.slug \in TakenSlugs(Works \ {w})
    \/ Changing(work[w].engine, new.engine) /\ work[w].status = "PUBLISHED"

\* What update refuses of what it read.
Refused(w, new) ==
    \/ Changing(work[w].slug, new.slug)
       /\ (work[w].status = "PUBLISHED" \/ new.slug \in TakenSlugs(Works \ {w}))
    \/ Changing(work[w].engine, new.engine) /\ work[w].status = "PUBLISHED"

\* update finds the asset, and only what differs from it becomes data to write.
FindWork(k, w, new) ==
    /\ edit[k] = Quiet /\ work[w] # Absent /\ new # Keep /\ ~Refused(w, new)
    /\ edit' = [edit EXCEPT ![k] = [step |-> "version", work |-> w, saw |-> work[w].status, open |-> TRUE,
                   new |-> [new EXCEPT !.slug = IF @ = work[w].slug THEN Same ELSE @,
                                       !.engine = IF @ = work[w].engine THEN Same ELSE @]]]
    /\ UNCHANGED <<work, latest, pinned, overtook, unindexed, overlooked, deaths>>

\* In the transaction: the latest version, whose semver is locked once it is published.
ReadVersion(k) ==
    /\ edit[k].step = "version"
    /\ LET w == edit[k].work
           new == edit[k].new.semver
       IN IF Changing(latest[w].semver, new) /\ latest[w].out
          THEN edit' = [edit EXCEPT ![k] = Quiet]
          ELSE edit' = [edit EXCEPT ![k].step = "write", ![k].open = ~latest[w].out,
                                    ![k].new.semver = IF @ = latest[w].semver THEN Same ELSE @]
    /\ UNCHANGED <<work, latest, pinned, overtook, unindexed, overlooked, deaths>>

\* The writes, none of which looks at the status again; the unique index may refuse.
WriteEdit(k) ==
    /\ edit[k].step = "write"
    /\ LET w == edit[k].work
           new == edit[k].new
           Kept(old, field) == IF field = Same THEN old ELSE field
           live == work[w].status = "PUBLISHED"
           late == {f \in {"slug", "engine"} : new[f] # Same /\ live /\ edit[k].saw # "PUBLISHED"}
               \cup {f \in {"semver"} : new[f] # Same /\ latest[w].out /\ edit[k].open}
       IN IF new.slug \in TakenSlugs(Works \ {w}) \ {Same}
          THEN /\ edit' = [edit EXCEPT ![k] = Quiet]
               /\ UNCHANGED <<work, latest, overtook, unindexed, overlooked>>
          ELSE /\ work' = [work EXCEPT ![w].slug = Kept(@, new.slug), ![w].engine = Kept(@, new.engine)]
               /\ latest' = [latest EXCEPT ![w].semver = Kept(@, new.semver)]
               /\ overtook' = overtook \cup ({w} \X late)
               /\ unindexed' = IF live THEN unindexed \cup {w} ELSE unindexed
               /\ overlooked' = IF live /\ edit[k].saw # "PUBLISHED" THEN overlooked \cup {w} ELSE overlooked
               /\ edit' = [edit EXCEPT ![k].step = "enqueue"]
    /\ UNCHANGED <<pinned, deaths>>

\* An update enqueues what it saw published, the transitions always do.
EnqueueEdit(k) ==
    /\ edit[k].step = "enqueue"
    /\ LET w == edit[k].work
           done == IF edit[k].saw \in {"moved", "PUBLISHED"} THEN {w} ELSE {}
       IN unindexed' = unindexed \ done /\ overlooked' = overlooked \ done
    /\ edit' = [edit EXCEPT ![k] = Quiet]
    /\ UNCHANGED <<work, latest, pinned, overtook, deaths>>

-----------------------------------------------------------------------------
\* publish also publishes the version, archive and restore leave it alone.
MoveWork(k, w, from, to) ==
    /\ edit[k] = Quiet /\ work[w].status \in from
    /\ work' = [work EXCEPT ![w].status = to]
    /\ edit' = [edit EXCEPT ![k] = [Quiet EXCEPT !.step = "enqueue", !.work = w, !.saw = "moved"]]
    /\ unindexed' = IF to = "PUBLISHED" THEN unindexed \cup {w} ELSE unindexed \ {w}
    /\ overlooked' = overlooked \ {w}
    /\ UNCHANGED deaths

Locking(w, fields) ==
    /\ pinned' = [pinned EXCEPT ![w] = [slug |-> work[w].slug, engine |-> work[w].engine,
                                        semver |-> IF "semver" \in fields THEN latest[w].semver ELSE @.semver,
                                        text |-> FALSE]]
    /\ overtook' = overtook \ ({w} \X fields)

PublishWork(k, w) ==
    /\ MoveWork(k, w, {"DRAFT", "PUBLISHED", "ARCHIVED"}, "PUBLISHED")
    /\ latest' = [latest EXCEPT ![w].out = TRUE]
    /\ IF work[w].status = "PUBLISHED" /\ latest[w].out THEN UNCHANGED <<pinned, overtook>>
       ELSE Locking(w, IF latest[w].out THEN {"slug", "engine"} ELSE {"slug", "engine", "semver"})

ArchiveWork(k, w) ==
    /\ MoveWork(k, w, {"DRAFT", "PUBLISHED", "ARCHIVED"}, "ARCHIVED")
    /\ UNCHANGED <<latest, pinned, overtook>>

RestoreWork(k, w) ==
    /\ MoveWork(k, w, {"ARCHIVED"}, "PUBLISHED")
    /\ Locking(w, {"slug", "engine"})
    /\ UNCHANGED latest

\* A request dies, its transaction with it.
DieEditing(k) ==
    /\ edit[k] # Quiet /\ deaths < MaxDeaths /\ deaths' = deaths + 1
    /\ overlooked' = IF edit[k].step = "enqueue" THEN overlooked \cup (unindexed \cap {edit[k].work}) ELSE overlooked
    /\ edit' = [edit EXCEPT ![k] = Quiet]
    /\ UNCHANGED <<work, latest, pinned, overtook, unindexed>>

EditingNext ==
    \E k \in Editors :
        \/ \E w \in Works :
               \/ \E s \in Slugs, e \in Engines, v \in Semvers : CreateWork(k, w, s, e, v)
               \/ \E new \in Changes : FindWork(k, w, new)
               \/ PublishWork(k, w) \/ ArchiveWork(k, w) \/ RestoreWork(k, w)
        \/ ReadVersion(k) \/ WriteEdit(k) \/ EnqueueEdit(k) \/ DieEditing(k)

EditingSpec == EditingInit /\ [][EditingNext]_editingVars

-----------------------------------------------------------------------------
(* Properties.                                                             *)

\* A published asset keeps its slug and engine, a published version its semver
\* (AssetsService.update: "locked once ..."), from the publication or restoration
\* on - unless an update that had read them unlocked commits after it.  What
\* changes in a published asset is enqueued for the index, unless the update had
\* read it before its publication, or the request died.
EditsExplained ==
    /\ \A w \in Works :
           /\ work[w].status = "PUBLISHED" =>
                  \A f \in {"slug", "engine"} : work[w][f] = pinned[w][f] \/ <<w, f>> \in overtook
           /\ latest[w].out => latest[w].semver = pinned[w].semver \/ <<w, "semver">> \in overtook
    /\ \A w \in unindexed \ overlooked :
           \E k \in Editors : edit[k].step = "enqueue" /\ edit[k].work = w /\ edit[k].saw \in {"moved", "PUBLISHED"}
=============================================================================
