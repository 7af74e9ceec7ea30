------------------------------ MODULE SearchIndex ------------------------------
(***************************************************************************)
(* How an edit of an asset reaches Meilisearch.                            *)
(*                                                                         *)
(* A request commits its edit to Postgres and then enqueues a mark-dirty   *)
(* job under the id <asset>__<reason>.  The mark worker adds the asset to  *)
(* a Redis set.  The batch worker reads the set (SMEMBERS), deletes it     *)
(* (DEL), rebuilds the documents of the assets it read, one query each,    *)
(* and writes them to the index: documents of published assets are added,  *)
(* those of all others removed.  A force-deleted or purged asset is        *)
(* removed from the index directly, without a mark.  The reindex script    *)
(* empties the index and fills nothing in.                                 *)
(*                                                                         *)
(* A document is abstracted to the revision of the asset it was built      *)
(* from; 0 is "no document".                                               *)
(***************************************************************************)
EXTENDS Naturals, FiniteSets

CONSTANTS
    Assets,
    Reasons,    \* the edits of the run: a subset of SearchIndexReason
    Workers,    \* worker processes consuming search-index-batch (concurrency 1)
    MaxEdits    \* bound: edits per asset

ASSUME SearchIndexAssumption ==
    /\ Reasons \subseteq {"asset.publish", "asset.restore", "asset.update",
                          "asset.archive", "asset.delete", "asset.stats"}
    /\ MaxEdits \in Nat

VARIABLES
    rev,        \* Postgres: revision of each asset, one per committed edit
    life,       \* Postgres: "hidden" (not PUBLISHED), "shown", "gone" (no row)
    owing,      \* <<asset, reason>> committed but not yet enqueued
    purging,    \* assets whose row is gone but whose document is still to go
    mark,       \* mark-dirty job of each <<asset, reason>>
    dirty,      \* Redis set search:pending
    bpc, ids, todo, built,      \* batch worker: step, SMEMBERS, unbuilt, documents
    index,      \* Meilisearch
    lost        \* history: assets some edit of which the code has dropped

dbVars == <<rev, life>>
batchVars == <<bpc, ids, todo, built>>
vars == <<dbVars, owing, purging, mark, dirty, batchVars, index, lost>>

\* What the index ought to hold for an asset.
Content(a) == IF life[a] = "shown" THEN rev[a] ELSE 0

Init ==
    /\ rev = [a \in Assets |-> 0] /\ life = [a \in Assets |-> "hidden"]
    /\ owing = {} /\ purging = {}
    /\ mark = [p \in Assets \X Reasons |-> "absent"]
    /\ dirty = {}
    /\ bpc = [w \in Workers |-> "idle"] /\ ids = [w \in Workers |-> {}]
    /\ todo = [w \in Workers |-> {}] /\ built = [w \in Workers |-> [a \in Assets |-> 0]]
    /\ index = [a \in Assets |-> 0]
    /\ lost = {}

-----------------------------------------------------------------------------
(* Requests.                                                               *)

AfterEdit(l, r) ==
    CASE r \in {"asset.publish", "asset.restore"} -> "shown"
      [] r \in {"asset.archive", "asset.delete"}  -> "hidden"
      [] OTHER -> l

\* The edit is committed; the enqueue follows.
Commit(a, r) ==
    /\ life[a] # "gone" /\ rev[a] < MaxEdits
    /\ <<a, r>> \notin owing
    /\ rev' = [rev EXCEPT ![a] = @ + 1]
    /\ life' = [life EXCEPT ![a] = AfterEdit(@, r)]
    /\ owing' = owing \cup {<<a, r>>}
    /\ UNCHANGED <<purging, mark, dirty, batchVars, index, lost>>

\* enqueueSearchIndex: a job id the queue still knows - waiting, or retained
\* after it completed or failed - is not added again.
EnqueueSearchIndex(a, r) ==
    /\ <<a, r>> \in owing
    /\ owing' = owing \ {<<a, r>>}
    /\ mark' = [mark EXCEPT ![<<a, r>>] = IF @ = "absent" THEN "waiting" ELSE @]
    /\ lost' = IF mark[<<a, r>>] \in {"completed", "failed"} THEN lost \cup {a} ELSE lost
    /\ UNCHANGED <<dbVars, purging, dirty, batchVars, index>>

\* The enqueue throws, or the API process dies between the commit and it.
CrashRequest(a, r) ==
    /\ <<a, r>> \in owing
    /\ owing' = owing \ {<<a, r>>}
    /\ lost' = lost \cup {a}
    /\ UNCHANGED <<dbVars, purging, mark, dirty, batchVars, index>>

\* forceDelete and purgeOne: the row goes, then its documents, best effort.
DeleteRow(a) ==
    /\ life[a] # "gone"
    /\ life' = [life EXCEPT ![a] = "gone"]
    /\ purging' = purging \cup {a}
    /\ UNCHANGED <<rev, owing, mark, dirty, batchVars, index, lost>>

\* A batch that built the asset while it was still there will add it back.
Revived(a) == \E w \in Workers : bpc[w] \in {"build", "add"} /\ a \in ids[w] /\ built[w][a] # 0

DeleteDocuments(a) ==
    /\ a \in purging
    /\ purging' = purging \ {a}
    /\ index' = [index EXCEPT ![a] = 0]
    /\ lost' = IF Revived(a) THEN lost \cup {a} ELSE lost
    /\ UNCHANGED <<dbVars, owing, mark, dirty, batchVars>>

DeleteDocumentsFails(a) ==
    /\ a \in purging
    /\ purging' = purging \ {a}
    /\ lost' = lost \cup {a}
    /\ UNCHANGED <<dbVars, owing, mark, dirty, batchVars, index>>

-----------------------------------------------------------------------------
(* search-index.worker.ts                                                  *)

MarkDirty(a, r) ==
    /\ mark[<<a, r>>] = "waiting"
    /\ mark' = [mark EXCEPT ![<<a, r>>] = "completed"]
    /\ dirty' = dirty \cup {a}
    /\ UNCHANGED <<dbVars, owing, purging, batchVars, index, lost>>

\* The five attempts of the job fail, or it stalls twice: it is retained as failed.
\* An administrator who drains the queue removes it (docs/RUNBOOK.md, "Reindex").
MarkFails(a, r) ==
    /\ mark[<<a, r>>] = "waiting"
    /\ \E m \in {"failed", "absent"} : mark' = [mark EXCEPT ![<<a, r>>] = m]
    /\ lost' = lost \cup {a}
    /\ UNCHANGED <<dbVars, owing, purging, dirty, batchVars, index>>

\* removeOnComplete, removeOnFail: the retained job is forgotten after a day, a
\* failed one after a week.
Forget(a, r) ==
    /\ mark[<<a, r>>] \in {"completed", "failed"}
    /\ mark' = [mark EXCEPT ![<<a, r>>] = "absent"]
    /\ UNCHANGED <<dbVars, owing, purging, dirty, batchVars, index, lost>>

-----------------------------------------------------------------------------
(* search-index-batch.worker.ts                                            *)

ReadDirty(w) ==
    /\ bpc[w] = "idle" /\ dirty # {}
    /\ ids' = [ids EXCEPT ![w] = dirty]
    /\ bpc' = [bpc EXCEPT ![w] = "drain"]
    /\ UNCHANGED <<dbVars, owing, purging, mark, dirty, todo, built, index, lost>>

\* Mutant of Drain: the ids read are forgotten as soon as the set is gone.
DrainForgets(w) ==
    /\ bpc[w] = "drain"
    /\ dirty' = {}
    /\ bpc' = [bpc EXCEPT ![w] = "idle"] /\ ids' = [ids EXCEPT ![w] = {}]
    /\ UNCHANGED <<dbVars, owing, purging, mark, todo, built, index, lost>>

\* DEL: marks that arrived since SMEMBERS go with it, those another batch has
\* read and not yet deleted excepted.
Drain(w) ==
    /\ bpc[w] = "drain"
    /\ dirty' = {}
    /\ todo' = [todo EXCEPT ![w] = ids[w]]
    /\ bpc' = [bpc EXCEPT ![w] = "build"]
    /\ lost' = lost \cup {a \in dirty : \A v \in Workers : bpc[v] = "drain" => a \notin ids[v]}
    /\ UNCHANGED <<dbVars, owing, purging, mark, ids, built, index>>

\* buildDocsForAsset: no document for an asset that is missing or hidden.
Build(w, a) ==
    /\ bpc[w] = "build" /\ a \in todo[w]
    /\ built' = [built EXCEPT ![w][a] = Content(a)]
    /\ todo' = [todo EXCEPT ![w] = @ \ {a}]
    /\ bpc' = IF todo[w] = {a} THEN [bpc EXCEPT ![w] = "add"] ELSE bpc
    /\ UNCHANGED <<dbVars, owing, purging, mark, dirty, ids, index, lost>>

\* Assets of a batch whose documents have not been written yet.
Unwritten(w) == {a \in ids[w] : bpc[w] = "remove" => built[w][a] = 0}

\* Another batch is still to write another document of the asset that w writes.
Crossed(w, a) ==
    \E v \in Workers \ {w} :
        bpc[v] \in {"build", "add", "remove"} /\ a \in Unwritten(v) \ todo[v] /\ built[v][a] # built[w][a]

\* addDocuments
Add(w) ==
    /\ bpc[w] = "add"
    /\ LET added == {a \in ids[w] : built[w][a] # 0}
       IN /\ index' = [a \in Assets |-> IF a \in added THEN built[w][a] ELSE index[a]]
          /\ lost' = lost \cup {a \in added : Crossed(w, a)}
    /\ bpc' = [bpc EXCEPT ![w] = "remove"]
    /\ UNCHANGED <<dbVars, owing, purging, mark, dirty, ids, todo, built>>

BatchDone(w) ==
    /\ bpc' = [bpc EXCEPT ![w] = "idle"] /\ ids' = [ids EXCEPT ![w] = {}]
    /\ todo' = [todo EXCEPT ![w] = {}]
    /\ built' = [built EXCEPT ![w] = [a \in Assets |-> 0]]

\* Mutant of Remove: documents of assets that are no longer shown stay.
RemoveNothing(w) ==
    /\ bpc[w] = "remove"
    /\ BatchDone(w)
    /\ UNCHANGED <<dbVars, owing, purging, mark, dirty, index, lost>>

\* deleteDocuments
Remove(w) ==
    /\ bpc[w] = "remove"
    /\ index' = [a \in Assets |-> IF a \in Unwritten(w) THEN 0 ELSE index[a]]
    /\ lost' = lost \cup {a \in Unwritten(w) : Crossed(w, a)}
    /\ BatchDone(w)
    /\ UNCHANGED <<dbVars, owing, purging, mark, dirty>>

\* A query or a Meilisearch call throws, or the worker dies.  The retry reads
\* the set again: once it was deleted, what this attempt had read is gone.
BatchFails(w) ==
    /\ bpc[w] # "idle"
    /\ lost' = lost \cup (IF bpc[w] = "drain" THEN ids[w] \ dirty ELSE Unwritten(w))
    /\ BatchDone(w)
    /\ UNCHANGED <<dbVars, owing, purging, mark, dirty, index>>

-----------------------------------------------------------------------------
(* scripts/reindex-search.ts                                               *)

\* The index is deleted and created again; no document is written.
Reindex ==
    /\ index' = [a \in Assets |-> 0]
    /\ lost' = lost \cup {a \in Assets : index[a] # 0}
    /\ UNCHANGED <<dbVars, owing, purging, mark, dirty, batchVars>>

-----------------------------------------------------------------------------
BatchStep(w) ==
    \/ ReadDirty(w) \/ Drain(w) \/ Add(w) \/ Remove(w)
    \/ \E a \in Assets : Build(w, a)

Next ==
    \/ \E a \in Assets, r \in Reasons :
           Commit(a, r) \/ EnqueueSearchIndex(a, r) \/ CrashRequest(a, r)
             \/ MarkDirty(a, r) \/ MarkFails(a, r) \/ Forget(a, r)
    \/ \E a \in Assets : DeleteRow(a) \/ DeleteDocuments(a) \/ DeleteDocumentsFails(a)
    \/ \E w \in Workers : BatchStep(w) \/ BatchFails(w)
    \/ Reindex

Spec == Init /\ [][Next]_vars

-----------------------------------------------------------------------------
(* The same system left in peace: nothing crashes, an asset is edited       *)
(* again only when its last edit has gone through and its job id is free,   *)
(* and no mark lands between the two Redis calls of a drain.                *)

\* Something still on its way will bring the index up to date with a.
Pending(a) ==
    \/ a \in purging \cup dirty
    \/ \E r \in Reasons : <<a, r>> \in owing \/ mark[<<a, r>>] = "waiting"
    \/ \E w \in Workers :
         /\ a \in ids[w]
         /\ \/ bpc[w] = "drain" \/ a \in todo[w]
            \/ bpc[w] # "drain" /\ a \in Unwritten(w) /\ built[w][a] = Content(a)

Calm(a) == ~Pending(a) /\ \A w \in Workers : a \notin ids[w]

CalmNext ==
    \/ \E a \in Assets, r \in Reasons :
           \/ Calm(a) /\ mark[<<a, r>>] = "absent" /\ Commit(a, r)
           \/ (\A w \in Workers : bpc[w] # "drain") /\ MarkDirty(a, r)
           \/ EnqueueSearchIndex(a, r) \/ Forget(a, r)
    \/ \E a \in Assets : Calm(a) /\ DeleteRow(a)
    \/ \E a \in Assets : DeleteDocuments(a)
    \/ \E w \in Workers : BatchStep(w)

\* The queue delivers, the batch job repeats every five seconds, a request
\* handler runs to its end.
Progress ==
    /\ \A a \in Assets, r \in Reasons :
           WF_vars(EnqueueSearchIndex(a, r)) /\ SF_vars(MarkDirty(a, r))
    /\ \A a \in Assets : WF_vars(DeleteDocuments(a))
    /\ \A w \in Workers : WF_vars(BatchStep(w))

CalmSpec == Init /\ [][CalmNext]_vars /\ Progress

-----------------------------------------------------------------------------
(* Properties.                                                             *)

\* Types of the variables.
TypeOK ==
    /\ rev \in [Assets -> 0 .. MaxEdits] /\ life \in [Assets -> {"hidden", "shown", "gone"}]
    /\ owing \subseteq Assets \X Reasons /\ purging \subseteq Assets
    /\ mark \in [Assets \X Reasons -> {"absent", "waiting", "completed", "failed"}]
    /\ dirty \subseteq Assets
    /\ bpc \in [Workers -> {"idle", "drain", "build", "add", "remove"}]
    /\ ids \in [Workers -> SUBSET Assets] /\ todo \in [Workers -> SUBSET Assets]
    /\ built \in [Workers -> [Assets -> 0 .. MaxEdits]]
    /\ index \in [Assets -> 0 .. MaxEdits] /\ lost \subseteq Assets

\* An asset whose document disagrees with Postgres either has an update on its
\* way - owed, queued, marked, or held by a batch - or lost one to a cause the code
\* does not repair: an enqueue that failed or was dropped because the queue still
\* knew the job id, a mark job that failed or was drained, a mark wiped unread, a
\* failed batch, two batches that write one asset, a direct removal that failed or
\* was undone by a batch, the reindex script.
StaleIsExplained == \A a \in Assets : index[a] # Content(a) => Pending(a) \/ a \in lost

\* Left in peace, the index is the mirror of the catalogue that IndexMirror
\* describes: it never shows anything but the current content when it changes,
\* and every edit, hiding or deletion gets there.
Mirror == INSTANCE IndexMirror WITH source <- [a \in Assets |-> Content(a)], mirror <- index
MirrorsCatalogue == Mirror!Spec
=============================================================================
