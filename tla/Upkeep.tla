--------------------------------- MODULE Upkeep ---------------------------------
(***************************************************************************)
(* The nightly accounts.  The book of downloads: raw rows of each day, a     *)
(* row per asset and day written the day after, totals, and the trimming of  *)
(* the raw rows, all by one job; what analytics reads of them                *)
(* (analytics-rollup.worker.ts, analytics.service.ts).  The book of storage: *)
(* a walk over the objects of the assets' bucket that writes the bytes of    *)
(* each asset and of each owner (storage-rollup.worker.ts).                  *)
(*                                                                         *)
(* Each queue runs one job at a time; a job that fails or dies is begun      *)
(* again, the same day or later.  The other buckets, saves, countries and    *)
(* the last 7 and 30 days are counted like the rest and left out.            *)
(***************************************************************************)
EXTENDS Naturals, FiniteSets, FiniteSetsExt

CONSTANTS
    Goods, Owners, Owner,   \* assets; users; whose each asset is
    Retention,              \* DOWNLOAD_RAW_RETENTION_DAYS
    NoRow,
    LastDay, MaxDownloads, MaxObjects, MaxWalks     \* bounds

ASSUME UpkeepAssumption ==
    /\ IsFiniteSet(Goods) /\ IsFiniteSet(Owners)
    /\ Owner \in [Goods -> Owners] /\ Retention \in Nat \ {0} /\ NoRow \notin Nat
    /\ LastDay \in Nat /\ MaxDownloads \in Nat /\ MaxObjects \in Nat /\ MaxWalks \in Nat

VARIABLES
    book,           \* which book is kept: "downloads" or "storage"
    day, goods,     \* today; the assets there are
    raw,            \* Download: rows of each asset and day
    daily, total,   \* DownloadDaily.count, AssetStats.totalDownloads
    rollup,         \* the job: its step, the day it began, what it has queried
    ever,           \* history: downloads of each asset and day
    covered,        \* history: days whose daily rows a job has written
    high, thinned,  \* history: the highest total shown; assets whose raw rows were trimmed
    object,         \* objects of each asset
    walk,           \* the walk: its step, the assets it knows, those listed, what it sums
    ofAsset, ofOwner,   \* StorageAssetDaily, StorageUserDaily of the day
    walks, strays       \* history: walks begun; objects listed whose asset the walk did not know

Days == 0 .. LastDay
downloadVars == <<raw, daily, total, rollup, ever, covered, high, thinned>>
storageVars == <<object, walk, ofAsset, ofOwner, walks, strays>>
upkeepVars == <<book, day, goods, downloadVars, storageVars>>

Total(f, S) == MapThenSumSet(LAMBDA x : f[x], S)
NoRollup == [at |-> "idle", began |-> 0, found |-> [g \in Goods |-> 0], left |-> {}]
NoWalk == [at |-> "idle", knows |-> {}, left |-> {}, sum |-> [g \in Goods |-> 0], user |-> [u \in Owners |-> 0]]

UpkeepInit ==
    /\ book \in {"downloads", "storage"} /\ day = 0 /\ goods = Goods
    /\ raw = [g \in Goods |-> [d \in Days |-> 0]] /\ ever = raw
    /\ daily = [g \in Goods |-> [d \in Days |-> NoRow]] /\ total = [g \in Goods |-> NoRow]
    /\ rollup = NoRollup /\ covered = {} /\ high = [g \in Goods |-> 0] /\ thinned = {}
    /\ object = [g \in Goods |-> 0] /\ walk = NoWalk
    /\ ofAsset = [g \in Goods |-> NoRow] /\ ofOwner = [u \in Owners |-> NoRow]
    /\ walks = 0 /\ strays = FALSE

-----------------------------------------------------------------------------
(* The book of downloads                                                   *)

\* DownloadsService: a row per download (module Delivery).
Download(g) ==
    /\ g \in goods /\ Total([h \in Goods |-> Total(ever[h], Days)], Goods) < MaxDownloads
    /\ raw' = [raw EXCEPT ![g][day] = @ + 1] /\ ever' = [ever EXCEPT ![g][day] = @ + 1]
    /\ UNCHANGED <<day, goods, daily, total, rollup, covered, high, thinned>>

NextDay == day < LastDay /\ day' = day + 1 /\ UNCHANGED <<goods, downloadVars>>

\* The archive's purge: downloads keep their asset, everything else goes with it.
PurgeGood(g) ==
    /\ g \in goods /\ \A d \in Days : raw[g][d] = 0
    /\ goods' = goods \ {g}
    /\ daily' = [daily EXCEPT ![g] = [d \in Days |-> NoRow]] /\ total' = [total EXCEPT ![g] = NoRow]
    /\ high' = [high EXCEPT ![g] = 0]
    /\ UNCHANGED <<day, raw, rollup, ever, covered, thinned>>

\* Mutant of DayRows: the query has no upper bound.
DayRowsOpen(d) == [g \in Goods |-> Total(raw[g], d .. LastDay)]

\* The raw rows of one day, by asset.
DayRows(d) == [g \in Goods |-> raw[g][d]]

\* The day before the one on which the job began; a query that fails finds nothing.
QueryDay ==
    /\ rollup.at = "idle" /\ day > 0
    /\ \/ rollup' = [at |-> "daily", began |-> day, found |-> DayRows(day - 1),
                     left |-> {g \in Goods : DayRows(day - 1)[g] > 0}]
       \/ rollup' = [NoRollup EXCEPT !.at = "queried", !.began = day]
    /\ UNCHANGED <<day, goods, raw, daily, total, ever, covered, high, thinned>>

WriteDay(g) ==
    /\ rollup.at = "daily" /\ g \in rollup.left
    /\ daily' = [daily EXCEPT ![g][rollup.began - 1] = rollup.found[g]]
    /\ rollup' = [rollup EXCEPT !.left = @ \ {g}]
    /\ UNCHANGED <<day, goods, raw, total, ever, covered, high, thinned>>

DayWritten ==
    /\ rollup.at = "daily" /\ rollup.left = {}
    /\ rollup' = [rollup EXCEPT !.at = "queried"] /\ covered' = covered \cup {rollup.began - 1}
    /\ UNCHANGED <<day, goods, raw, daily, total, ever, high, thinned>>

\* All raw rows of each asset.
TotalRows == [g \in Goods |-> Total(raw[g], Days)]

QueryTotals ==
    /\ rollup.at = "queried"
    /\ rollup' = [rollup EXCEPT !.at = "totals", !.found = TotalRows, !.left = goods]
    /\ UNCHANGED <<day, goods, raw, daily, total, ever, covered, high, thinned>>

\* A purged asset has no place for its total: the job fails, before the trimming.
WriteTotal(g) ==
    /\ rollup.at = "totals" /\ g \in rollup.left
    /\ IF g \in goods
       THEN /\ total' = [total EXCEPT ![g] = rollup.found[g]]
            /\ high' = [high EXCEPT ![g] = IF @ < rollup.found[g] THEN rollup.found[g] ELSE @]
            /\ rollup' = [rollup EXCEPT !.left = @ \ {g}]
       ELSE rollup' = NoRollup /\ UNCHANGED <<total, high>>
    /\ UNCHANGED <<day, goods, raw, daily, ever, covered, thinned>>

\* Rows older than the retention, counted back from the hour: of the day it falls on, some.
Trim ==
    /\ rollup.at = "totals" /\ rollup.left = {}
    /\ \E now \in BOOLEAN :
           raw' = [g \in Goods |-> [d \in Days |->
                     IF d + Retention < day \/ (now /\ d + Retention = day) THEN 0 ELSE raw[g][d]]]
    /\ thinned' = thinned \cup {g \in Goods : raw'[g] # raw[g]}
    /\ rollup' = NoRollup
    /\ UNCHANGED <<day, goods, daily, total, ever, covered, high>>

\* The process exits, or a statement fails; the attempts of the day may be used up.
RollupDies ==
    /\ rollup.at # "idle" /\ rollup' = NoRollup
    /\ UNCHANGED <<day, goods, raw, daily, total, ever, covered, high, thinned>>

\* The charts of an asset, of an owner's assets that are PUBLISHED or ARCHIVED (shown) when
\* he looks, and of the platform (assetDetail, mySummary, platform), which counts drafts and
\* deleted assets too.
ChartOfAsset(g, d) == IF daily[g][d] = NoRow THEN 0 ELSE daily[g][d]
Chart(d) == [g \in Goods |-> ChartOfAsset(g, d)]
MyChart(u, d, shown) == Total(Chart(d), {g \in shown : Owner[g] = u})
PlatformOf(d, some) == Total([g \in Goods |-> raw[g][d]], some)
Platform(d) == PlatformOf(d, Goods)

DownloadsNext ==
    \/ \E g \in Goods : Download(g) \/ PurgeGood(g) \/ WriteDay(g) \/ WriteTotal(g)
    \/ NextDay \/ QueryDay \/ DayWritten \/ QueryTotals \/ Trim \/ RollupDies

-----------------------------------------------------------------------------
(* The book of storage                                                     *)

\* A new asset: some assets come to be while the walk runs.
HideGood(g) ==
    /\ walks = 0 /\ g \in goods /\ object[g] = 0 /\ goods' = goods \ {g}
    /\ UNCHANGED <<day, storageVars>>
CreateGood(g) == g \notin goods /\ object[g] = 0 /\ goods' = goods \cup {g} /\ UNCHANGED <<day, storageVars>>

PutObject(g) ==
    /\ g \in goods /\ object[g] < MaxObjects /\ object' = [object EXCEPT ![g] = @ + 1]
    /\ UNCHANGED <<day, goods, walk, ofAsset, ofOwner, walks, strays>>
DropObjects(g) ==
    /\ object[g] > 0 /\ object' = [object EXCEPT ![g] = 0]
    /\ UNCHANGED <<day, goods, walk, ofAsset, ofOwner, walks, strays>>

\* The owners are read first.
ReadOwners ==
    /\ walk.at = "idle" /\ walks < MaxWalks
    /\ walk' = [NoWalk EXCEPT !.at = "listing", !.knows = goods, !.left = Goods]
    /\ walks' = walks + 1
    /\ UNCHANGED <<day, goods, object, ofAsset, ofOwner, strays>>

AddBytes(user, g) == [user EXCEPT ![Owner[g]] = @ + object[g]]

\* The objects of one asset, all under its prefix; an asset it does not know has no owner.
ListGood(g) ==
    /\ walk.at = "listing" /\ g \in walk.left
    /\ walk' = [walk EXCEPT !.left = @ \ {g}, !.sum[g] = object[g],
                            !.user = IF g \in walk.knows THEN AddBytes(@, g) ELSE @]
    /\ strays' = (strays \/ (object[g] > 0 /\ g \notin walk.knows))
    /\ UNCHANGED <<day, goods, object, ofAsset, ofOwner, walks>>

\* Only what it has seen is written, row by row: first the owners, then the assets.
WriteOwner(u) ==
    /\ walk.at = "listing" /\ walk.left = {} /\ walk.user[u] > 0
    /\ ofOwner' = [ofOwner EXCEPT ![u] = walk.user[u]]
    /\ walk' = [walk EXCEPT !.user[u] = 0]
    /\ UNCHANGED <<day, goods, object, ofAsset, walks, strays>>
WriteAsset(g) ==
    /\ walk.at = "listing" /\ walk.left = {} /\ walk.sum[g] > 0 /\ \A u \in Owners : walk.user[u] = 0
    /\ ofAsset' = [ofAsset EXCEPT ![g] = walk.sum[g]]
    /\ walk' = [walk EXCEPT !.sum[g] = 0]
    /\ UNCHANGED <<day, goods, object, ofOwner, walks, strays>>
Walked ==
    /\ walk.at = "listing" /\ walk.left = {}
    /\ \A u \in Owners : walk.user[u] = 0 /\ \A g \in Goods : walk.sum[g] = 0
    /\ walk' = [NoWalk EXCEPT !.at = "done"]
    /\ UNCHANGED <<day, goods, object, ofAsset, ofOwner, walks, strays>>

\* Begun again the same day: the day's goods stay, a new walk writes over them.
WalkAgain ==
    /\ walk.at # "idle" /\ walks < MaxWalks /\ walk' = NoWalk
    /\ UNCHANGED <<day, goods, object, ofAsset, ofOwner, walks, strays>>

StorageNext ==
    \/ \E g \in Goods : HideGood(g) \/ CreateGood(g) \/ PutObject(g) \/ DropObjects(g) \/ ListGood(g) \/ WriteAsset(g)
    \/ \E u \in Owners : WriteOwner(u)
    \/ ReadOwners \/ Walked \/ WalkAgain

UpkeepNext ==
    \/ book = "downloads" /\ DownloadsNext /\ UNCHANGED <<book, storageVars>>
    \/ book = "storage" /\ StorageNext /\ UNCHANGED <<book, downloadVars>>

UpkeepSpec == UpkeepInit /\ [][UpkeepNext]_upkeepVars

-----------------------------------------------------------------------------
(* Properties.                                                             *)

\* A finished day that a rollup has covered is charted in full, for each asset and - of the
\* assets shown, whatever the status of the others - for the owners as for the platform,
\* whatever is counted or repeated later (with raw rows kept for two days or more); a day on
\* whose morrow no rollup got past its query is lost for good.
DaysExplained ==
    Retention > 1 => \A d \in covered :
        /\ \A g \in goods : ChartOfAsset(g, d) = ever[g][d]
        /\ (\A g \in Goods : raw[g] = ever[g]) => \A shown \in SUBSET goods :
              /\ Total([u \in Owners |-> MyChart(u, d, shown)], Owners) = PlatformOf(d, shown)
              /\ shown = goods => PlatformOf(d, shown) = Platform(d)

\* A total falls only once raw rows were trimmed.
TotalsFallByTrim ==
    \A g \in goods : total[g] # NoRow => total[g] = high[g] \/ g \in thinned

\* After the day's only walk an owner's bytes are those of his assets, unless objects of
\* an asset were listed that was not there when the owners were read.
StorageBalances ==
    walk.at = "done" /\ walks = 1 /\ ~strays =>
        \A u \in Owners : LET mine == {g \in Goods : Owner[g] = u /\ ofAsset[g] # NoRow}
                         IN IF ofOwner[u] = NoRow THEN mine = {} ELSE ofOwner[u] = Total(ofAsset, mine)

BooksExplained == DaysExplained /\ TotalsFallByTrim /\ StorageBalances
=============================================================================
