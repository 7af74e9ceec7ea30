# Verification project for the MGM asset library backend

TLA+ models of the backend under `src/` (NestJS, TypeScript): what its API
replicas, its BullMQ workers and its crons do to the state they share, checked
with TLC on small instances and, where marked, proved with TLAPS for every value
of the constants. `PROJECT.json` lists the runs, the source lines each
definition stands for, the hazards and the findings.

## 1. The system

One image is started in two roles. **API replicas** answer HTTP and WebSocket
requests and only enqueue work; **workers** register the BullMQ processors and
the crons. Replicas keep no state of their own except open sockets. Everything
else lives in five stores that no transaction spans:

| store | what it keeps | written by |
| --- | --- | --- |
| Postgres (Prisma, READ COMMITTED) | users, assets, versions, files, library, comments, requests, featured slots, audit, aggregates | API and workers |
| Redis | BullMQ queues, analysis fan-in counters, the dirty set of the search index, upload handles, idempotency records, rate-limit windows, caches, `ws:fanout` | API and workers |
| MongoDB | analysis reports, webhook deliveries | workers |
| S3 | uploaded files, thumbnails, editor media, derived GLBs | clients (presigned) and workers |
| Meilisearch | one document per asset and locale, tags | batch indexer, purge |

The behaviour that is hard to get right is what happens *between* awaited calls:
every handler is a sequence of reads and writes against several stores, run by
several processes, retried by the queue, and cut off by crashes.

### Components

"Module" names the TLA+ module.

| component | state | operations | interacts with | hard part | what makes it correct | module |
| --- | --- | --- | --- | --- | --- | --- |
| Analysis pipeline (`files`, `versions.reanalyze`, `analyze*.worker`) | file rows, upload handles, fan-in counter, two job queues, `analysisStatus` | initiate / complete / abort upload, delete file, reanalyze, analyze file, roll up, convert | queue, search index, conversion | counter and queue are updated in separate calls, each of which may throw; failed attempts are retried; a conversion writes back metadata it read before | the last file's analysis reaches the rollup; outcomes are recorded | `AnalysisPipeline` |
| Versions and totals (`versions`, `files`, rollup) | `isLatest`, `fileCount`, `bytesTotal` | create, publish, upload, abort, delete, recount | asset lifecycle, pipeline | two-statement swap under READ COMMITTED; read-then-write recount | one latest version; totals describe the rows | `Versions` |
| Asset lifecycle (`assets`, `admin/assets-moderation`, `archive-purge`) | `status`, `archivedAt`, S3 objects, dependent rows | create, publish, archive, soft-delete, restore, force-delete, purge | S3, reports, downloads, search | objects go before the row; the purge works from a list read earlier; foreign keys | the purge clock is honest; history keeps its asset; one stuck candidate blocks no other | `AssetLifecycle` |
| Reports, downloads | report status, Download rows | create, review, action, dismiss; download | asset lifecycle | action and status are two writes; an insert races a removal | an action is completed unless a call of its own fails; history has its subject | `AssetLifecycle` |
| Search index (`search-index*.worker`, `scripts/reindex-search`) | mark jobs, dirty set, index documents | mark dirty, batch (one per worker process), remove, wipe | everything that edits an asset | set is read and cleared in two calls; job ids dedupe for a day, failed ones for a week; two workers write one asset | the index catches up with Postgres, or the loss has a named cause | `SearchIndex`, `IndexMirror` |
| Notifications (`notify.worker`, `webhook.worker`) | in-app rows, delivery log | fan out over four channels, POST, log | WS, mail, n8n | retry repeats finished channels; the answer or the log write is lost | a failing channel loses no other; the log tells the truth | `Delivery` |
| WebSocket gateway (`ws`) | registry of sockets per user | connect, pong, tick, close, fan-out | notify | auth is awaited before registration | dead sockets leave | `Delivery` |
| Featured slots and Discover page (`featured`, `discover`) | active flag, unique sort order, cached page | create, update, remove, reorder; get | assets | count-then-insert, two-pass reorder under a unique index, late fill | the cap is exceeded by races alone and boundedly; a stale page is explained | `Featured` |
| Admin roster and guards (`admin-users`, `principal-resolver`, `admin.guard`) | `isAdmin`, 30 s principal cache | promote, demote, resolve | every guarded request | count-then-update; cache refilled from an old read | an admin remains; a wrong cached role is explained | `Access` |
| Asset editing and slugs (`assets` create and update) | fields of the row, latest semver, prefix | create, update | lifecycle, search, files | locks are decided from an earlier read | published slugs, engines and semvers stay | `Editing` |
| Files and their objects (`files`, S3) | file rows, keys, objects, presigned URLs | initiate, PUT, complete, delete; semver edit; purge and forced deletion of the asset | versions, pipeline, lifecycle | a key is given once, prefixes change; URLs outlive rows; objects go before rows that may stay | a completed file has its own bytes | `FileStore` |
| Uploads in parts (`files`, S3) | row, handle, S3's upload and parts | initiate, sign, complete, abort, delete | pipeline | five calls, any of which may be the last; some failures are swallowed | the size is the object's; nothing is left behind | `Multipart` |
| Order of the files (`files`) | `sortOrder` | count and create, reorder, delete | - | count, then create; a reorder ranks by the list as sent | a new file comes last | `FileOrder` |
| Compatibility (`versions`) | `EngineCompatibility` rows | replace | search | two overlapping replacements | one matrix per version | `Compatibility` |
| Idempotency, rate limit, plugin tokens (guards) | record per key, counter per window, token rows | lookup and store; INCR and EXPIRE; exchange, refresh, revoke | every guarded request | two calls each, with anything in between | one key, one effect; no window too many; no dead token enters | `Gate` |
| Categories, licenses and their cached lists (admin) | rows, cached lists | create, update, reorder, remove, seed; get-or-fetch; edit, publish, move of assets | assets, search | read-merge-write; count-then-delete; late fill; an update enqueues 5000 assets at most; the seed drops no cache | what an admin asked for stands; staleness is explained | `Catalogue` |
| Tags (admin) | tags, links | rename, merge, remove; authors' edits | search | a merge's statements each see another state, and rows an insert skips are not locked | links follow the merges; touched documents are marked | `Tags` |
| Comments, requests, reports as filed | comment tree, request and issue status, report row, notices | create, delete, set status, decide, file | notifications | deletions race replies; notices follow writes | threads are whole; notices tell how things stand | `Community` |
| Lists by cursor (assets, library, inbox, users, ...) | none; the client's cursor | page | everything listed | rows come, go and move between pages | each row is shown once | `Listing` |
| Search, lists, pages and downloads of assets | none; the index's filterable attributes | query | search index, lifecycle | one question, four implementations | they agree, and what is found opens | `Reading` |
| Rows of Discover (`discover.service`) | none; two queries apart | build | featured | ids and assets are read apart, cards dealt by position | a row shows its category's newest | `DiscoverRows` |
| Thumbnails and conversion | thumbnail keys, `meta.webViewerGlb`, variants | analyze, convert, render, variants | pipeline | meta is read before and written after a long conversion; fixed names | the right source's picture shows | `Previews` |
| Analytics and storage rollups | `DownloadDaily`, `AssetStats`, storage tables | nightly jobs, charts | downloads, S3 | counted from rows that are trimmed; repeats | every covered day is charted in full | `Upkeep` |
| Audit trail (`audit`, interceptor, purge) | `AuditLog` | record, note, purge | admin handlers | the row is the last of several writes | the trail tells what was done | `AuditTrail` |
| TipTap validation, editor-media references, kinds, manifest | none (pure) | validate, collect, detect, build | comments, pipeline | recursion, boundaries | agree with their definition | `Documents` |
| Extractors, GIF proxy, dashboards, mails, store clients, controllers, other scripts | none of their own | - | - | - | - | out of scope (section 6) |
## 2. Plan

Most important first: what every asset goes through (upload, analysis, release,
life and end, search), then what tells people about it, then the administration
around it.

| module | models | abstract specification or composition | state |
| --- | --- | --- | --- |
| `AnalysisPipeline` | upload to READY of one version | - | done, 3 theorems |
| `Previews`, `AuditTrail`, `Upkeep` | what follows an analysis, a change, a day | checked with `AnalysisPipeline` | done, 1 theorem each |
| `SearchIndex`, `IndexMirror` | an edit's way to Meilisearch | implements `IndexMirror` when left in peace | done, 3 theorems, one of them the refinement's steps |
| `Tags`, `Reading`, `DiscoverRows` | tags, and all ways to find an asset | checked with `SearchIndex` | done, 1 theorem each |
| `AssetLifecycle` | life of assets, downloads, reports, purge | - | done, 4 theorems |
| `Editing`, `Documents` | create and update; trees built or walked | checked with `AssetLifecycle` | done, 1 theorem of `Editing` |
| `Versions` | release and totals of one asset | - | done, 3 theorems |
| `FileStore`, `Multipart`, `FileOrder`, `Compatibility` | what a version is made of | checked with `Versions` | done, 1 theorem each |
| `Delivery` | notify job to inbox, socket, webhook | - | done, 4 theorems |
| `Community`, `Listing` | comments, requests, reports, lists by cursor | checked with `Delivery` | done, 2 and 1 theorems |
| `Featured` | slots, cap, reorder, cached page | - | done, 4 theorems |
| `Access` | who is an admin, and who is taken for one | - | done, 3 theorems |
| `Gate`, `Catalogue` | guards, tables admins keep | checked with `Access` | done, 2 and 1 theorems |

The plan is done. `ContentsKept` of `Documents` (recursive operators) and
everything under fairness stay with TLC.

## 3. How the modules correspond to the code

Common to all of them. **One action is one awaited call** (a Prisma query, a
transaction, a Redis command, an S3 request, a queue add); the code between two
awaits runs with the call before it. A request or a job is a *step* it is at
(`pc`, `at`) or a list of steps still to take (`todo`); Node runs each process
single-threaded, so that the interleavings are exactly those at an await. A
call that throws ends the handler where the code has no catch. BullMQ, S3,
Meilisearch and the end of a process are external: they are modelled from how
the code uses them and marked so in `PROJECT.json`. Variables named *history*
in a module are read by properties and guards of no action.

**`AnalysisPipeline`** - one version. `row`, `handle`, `meta`, `status` are
Postgres and the upload handle in Redis, `counter` the fan-in key, `job`/`rjob`
the two queues with their retained ids, `at`/`rat` the workers, `pc`/`arg`/`todo`
the API requests. The worker's three Redis/queue calls after an analysis are
`Decrement`, `ClearCounter`, `EnqueueRollup`; what an extractor finds is one of
report and error; `StepThrows` is any of these calls that throws. A conversion
(`EnqueueConvert`, `ConvertReads`, `ConvertWrites`, `ConvertEnds`) keeps in `taken`
the metadata it read and writes them back whole. `UploadNext` is the sub-system in which files are uploaded
once and kept.

**`SearchIndex`** - `rev`/`life` of each asset, the mark jobs `mark` by id, with
those that failed and are retained (`MarkFails`, `Forget`), the set `dirty`, each
batch worker's local variables `ids`/`todo`/`built`, and `index`. `Commit` and
`EnqueueSearchIndex` are the two calls of every editing handler; `ReadDirty`,
`Drain`, `Build`, `Add`, `Remove` are a batch; concurrency 1 holds per process,
and there may be several (`docs/RUNBOOK.md:19-22`). `Reindex` is
`scripts/reindex-search.ts`, which deletes the index and refills nothing. `lost`
records each loss the code does not repair: `Crossed` says when two batches write
one asset.

**`AssetLifecycle`** - `Plan` gives each operation its list of steps; a step is
an action (`Evaluate`, `Announce`, `Publish`, `Withdraw`, `Restore`, `DeleteObjects`,
`DeleteRow`, `Download`, `File`, `SetReport`, ...), and any of them may throw (`Fault`). The purge worker has its own
program counter `purge` with the candidates `left`. `archivedAt` is null, recent
or old against ARCHIVE_PURGE_DAYS; `since` is the history it should agree with.

**`Versions`** - `latest`, `row`, `handle`, `total`, and per request the row
locks `lock` its transaction holds. `SelectLatest`, `ClearLatest`, `Flip` are
the statements of the publish transaction at READ COMMITTED: a statement sees
what is committed when it starts, waits for locked rows and looks at those
again. `Tally` and `WriteTotals` are the two halves of `recountVersion`.

**`Delivery`** - one user. `job` and `leg` are the notify job and its four
channels, `hook`, `taken`, `logged` the webhook job, the endpoint and the
delivery log, `wire` the messages on their way to each replica, `link`,
`login`, `registered`, `alive`, `age` the sockets. `Tick` is the heartbeat.

**`Featured`** - `row`, `place`, `active` are the table with its two unique
indexes, a request keeps what it will write in `turnOn`/`to`/`list`. The
updates of reorder's transaction are the sequence `Statements`; `Trips` looks at
the unique index after every one of them, as Postgres does. Since these updates
lock the rows they park, the transaction is one action. `page` is the cached
Discover page, one visitor's fill is `Miss`, `ReadSlots`, `StorePage`; `torn`
records why a stale page may stay.

**`Access`** - a user stands for an email and a Keycloak subject. `account` says
whether the `User` row is absent, carries the seed script's placeholder or the
user's own subject; `boot` is whom `ADMIN_BOOTSTRAP_EMAIL` names, if anyone;
`admins` the rows with `isAdmin`; `cache` the principals in Redis. A request
passes the guard (`GetPrincipal`, or `MissPrincipal`, `Upsert`, `Fill`) and then
promotes or demotes (`FindTarget`, `CountAdmins`, `SetAdmin`, `DropPrincipal`).
`SignIn` and `Seed` are the other writers. Two histories: `overtaken`, the
demotions in whose count-to-write gap another one was written, and `torn`, the
users whose wrong cached principal only the 30 s TTL will mend.

**`Gate`** - `req` holds each request's kind and step. A guard or handler that
makes two calls is two actions: `Count` and `SetTtl` of the rate limit, the read
and the write of each token operation, `Lookup`, `Create` and `Store` of an
idempotency record. `window` moves on; `ttl` says which counters will go with it.

**`Catalogue`** - `shelf` chooses the table. `desk` is an admin's request (or an
author's, who moves or publishes an asset: `ReadAsset`, `MoveAsset`, `Flip`,
`Enqueue`, where an edit enqueues by the status it had read) with the fields it
has read and will write back, `fill` a reader's request that missed the cache,
`copy` the cached list per locale. `Reindex` enqueues at most `ReindexLimit`
assets (`take: 5000`), `SeedRow` is the seed script. `given`, `undone`,
`tainted`, `owed`, `lost` are the histories the property needs.

**`Community`** - `comment`, `wish`, `complaint` are the rows, `errand` the
requests in flight: write first, `Announce` afterwards. `Listed` is the recursive
query with its own depth cap. An asset's removal takes its comments along and is
held up by a report.

**`Listing`** - `list` is one of eleven lists, described by what may happen to a
row (`events`) and to its place (`moves`). `ReadPage` is `findMany` with a
cursor, `skip: 1` and `limit + 1`; the webhook attempts are paged by time.

**`Tags`** - each statement of a merge's transaction is an action; it sees what
is committed when it begins, while row locks hold off deletions: those of the
links it inserted (`added`), since `ON CONFLICT DO NOTHING` takes no foreign-key
lock for a row it skips. `wanted` is what authors made, as merges renamed it.

**`Reading`** - a state is one asset and one question; `Read` answers it by
every way the API has: `ListFromPostgres` (`buildWhere`), `SearchAssets`
(`buildFilter` over `BuildDocs`), recommendation, library, page, download.
`StartIndexer` overwrites the index's filterable attributes.

**`DiscoverRows`** - `RankRows` and `FillRows` are the two queries of
`buildRows`; `Deal` deals the cards out by position, the number of places (or of
cards) up to one, rather than through the flat list. A card is a number, the
higher the newer.

**`Editing`** - `edit` is a request with what it saw; its transaction
(`WriteEdit`) reads only the latest version again. Publication, archiving and
restoration are one step each here; their own interleavings are in
`AssetLifecycle`.

**`FileStore`, `Multipart`, `FileOrder`, `Compatibility`** - `FileStore`: a key
is a prefix and a path; `object` says whose PUT stands under each; `newest` is the
version that has isLatest, which an edit of the semver finds (`FindLatest`) and
renames (`SetPrefix`). A purge or forced deletion lists and deletes page by page
(`ListObjects`, `DeleteObjects`), and then the rows go, or stay (`DropTidy`).
`Multipart`: one upload of `PartCount` parts, and `call`, the requests that
complete, abort or delete it step by step; `swallowed` says that S3 failed and
the handler went on. `FileOrder`: `counted` is what an initiation read, `sorting`
the files a reordering read and the list it was sent, unknown and repeated ids
included (`padded`: that list was longer than the files were many).
`Compatibility`: `setting` is a transaction of
DELETE and INSERT at READ COMMITTED.

**`Previews`** - `part` chooses the models or the thumbnails; `convert`,
`render`, `vary` are jobs, one per id while it is retained; `snap` is the
metadata a conversion read.

**`Upkeep`** - `book` chooses the accounts: `raw`, `daily`, `total` with the
`rollup` job, or `object` with the `walk`. Days are numbers; a job that is
repeated may find that the day has changed.

**`AuditTrail`** - `request` is an admin's request: read, update, reindexing,
row of its own, answer; `noted` the interceptor's row that nobody awaits.

**`Documents`** - documents of a few nodes and marks and lists of a few paths;
storing a document and sending it again are steps.

### Composition

Components that share state are composed in one module: the pipeline with its
queue, counter, API requests and workers; the index with the set, the jobs and
the batch; lifecycle, reports, downloads and purge; delivery with jobs, endpoint
and sockets. Components that share none are checked side by side: an
`MC...Scenes` module extends several of them, and each behaviour plays one
(`scene`). Each property is about one component and defined in its module. Some
constants of different components get the same model values, so that one small
symmetry group serves all; the components never see each other's.

## 4. What the runs check

Distinct states in the last column; times are between 5 s and 200 s with two
workers.

| run | shows | instance, distinct states |
| --- | --- | --- |
| `AnalysisPipeline` | `TypeOK`; `OutcomeRecorded`: whatever is retried, reanalyzed, deleted or stalled, a completed job left the report and an exhausted one the error, but for a conversion that wrote older metadata back and for calls that throw in the last attempt. `PreviewsExplained`: metadata are of the last analysis, the automatic thumbnail shows the largest GLB, variants the thumbnail set last. `BooksExplained`: covered days are charted in full, totals fall by trimming alone, owners' bytes add up. `TrailExplained`: the audit trail tells every answered change and no other | 1 file with a conversion, 2 requests, 2 attempts, 1 stall, 1 reanalysis, 1 fault; 3 models, 2 thumbnails; 2 assets over 3 days; 2 admins over 2 days; 3,174,430 |
| `AnalysisUploads` | `FanInCovered`: the counter never exceeds the decrements still owed; `LeavesPending`: a version with scheduled files leaves PENDING | 2 files, 2 requests, 2 attempts, 2 faults; 51,516 |
| `SearchIndex` | `StaleIsExplained`: an index document that differs from Postgres has an update on its way or one of the losses named, with two batch workers. `TagsExplained`: links follow the merges, touched documents are marked. `AnswersAgree`: search and list find the same, and it opens; cards agree. `RowsExplained`: Discover's rows are what was ranked | 2 assets, 2 reasons, 2 batch workers, 2 edits; 2 admins, 2 tags; every query over one asset with up to two versions; 3 assets in 2 rows; 1,702,727 |
| `SearchIndexCalm` | `MirrorsCatalogue`: without failures and with edits far enough apart, `SearchIndex` implements `IndexMirror` | 2 assets, 3 reasons, 2 batch workers, 2 edits; 167,479 |
| `Lifecycle` | `TypeOK`, `ClockHonest`, `HistoryHasSubject`, `ReportActionCompletes` under any two operations, the purge and a fault (a crash, a call that throws, an S3 failure). `EditsExplained`: locked fields stay, changes are enqueued. `ContentsKept`: stored documents are clean and stay, the collector finds what they show, the manifest is whole | 1 asset, 2 insiders, all operations; 1 edited asset, 2 requests; documents of some 20 leaves, 3 files; 1,269,848 |
| `LifecyclePurge` | `PurgeProceeds`: a due asset goes although another candidate fails every day | 2 assets, 1 insider and 1 visitor who archive, restore, download and report (`PurgeNext`), 1 fault; 600,791 |
| `LifecyclePurgeBlocked` | finding: the row of a downloaded asset survives the purge of its objects | 1 asset |
| `Versions` | `OneLatest`, `TotalsExplained`. `FilesExplained`: a completed file has its own bytes. `PartsExplained`: and all of its parts. `AppendsExplained`: new files come last. `MatrixExplained`: one matrix stands | 2 versions, 2 files, 2 requests, 1 crash; 2 uploads under 2 prefixes, 1 deletion or purge; 2 parts, 2 requests; 1 reordering by at most 2 ids, 3 files; 3 matrices; 2,021,572 |
| `Delivery` | `InboxExplained`, `LogTellsTruth`, `GoneSoon`. `ThreadsComplete`, `NoticesExplained`: comments, requests and reports. `WalkExplained`: eleven lists | 1 notification, 4 channels, 1 replica, 1 socket, 2 attempts, 1 stall, 1 crash; 2 requests, 2 comments; 3 rows, pages of one; 1,681,865 |
| `Featured` | `ActiveBounded`, `PageExplained`, `FullReorderLands` | 3 slots, 2 requests, 1 visitor, cap 1, 1 fault; 2,175,368 |
| `Access` | `TypeOK`, `AdminsRemain`: the bootstrap admin is never demoted, and the last admin goes only when two demotions overlap; `PrincipalExplained`. `EntryHolds`, `OneEffectPerKey`: the guards. `CatalogueExplained`: what admins make of categories and licenses stands and reaches lists and index | 2 users, any rows and bootstrap admin to begin with, 2 requests, 1 fault; limit 2, 2 windows, 1 token, 2 bodies; 1 row, 2 fields, 2 assets of which an update enqueues 1, 2 locales; 1,572,294 |
| `AccessSeeded` | finding: the admin the seed script created cannot sign in | 1 user, 1 request |

`TypeOK` is checked where it costs little beside the rest of a run; of
`SearchIndex`, `Versions`, `Delivery` and `Featured` it is proved (section 5).

Every property of a passing run is broken by a plausible bug in the code it is
about: the mutants of `PROJECT.json`, written next to the definitions they
change.

**Bounds, and why they are enough.** Two actors are enough for a race, and the
conflicts modelled are between pairs (two requests, a request and a worker, a
fill and a write). Two attempts are a first and a last one, which is all the
code distinguishes. One stall is BullMQ's default. The cap of `Featured` is one
instead of five because only reaching and passing it matters; three slots are
two over it. One file suffices for `AnalysisPipeline` since `OutcomeRecorded`
is about one file, and two are needed for the fan-in. One user and one
notification suffice for `Delivery`: registries, jobs and log rows of different
ones never meet. Two users suffice for `Access`: a demotion is about its caller
and its target. Two uploads suffice for `FileStore`: they share a key by
their path or by a prefix that another version took over, and a deletion, purge
or semver edit falls between their steps. Two assets and a limit of one instead
of 5000 are a category with more assets than an update enqueues. Two batch
workers run at once over one asset, since they meet nowhere else; over two
assets one batch runs at a time (`Narrow` in `MCSearchScenes`). Three matrices are two that
overlap and the one they replace. Three rows and pages of one make a walk of
three pages, with a row on each side of the cursor. Three models are one larger
than each of the others. Three days with a retention of two are the first on
which raw rows are trimmed and one before it. One asset suffices for `Editing`,
whose requests meet only over one (the branch in which another asset takes the
slug between check and commit is the unique index's error, and is the one
disjunct that this bound leaves out). One Idempotency-Key, one category row, one
token suffice where different ones share nothing. `Typed`, `MaxEdits`,
`MaxCrashes`, `MaxFaults`, `MaxReanalyses`, `MaxDeaths`, `MaxLapses`, `MaxAborts`,
`MaxWalks`, `MaxRows` and their like bound the environment; each appears in the guard of
the action it limits. Where a theorem exists (section 5) the bounds play no part.

**Symmetry** is declared in the MC modules for interchangeable model values and
only in runs without liveness properties.

**Deadlock** is not checked: a system at rest (every upload done, every budget
used up) has nothing left to do, and that is no error.

**Fairness.** Safety runs assume none. `Progress` of `AnalysisPipeline` is weak
fairness of each worker, of the rollup worker and of a request already begun:
BullMQ hands out waiting jobs for as long as a worker process lives, and Node
resumes a handler whose call returned. Clients are not fair. `Progress` of
`SearchIndex` adds strong fairness of `MarkDirty`, since marks are held off,
time and again, while a batch is between its two Redis calls, and the queue
delivers them as soon as one of the gaps is hit; the batch is repeated every
five seconds. `PurgeSpec` is weak fairness of the purge worker's steps,
including its cron. No fairness is assumed of failures, crashes, edits, or
admins.

### Findings

Two runs are expected to fail, each against a sentence of the repository:

- `LifecyclePurgeBlocked` (`archive-purge.worker.ts:99`): the row of an asset
  that was ever downloaded or reported is not deleted by the purge, though its
  objects are.
- `AccessSeeded` (`README.md:275`, `scripts/seed.ts:137`): the guard upserts by
  Keycloak subject alone, so it does not find the row with the placeholder; it
  inserts another, and the unique index on the email rejects it.

Other disagreements, met while modelling and not given a run of their own. Where
a property is named, it is what remains true.

*Uploads, files, versions*
- `files.service.ts:433`: retries of a failing file decrement the counter again,
  so the rollup can be enqueued while another file is still to be analyzed
  (`FanInCovered`).
- `versions.service.ts:33`: reanalyze within the retention of the job ids
  enqueues nothing and leaves the version PENDING.
- `files.service.ts:265`: `completeMultipart` accepts whatever parts have
  arrived, and cannot be repeated once S3 has completed (`PartsExplained`).
- `files.service.ts`, `nextSortOrder`: "append to the end" fails after a
  deletion; `reorderFiles`: omitted files all get one rank instead of keeping
  their relative order, and the rank is the place in the list as sent, unknown
  and repeated ids counted, so that the next upload may come before it
  (`AppendsExplained`).
- `files.service.ts:343`: `deleteFile` deletes the row although S3 failed to
  delete the object, which stays (`PartsExplained`).
- `assets-moderation.service.ts:117`, `archive-purge.worker.ts:83`: the objects
  of an asset go before its rows, which a download or a report then keeps
  (`FilesExplained`).
- `gltf-convert.worker.ts:79-88`: the conversion writes back whole the metadata
  it read before, and with it an older outcome of the analysis
  (`OutcomeRecorded`, `PreviewsExplained`).
- `versions.service.ts:76`: the list of versions hides drafts and versions that
  are not READY from visitors, the asset's page shows them all.
- `versions.service.ts:194`: `setCompatibility` marks nothing for reindexing,
  and two that overlap may leave both matrices (`MatrixExplained`).

*Lifecycle and editing*
- An asset restored after the purge read its candidates loses its objects and
  row; archive and restore publish a draft that never passed the checklist.
- The slug is "locked once published", but archive, edit, restore changes it
  (`EditsExplained`).
- The reindexing, the audit row or the report's own update may throw after a
  report's action has withdrawn the asset: the report stays open
  (`ReportActionCompletes`).
- A report's review begun on an open report overwrites another's dismissal.
- `README.md:472`, "every change lands in `AuditLog`": the row is the last of a
  handler's writes, so that a call that throws after the commit leaves a change
  without one (`TrailExplained`).

*Search, lists, pages*
- `docs/RUNBOOK.md:155,171,190` prescribe `pnpm reindex` to rebuild the index
  ("Rebuildable from `pnpm reindex`"). The script deletes the index, creates it
  anew and writes no document (`StaleIsExplained`).
- A mark job that has failed keeps later edits of its kind from the index for a
  week; two batch workers may write an older document over a newer one
  (`StaleIsExplained`).
- Two opposite merges over an asset that carries both tags both commit, and the
  asset loses both (`TagsExplained`).
- A change of a category enqueues at most 5000 of its assets; an edit that read
  an asset before its publication enqueues nothing after it
  (`CatalogueExplained`).
- Comments are listed by `createdAt` alone (`comments.service.ts:42-47`), where
  the other lists break ties by id.
- `meilisearch.service.ts` and the batch worker each set their own filterable
  attributes; the last to start decides whether a search by license is refused.
- `search.service.ts` reads fields of a hit that the batch worker does not
  write: hits show no category and no description; its own `buildDocument` is
  called by nothing.
- `TagUsage` is read by the popular tags and the tag mirror, and written by
  nothing: the mirror, and the search of tags, stay empty.
- `locale-resolver.ts`: "first available locale" is, for a jsonb column,
  Postgres' order of keys and not the author's.
- `cursor.ts`: "lists are stable" while no cursor's row is removed, moved or
  filtered out between two pages (`WalkExplained`). The webhook attempts, by
  millisecond, may lose the second of two; their filter "pending" finds nothing,
  since no row is ever "queued"; and a retried delivery carries a new
  delivery id, by which its receiver cannot tell it from another.
- `scripts/seed.ts:155-187`, said to be re-runnable: it puts names, order and
  `isActive` of the default rows back and drops no cached list
  (`CatalogueExplained`).
- `categories.service.ts:11-13`: a late fill stores an old list after the
  invalidation, until its TTL (`CatalogueExplained`).
- Discover: an asset deleted between the two queries shifts the cards after it
  into other rows; an archived asset that is featured stays on the page.

*Notices, accounts, maintenance*
- `WS_PROTOCOL.md:53`: a client can be told of a notification before its inbox
  row exists, or although it never will; `WS_PROTOCOL.md:67`: a silent socket
  goes at its second heartbeat, not after 90 s.
- `prisma/schema.prisma:567`: concurrent admins exceed the hard cap of active
  slots (`ActiveBounded`); `featured.service.ts:160`: a reorder of some of the
  slots trips the unique index (`FullReorderLands`).
- `DownloadDaily` is "retained forever", but goes with its asset, and a day
  without a run is never counted; with a retention of one day a repeated rollup
  loses counts (`BooksExplained`). The asset's page counts `Download` rows,
  though the schema says its stats come from `AssetStats`.
- No code creates `EditorMediaUpload` rows, so that the editor-media collector
  sweeps nothing; it would not see video posters, comments, release notes or
  preview media.
- A stored document near the size limit can be refused when it is sent again
  (`ContentsKept`).

## 5. What is proved

With TLAPS, for every value of the constants that satisfies the module's named
assumption. Every invariant that a passing run checks is a theorem, but for
`ContentsKept` (see below), and so are the two action properties and the safety
part of the refinement. A theorem is proved from an inductive invariant (right
column): it holds initially, every action keeps it, it implies the property.

| theorem | statement | argument |
| --- | --- | --- |
| **`AnalysisPipelineProofs`** | | |
| `TypeCorrect` | `Spec => []TypeOK` | inductive as it stands, one lemma per group of actions |
| `CounterCovered` | `UploadSpec => []FanInCovered` | `UploadInv`: types, only uploads happen, a job id is enqueued once, nothing is deleted. The counter grows in `IncrCounter`, whose request then owes an enqueue; each file's debt moves from request to job to worker, and `Decrement` pays it. Without "enqueued once" the add could be ignored and the debt vanish |
| `OutcomesRecorded` | `Spec => []OutcomeRecorded` | `OutcomeInv`: handles, requests and jobs are only about files that have or had a row, and an analysis leaves its outcome before it touches the counter, where it stays for as long as the job is retained, unless a conversion that had read older metadata writes them back (`lost`); a last attempt that ended otherwise is in `broke` |
| `PreviewsAreExplained` | `PreviewsSpec => []PreviewsExplained` | one invariant per scene. The model scene says of each model what a conversion or render still under way may overwrite; `ThumbInv` says which variants the job of the present thumbnail has written so far |
| `TrailIsExplained` | `TrailSpec => []TrailExplained` | `Told`: what each request at each of its steps has written and read, and what the rows say |
| `BooksAreExplained` | `UpkeepSpec => []BooksExplained` | `BooksInv`. Days: yesterday's and today's raw rows are whole, and what the job found and the daily rows say is what was downloaded (`DaysKept`); totals: none shown or about to be written is above the raw rows (`TotalsKept`); charts are of published and archived assets (`MyChart`); storage: owners' sums, written or not, balance with assets' (`WalkKept`). It rests on lemmas about sums over finite sets (`TotalAdds`, `TotalSkips`, `TotalByPart`) |
| **`SearchIndexProofs`** | | |
| `TypeCorrect` | `Spec => []TypeOK` | inductive as it stands |
| `StalenessExplained` | `Spec => []StaleIsExplained` | for any number of batch workers. `IndexInv`: besides types and the shape of a batch, what any batch has built and is still to write is current, or the change after it is explained as that of a stale document is (`BuiltExplained`). A write that could undo another batch's is `Crossed` (`WrittenStep`) |
| `CalmImplementsMirror` | a step under `CalmNext` is one of `IndexMirror!Next` or leaves its variables alone | `CalmInv`: without failures the batch builds only what is current |
| `ReadersAgree` | `ReadingSpec => []AnswersAgree` | an answer is that to the question (`ReadingInv`); the rest is about the filters: `DocumentAnswers` shows that a document matches as its version does, but for rows of compatibility of which each meets one half |
| `RowsAreExplained` | `RowsSpec => []RowsExplained` | `RowsInv`: what was ranked under two categories is disjoint. The rest is about one step: places and cards have the positions 1, 2, ... each (`PositionTells`, `PositionsFilled`), so that dealing by position gives each card to one place, and down to the first row that misses an asset every place its own card |
| **`AssetLifecycleProofs`** | | |
| `TypeCorrect`, `ActionCompletes` | `Spec => []TypeOK`, `Spec => ReportActionCompletes` | `LifeInv`: the steps a request has left are a list the code can leave, and a request that a report ordered has that report on its asset, which nothing deletes; what follows the withdrawal either runs or is a fault |
| `ClockIsHonest` | `Spec => []ClockHonest` | `ClockInv` adds the types of the three columns; every write to one of them is covered by one of four lemmas |
| `HistoryKeepsSubject` | `Spec => []HistoryHasSubject` | `HistoryInv`: inserts need the row, and `RowGoes` needs that nothing refers to it |
| `EditsAreExplained` | `EditingSpec => []EditsExplained` | `EditInv`: a request that saw a field unlocked says so, and one whose changes are due for reindexing still has the step |
| **`VersionsProofs`** | | |
| `TypeCorrect` | `Spec => []TypeOK` | `VersionsInv`: a version row is locked only between the two updates of a publish |
| `LatestIsOne` | `Spec => []OneLatest` | `LatestInv`: some version is the latest; a publish that met no other is the only one under way, and what it read, then locked, covers every flag set but its own |
| `TotalsAreExplained` | `Spec => []TotalsExplained` | `TotalsInv`: totals are those of the rows, or somebody is about to recount, or they have slipped |
| `FilesAreExplained` | `FilesSpec => []FilesExplained` | `FilesInv`: keys are exclusive unless shared, and a file keeps its object until its deletion begins, or a purge or forced deletion takes objects while it is there (`bared`) |
| `PartsAreExplained` | `PartsSpec => []PartsExplained` | `PartsInv`: S3's upload, the handle and the row at each step of each call, unless it broke, S3's failure was swallowed or two calls crossed |
| `AppendsAreExplained` | `OrderSpec => []AppendsExplained` | `OrderInv`: files are born once, and without deletions and padded reorderings `sortOrder`s are at most as high as the files are many |
| `MatrixIsExplained` | `MatrixSpec => []MatrixExplained` | `MatrixInv`: a transaction that no other overlapped has the table to itself and its `DELETE` sees every row |
| **`DeliveryProofs`** | | |
| `TypeCorrect` | `Spec => []TypeOK` | with the bounds of attempts, stalls and rows |
| `LogIsTrue` | `Spec => []LogTellsTruth` | `HookInv` relates, per job, the step, what the endpoint took, the log rows and the stalls |
| `InboxIsExplained` | `Spec => []InboxExplained` | `InboxInv` counts, per job, the rows of ended attempts and that of the running one |
| `GoneIsSoon` | `Spec => []GoneSoon` | `GoneInv`: a closed, registered socket that is still marked alive has seen no heartbeat since |
| `ThreadsAreComplete`, `NoticesAreExplained` | `CommunitySpec => []...` | `CommunityInv`; that the query's recursion finds a comment of any depth goes by a least counterexample (`ThreadUnfolds`) |
| `WalkIsExplained` | `ListingSpec => []WalkExplained` | `WalkInv`: between two pages the rows shown are those from the cursor on up (`Halfway`) |
| **`FeaturedProofs`** | | |
| `TypeCorrect` | `Spec => []TypeOK` | `TypeInv`: a list of places exists only in a reorder |
| `CapBounded` | `Spec => []ActiveBounded` | `CapInv` counts active slots and those *claimed* by requests past the check together: whoever passes the check saw fewer than `Cap`, and there is one claim per request at most |
| `PageIsExplained` | `Spec => []PageExplained` | `PageInv`: a page that is not what the slots say has its drop ahead, or a reason in `torn` |
| `FullReorderIsDone` | `Spec => FullReorderLands` | both passes move each slot once, to places nobody holds (`PutsExist`, `PlacedAt`: the recursive function is unfolded by a least counterexample) |
| **`AccessProofs`** | | |
| `TypeCorrect` | `Spec => []TypeOK` | `AccessInv` |
| `LastAdminStays` | `Spec => AdminsRemain` | `RosterInv`: a demotion past its count that no other one overtook has another admin than its target, and the target of one past the check is not the bootstrap admin. The count alone is not inductive: what keeps it true until the write is that every other write either adds an admin or puts the demotion into `overtaken` |
| `PrincipalIsExplained` | `Spec => []PrincipalExplained` | a wrong cached principal has its drop ahead, or its user is in `torn` |
| `GateHolds`, `OneEffect` | `GateSpec => []EntryHolds`, `GateSpec => []OneEffectPerKey` | `RateInv` counts those let in per window; `TokenInv` compares a token's rows with what requests read; `KeyInv` says which request owes the record of a key |
| **`CatalogueProofs`** | | |
| `CatalogueIsExplained` | `CatalogueSpec => []CatalogueExplained` | three parts, each with what requests in flight will still write: fields, cached copies, what is owed to the index (`OwedInv`: an asset owed has a request that will enqueue it, by itself or by its category, or is `lost`) |
| `TagsAreExplained` | `TagsSpec => []TagsExplained` | `LinksInv` for links and merges: links live on rows, those a merge added hold its target, those it skipped are there unless a race is recorded; `MarkInv` for what is to be marked |

**Assumptions.** Each module's `ASSUME` names what is asked of its constants:
bounds are numbers, "nothing" is none of the values it stands beside, and sets
that are counted (files, requests, slots, sockets, assets, owners, entries of a
list) are finite. `LifecycleAssumption` and `VersionsAssumption` say which
operations there are, `GateAssumption` that no record is "no record",
`CommunityAssumption` that the marks of rows are not rows. TLC evaluates all of
them. No theorem has another hypothesis.

**What the proofs changed.** `Previews` was wrong for larger bounds than TLC's:
with four models, a render passed over for a GLB that an analysis then dropped
left a smaller one's picture without a reason. `AnalyzeModel` now adds such
renders to `unrendered`, `BeginRender` picks any of equally large GLBs, and the
excuse names a larger or equal GLB. `Reading` and `Listing` lost restrictions
that were TLC's bounds and not the code's.

**Model-checked only.** Liveness and whatever rests on fairness or ENABLED
(`LeavesPending`, `PurgeProceeds`, the liveness part of `MirrorsCatalogue`).
`ContentsKept`: `Documents` walks trees with recursive operators, of which the
prover has no account. Induction over numbers and finite sets is done by least
counterexamples (`LeastNumber`, `SmallestPart`), since an induction theorem
cannot be given an operator here.

## 6. What is not modelled, and why

- Presigned URLs, mail and template rendering, metrics, dashboards,
  configuration, the GIF proxy: they change no state the properties are about.
- Of the scripts, `purge-archived.ts`, which only prints candidates,
  `export-openapi.ts` and `compress-existing-images.ts`. `seed.ts` is in `Access`
  (`Seed`) and `Catalogue` (`SeedRow`), `reindex-search.ts` in `SearchIndex`
  (`Reindex`), but for its settings of the index: a third writer of the
  filterable attributes (`reindex-search.ts:36-45`) beside the two in `Reading`.
- Meilisearch's own tasks: a write it has accepted counts as carried out. The
  ids of documents, `<asset>:<locale>`, hold a colon, which Meilisearch accepts
  in no id: such a task may be refused later, which the worker never asks.
- The contents of files, images and reports: an extractor's or a renderer's
  result is an outcome.
- The ranking of a search, and the counts and texts of cards and pages.
- In `AssetLifecycle`, transfer of ownership. In `Versions`, release notes. In
  `Delivery`, the rendering of mails. In `Featured`, banners, texts and the
  notice to the owner; its two locales are one page. In `Access`, the checking
  of tokens, the contributor role (one more read, on which none of these
  handlers acts) and users whose email changes. In `Community`, bodies, their
  editing and mentions. In `Upkeep`, saves, countries and the rolling sums,
  which are counted like downloads, and the other buckets.
- The editor-media collector's sweep: nothing makes the rows it reads.
- In `Gate`, the gap between the computation of a window's key and its INCR
  (`rate-limit.guard.ts:39-42`): an INCR delayed past the key's expiry.
- `FullReorderLands` is about reorders of all the slots; that a partial one is
  rejected is told in the findings.
- Some losses are named and excused, not prevented: `OutcomeRecorded` and
  `PreviewsExplained` excuse a conversion that writes metadata back,
  `TotalsExplained` an older aggregate, `StaleIsExplained` each entry of `lost`.
  What these properties show is that nothing else goes wrong.
- Time, but for the distinctions named (recent and old, heartbeats, days, a TTL
  that may run out at any moment).
