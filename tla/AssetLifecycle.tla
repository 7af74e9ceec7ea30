---------------------------- MODULE AssetLifecycle ----------------------------
(***************************************************************************)
(* The life of an asset: created as a draft, published, archived or         *)
(* soft-deleted, restored, and finally removed, either at once by an admin  *)
(* (force delete) or by the daily archive purge.                            *)
(*                                                                         *)
(* A request is a list of steps still to take, one per database or S3 call  *)
(* that matters; the requests of all callers and the purge worker           *)
(* interleave between any two steps.  Every update finds its row by id and  *)
(* throws when the row is gone; none of them looks at the status again.     *)
(*                                                                         *)
(* Removing an asset deletes its objects first and its row second, and the  *)
(* second fails when a Download or a Report refers to the asset: those      *)
(* relations have no onDelete clause, which for a required relation means   *)
(* Restrict.                                                                *)
(***************************************************************************)
EXTENDS Naturals, FiniteSets, Sequences

CONSTANTS
    Assets,
    Callers,    \* requests in flight at a time
    Insiders,   \* the callers who may edit and moderate: owner, admins
    NoAsset,
    Ops,        \* the operations of the run: a subset of DOMAIN Plan
    MaxFaults   \* bound: calls that throw, S3 failures and crashes

ASSUME LifecycleAssumption ==
    /\ Insiders \subseteq Callers
    /\ NoAsset \notin Assets
    /\ Ops \subseteq {"publish", "archive", "delete", "restore", "force", "download", "report",
                      "review", "dismiss", "actNothing", "actArchive", "actDelete", "actForce"}
    /\ MaxFaults \in Nat

VARIABLES
    status,      \* Asset.status; "none" before creation, "gone" without a row
    archivedAt,  \* Asset.archivedAt: "null", "recent", "old" (ARCHIVE_PURGE_DAYS)
    green,       \* what PublishChecklistService would find
    intact,      \* every object the asset's rows name is in S3
    downloaded,  \* Download rows exist
    report,      \* the asset's report: "none" or Report.status
    on, todo,    \* each caller's asset and remaining steps
    purge, left, cur,   \* purge worker: step, candidates left, candidate in hand
    faults,
    since        \* history: how long the asset has been hidden without a break

rowVars == <<status, archivedAt>>
refVars == <<downloaded, report>>
reqVars == <<on, todo>>
purgeVars == <<purge, left, cur>>
vars == <<rowVars, green, intact, refVars, reqVars, purgeVars, faults, since>>

Hidden == {"ARCHIVED", "DELETED"}
Rows == {a \in Assets : status[a] \notin {"none", "gone"}}

\* The steps of each operation after the read it starts with.  What an archive
\* or a soft delete ordered by a report does after its update - drop a cache,
\* enqueue a reindex, write the audit row - is one step, "announce": it changes
\* nothing here, but any call of it that throws keeps the report as it is.
Plan == [
    publish |-> <<"evaluate", "publish">>,
    archive |-> <<"archive">>,
    delete |-> <<"delete">>,
    restore |-> <<"restore">>,
    force |-> <<"objects", "row">>,
    download |-> <<"download">>,
    report |-> <<"report">>,
    review |-> <<"review">>,
    dismiss |-> <<"dismiss">>,
    actNothing |-> <<"resolve">>,
    actArchive |-> <<"archive", "announce", "resolve">>,
    actDelete |-> <<"delete", "announce", "resolve">>,
    actForce |-> <<"objects", "row", "resolve">>]

Init ==
    /\ status = [a \in Assets |-> "none"] /\ archivedAt = [a \in Assets |-> "null"]
    /\ green = [a \in Assets |-> FALSE] /\ intact = [a \in Assets |-> TRUE]
    /\ downloaded = [a \in Assets |-> FALSE] /\ report = [a \in Assets |-> "none"]
    /\ on = [c \in Callers |-> NoAsset] /\ todo = [c \in Callers |-> <<>>]
    /\ purge = "idle" /\ left = {} /\ cur = NoAsset
    /\ faults = 0
    /\ since = [a \in Assets |-> "null"]

-----------------------------------------------------------------------------
(* Beginning and ending a request.                                         *)

Create(a) ==
    /\ status[a] = "none"
    /\ status' = [status EXCEPT ![a] = "DRAFT"]
    /\ UNCHANGED <<archivedAt, green, intact, refVars, reqVars, purgeVars, faults, since>>

\* What a handler asks of its caller and of the row it reads first.
Admits(c, a, op) ==
    /\ op \notin {"download", "report"} => c \in Insiders
    /\ op = "download" => status[a] = "PUBLISHED" \/ c \in Insiders
    /\ op = "restore" => status[a] \in Hidden
    /\ op = "review" => report[a] = "OPEN"
    /\ op \in {"dismiss", "actNothing", "actArchive", "actDelete", "actForce"}
         => report[a] # "none"

Begin(c, a, op) ==
    /\ todo[c] = <<>> /\ a \in Rows /\ Admits(c, a, op)
    /\ on' = [on EXCEPT ![c] = a] /\ todo' = [todo EXCEPT ![c] = Plan[op]]
    /\ UNCHANGED <<rowVars, green, intact, refVars, purgeVars, faults, since>>

At(c, s) == todo[c] # <<>> /\ Head(todo[c]) = s
Leave(c) ==
    /\ on' = [on EXCEPT ![c] = NoAsset] /\ todo' = [todo EXCEPT ![c] = <<>>]
Advance(c) ==
    IF Len(todo[c]) = 1 THEN Leave(c)
    ELSE todo' = [todo EXCEPT ![c] = Tail(@)] /\ UNCHANGED on

\* An update, a delete or an insert that refers to a row that is gone throws.
RowMissing(c) ==
    /\ todo[c] # <<>> /\ Head(todo[c]) \notin {"objects", "announce"} /\ on[c] \notin Rows
    /\ Leave(c)
    /\ UNCHANGED <<rowVars, green, intact, refVars, purgeVars, faults, since>>

\* The call at hand throws, or the process dies: the request ends, and what it
\* has written stays.
Fault(c) ==
    /\ todo[c] # <<>> /\ faults < MaxFaults
    /\ faults' = faults + 1 /\ Leave(c)
    /\ UNCHANGED <<rowVars, green, intact, refVars, purgeVars, since>>

-----------------------------------------------------------------------------
(* The steps of the asset's own operations.                                *)

\* A red checklist throws.
Evaluate(c) ==
    /\ At(c, "evaluate") /\ on[c] \in Rows
    /\ IF green[on[c]] THEN Advance(c) ELSE Leave(c)
    /\ UNCHANGED <<rowVars, green, intact, refVars, purgeVars, faults, since>>

\* publish leaves archivedAt alone.
Publish(c) ==
    /\ At(c, "publish") /\ on[c] \in Rows
    /\ status' = [status EXCEPT ![on[c]] = "PUBLISHED"]
    /\ since' = [since EXCEPT ![on[c]] = "null"]
    /\ Advance(c)
    /\ UNCHANGED <<archivedAt, green, intact, refVars, purgeVars, faults>>

\* Mutant of Withdraw: the clock of a row that has one is not restarted.
WithdrawKeepsClock(c, step, s) ==
    LET a == on[c] IN
    /\ At(c, step) /\ a \in Rows
    /\ status' = [status EXCEPT ![a] = s]
    /\ archivedAt' = [archivedAt EXCEPT ![a] = IF @ = "null" THEN "recent" ELSE @]
    /\ since' = [since EXCEPT ![a] = IF status[a] \in Hidden THEN @ ELSE "recent"]
    /\ Advance(c)
    /\ UNCHANGED <<green, intact, refVars, purgeVars, faults>>

\* Archive and soft delete, by the owner, an admin or a report's action.
Withdraw(c, step, s) ==
    LET a == on[c] IN
    /\ At(c, step) /\ a \in Rows
    /\ status' = [status EXCEPT ![a] = s]
    /\ archivedAt' = [archivedAt EXCEPT ![a] = "recent"]
    /\ since' = [since EXCEPT ![a] = IF status[a] \in Hidden THEN @ ELSE "recent"]
    /\ Advance(c)
    /\ UNCHANGED <<green, intact, refVars, purgeVars, faults>>

Archive(c) == Withdraw(c, "archive", "ARCHIVED")
SoftDelete(c) == Withdraw(c, "delete", "DELETED")

Announce(c) ==
    /\ At(c, "announce") /\ Advance(c)
    /\ UNCHANGED <<rowVars, green, intact, refVars, purgeVars, faults, since>>

Restore(c) ==
    /\ At(c, "restore") /\ on[c] \in Rows
    /\ status' = [status EXCEPT ![on[c]] = "PUBLISHED"]
    /\ archivedAt' = [archivedAt EXCEPT ![on[c]] = "null"]
    /\ since' = [since EXCEPT ![on[c]] = "null"]
    /\ Advance(c)
    /\ UNCHANGED <<green, intact, refVars, purgeVars, faults>>

\* Anything the checklist looks at changes: a version is added, an analysis
\* ends, a file, a translation or a compatibility row comes or goes.
ChangeContent(a) ==
    /\ a \in Rows
    /\ green' = [green EXCEPT ![a] = ~@]
    /\ UNCHANGED <<rowVars, intact, refVars, reqVars, purgeVars, faults, since>>

-----------------------------------------------------------------------------
(* Downloads and reports.                                                  *)

Download(c) ==
    /\ At(c, "download") /\ on[c] \in Rows
    /\ downloaded' = [downloaded EXCEPT ![on[c]] = TRUE]
    /\ Advance(c)
    /\ UNCHANGED <<rowVars, green, intact, report, purgeVars, faults, since>>

\* ReportsService.create.  One report per asset stands for any number.
File(c) ==
    /\ At(c, "report") /\ on[c] \in Rows
    /\ report' = [report EXCEPT ![on[c]] = IF @ = "none" THEN "OPEN" ELSE @]
    /\ Advance(c)
    /\ UNCHANGED <<rowVars, green, intact, downloaded, purgeVars, faults, since>>

\* startReview, dismiss and the last step of action: none looks at the status.
SetReport(c, step, s) ==
    /\ At(c, step) /\ on[c] \in Rows
    /\ report' = [report EXCEPT ![on[c]] = s]
    /\ Advance(c)
    /\ UNCHANGED <<rowVars, green, intact, downloaded, purgeVars, faults, since>>

StartReview(c) == SetReport(c, "review", "REVIEWING")
Dismiss(c) == SetReport(c, "dismiss", "DISMISSED")
Resolve(c) == SetReport(c, "resolve", "ACTIONED")

-----------------------------------------------------------------------------
(* Removal.                                                                *)

\* Mutant of Referred: downloads cascade.
ReferredByReports(a) == report[a] # "none"

\* Mutant of Referred: reports cascade.
ReferredByDownloads(a) == downloaded[a]

Referred(a) == downloaded[a] \/ report[a] # "none"

\* asset.delete: everything that cascades goes with the row.
RowGoes(a) ==
    /\ status' = [status EXCEPT ![a] = "gone"]
    /\ green' = [green EXCEPT ![a] = FALSE]
    /\ archivedAt' = [archivedAt EXCEPT ![a] = "null"]
    /\ since' = [since EXCEPT ![a] = "null"]
    /\ UNCHANGED <<intact, refVars, faults>>

DeleteObjects(c) ==
    /\ At(c, "objects")
    /\ intact' = [intact EXCEPT ![on[c]] = FALSE]
    /\ Advance(c)
    /\ UNCHANGED <<rowVars, green, refVars, purgeVars, faults, since>>

\* S3 throws, on the first page or on a later one.
DeleteObjectsFails(c) ==
    /\ At(c, "objects") /\ faults < MaxFaults
    /\ faults' = faults + 1
    /\ \E b \in {FALSE, intact[on[c]]} : intact' = [intact EXCEPT ![on[c]] = b]
    /\ Leave(c)
    /\ UNCHANGED <<rowVars, green, refVars, purgeVars, since>>

DeleteRow(c) ==
    /\ At(c, "row") /\ on[c] \in Rows
    /\ \/ Referred(on[c]) /\ Leave(c)
          /\ UNCHANGED <<rowVars, green, intact, refVars, faults, since>>
       \/ ~Referred(on[c]) /\ RowGoes(on[c]) /\ Advance(c)
    /\ UNCHANGED purgeVars

\* The daily cron: the candidates are read once, then purged one by one.
Candidates == {a \in Assets : status[a] \in Hidden /\ archivedAt[a] = "old"}

PurgeCron ==
    /\ purge = "idle" /\ Candidates # {}
    /\ purge' = "objects" /\ left' = Candidates
    /\ \E a \in Candidates : cur' = a
    /\ UNCHANGED <<rowVars, green, intact, refVars, reqVars, faults, since>>

\* Mutant of NextCandidate: the loop stays with the candidate it has dropped.
SameCandidate ==
    /\ left' = left \ {cur}
    /\ purge' = "objects" /\ UNCHANGED cur

\* The loop goes on with another candidate, whatever became of this one.
NextCandidate ==
    /\ left' = left \ {cur}
    /\ IF left' = {} THEN purge' = "idle" /\ cur' = NoAsset
       ELSE purge' = "objects" /\ \E a \in left' : cur' = a

\* Mutant of PurgeFailed: no try around purgeOne.
AbandonRun == purge' = "idle" /\ left' = {} /\ cur' = NoAsset

\* The catch around purgeOne.
PurgeFailed == NextCandidate

PurgeObjects ==
    /\ purge = "objects"
    /\ intact' = [intact EXCEPT ![cur] = FALSE] /\ purge' = "row"
    /\ UNCHANGED <<rowVars, green, refVars, reqVars, left, cur, faults, since>>

PurgeObjectsFails ==
    /\ purge = "objects" /\ faults < MaxFaults
    /\ faults' = faults + 1
    /\ \E b \in {FALSE, intact[cur]} : intact' = [intact EXCEPT ![cur] = b]
    /\ PurgeFailed
    /\ UNCHANGED <<rowVars, green, refVars, reqVars, since>>

PurgeRow ==
    /\ purge = "row"
    /\ \/ (Referred(cur) \/ cur \notin Rows) /\ PurgeFailed
          /\ UNCHANGED <<rowVars, green, intact, refVars, faults, since>>
       \/ ~Referred(cur) /\ cur \in Rows /\ RowGoes(cur) /\ NextCandidate
    /\ UNCHANGED reqVars

CrashPurge ==
    /\ purge # "idle" /\ faults < MaxFaults
    /\ faults' = faults + 1
    /\ purge' = "idle" /\ left' = {} /\ cur' = NoAsset
    /\ UNCHANGED <<rowVars, green, intact, refVars, reqVars, since>>

\* Time passes.  The row's clock, set no earlier than the asset was hidden,
\* is never ahead of the true one.
Age(a) ==
    /\ \/ archivedAt[a] = "recent" /\ archivedAt' = [archivedAt EXCEPT ![a] = "old"]
       \/ since[a] = "recent" /\ UNCHANGED archivedAt
    /\ since' = [since EXCEPT ![a] = IF @ = "recent" THEN "old" ELSE @]
    /\ UNCHANGED <<status, green, intact, refVars, reqVars, purgeVars, faults>>

-----------------------------------------------------------------------------
Step(c) ==
    \/ Evaluate(c) \/ Publish(c) \/ Archive(c) \/ SoftDelete(c) \/ Announce(c) \/ Restore(c)
    \/ Download(c) \/ File(c) \/ StartReview(c) \/ Dismiss(c) \/ Resolve(c)
    \/ DeleteObjects(c) \/ DeleteRow(c) \/ RowMissing(c)

PurgeStep == PurgeCron \/ PurgeObjects \/ PurgeRow

Next ==
    \/ \E a \in Assets : Create(a) \/ ChangeContent(a) \/ Age(a)
    \/ \E c \in Callers, a \in Assets, op \in Ops : Begin(c, a, op)
    \/ \E c \in Callers : Step(c) \/ DeleteObjectsFails(c) \/ Fault(c)
    \/ PurgeStep \/ PurgeObjectsFails \/ CrashPurge

Spec == Init /\ [][Next]_vars

\* Only what bears on a purge: requests that withdraw an asset, take it back
\* or leave a row that refers to it (Ops), the purge, time and faults.
PurgeNext ==
    \/ \E a \in Assets : Create(a) \/ Age(a)
    \/ \E c \in Callers, a \in Assets, op \in Ops : Begin(c, a, op)
    \/ \E c \in Callers :
           Archive(c) \/ Restore(c) \/ Download(c) \/ File(c) \/ RowMissing(c) \/ Fault(c)
    \/ PurgeStep \/ PurgeObjectsFails \/ CrashPurge

\* The cron fires every day and the worker runs it to the end.
PurgeSpec == Init /\ [][PurgeNext]_vars /\ WF_vars(PurgeStep)

-----------------------------------------------------------------------------
(* Properties.                                                             *)

\* Types of the variables.
TypeOK ==
    /\ status \in [Assets -> {"none", "DRAFT", "PUBLISHED", "ARCHIVED", "DELETED", "gone"}]
    /\ archivedAt \in [Assets -> {"null", "recent", "old"}]
    /\ green \in [Assets -> BOOLEAN] /\ intact \in [Assets -> BOOLEAN]
    /\ downloaded \in [Assets -> BOOLEAN]
    /\ report \in [Assets -> {"none", "OPEN", "REVIEWING", "ACTIONED", "DISMISSED"}]
    /\ on \in [Callers -> Assets \cup {NoAsset}]
    /\ todo \in [Callers -> Seq({"evaluate", "publish", "archive", "delete", "announce", "restore",
           "objects", "row", "download", "report", "review", "dismiss", "resolve"})]
    /\ purge \in {"idle", "objects", "row"}
    /\ left \subseteq Assets /\ IF purge = "idle" THEN cur = NoAsset ELSE cur \in left
    /\ faults \in 0 .. MaxFaults
    /\ since \in [Assets -> {"null", "recent", "old"}]

\* An archivedAt that is old enough for the purge tells the truth about a
\* hidden asset: neither a publish that leaves archivedAt behind, nor a restore
\* or a second archive that races another request, lets the clock of an earlier
\* archiving be taken for that of the present one.
ClockHonest ==
    \A a \in Assets : status[a] \in Hidden =>
        /\ since[a] # "null"
        /\ archivedAt[a] = "old" => since[a] = "old"

\* A Download or Report row always has its asset, even when the handler that
\* inserts it read the asset before a removal.
HistoryHasSubject ==
    \A a \in Assets : downloaded[a] \/ report[a] # "none" => a \in Rows

\* An action that has withdrawn the asset of its report (or has nothing to
\* withdraw) ends by making the report ACTIONED, whatever other requests and the
\* purge do in between: no removal takes the asset, and the report with it,
\* away.  Only a fault of its own leaves the asset withdrawn and the report
\* open: a call after the withdrawal that throws - the cache, the queue, the
\* audit row or the report's update - or the end of the process.  (A force
\* delete ordered by a report always stops at the row, which that very report
\* holds back.)
Withdrawn == {<<"announce", "resolve">>, <<"resolve">>}
ReportActionCompletes ==
    [][\A c \in Callers :
         todo[c] \in Withdrawn /\ todo'[c] \notin Withdrawn /\ faults' = faults
           => report'[on[c]] = "ACTIONED"]_vars

\* A failing candidate "doesn't strand the rest" (archive-purge.worker.ts): an
\* asset due for purge that nothing refers to goes, unless it is taken back,
\* withdrawn afresh, downloaded or reported first.
Due(a) == a \in Candidates /\ ~Referred(a)
PurgeProceeds == \A a \in Assets : Due(a) ~> ~Due(a)

\* "Cascade-delete the row - Prisma onDelete: Cascade on the schema handles
\* versions, files, library items, comments, etc." (archive-purge.worker.ts):
\* the row of a purged asset goes.
PurgeDeletesRow == [][\A a \in Rows : PurgeRow /\ cur = a => status'[a] = "gone"]_vars
=============================================================================
