------------------------------- MODULE AuditTrail -------------------------------
(***************************************************************************)
(* What AuditLog tells of an admin's changes to one asset.  The handler      *)
(* reads the asset, updates it whatever has become of it since, asks for its *)
(* reindexing and awaits a row of its own (assets-moderation.service.ts);    *)
(* when it has answered, an interceptor inserts a second row that nobody     *)
(* waits for (audit.interceptor.ts).  A daily purge deletes old rows.        *)
(*                                                                         *)
(* The other admin services record in the same order.  What the statuses     *)
(* mean is in AssetLifecycle; the list of the rows is in Listing.           *)
(***************************************************************************)
EXTENDS Naturals

CONSTANTS
    Admins,             \* requests of admins
    RetentionDays,      \* AUDIT_LOG_RETENTION_DAYS
    LastTrailDay        \* bound

ASSUME TrailAssumption == RetentionDays \in Nat \ {0} /\ LastTrailDay \in Nat

TrailStatuses == {"PUBLISHED", "ARCHIVED", "DELETED"}
NoTrail == [day |-> 0, previous |-> "none"]

VARIABLES
    standing,       \* the asset's status
    today,
    request,        \* each request: its step, the status it asks for and the one it read
    recorded,       \* each request's own row: its day and previousStatus
    noted,          \* the interceptor's rows: those still to be inserted, those there
    changed,        \* history: the day of each request's change, the status it replaced
    failed,         \* history: requests that failed or died
    overtaken       \* history: requests between whose read and update another's came

trailVars == <<standing, today, request, recorded, noted, changed, failed, overtaken>>

NoRequest == [step |-> "new", to |-> "none", saw |-> "none"]

TrailInit ==
    /\ standing \in TrailStatuses /\ today = 0
    /\ request = [r \in Admins |-> NoRequest]
    /\ recorded = [r \in Admins |-> NoTrail] /\ noted = [r \in Admins |-> "no"]
    /\ changed = [r \in Admins |-> NoTrail] /\ failed = {} /\ overtaken = {}

Advance(r, step) == request' = [request EXCEPT ![r].step = step]

-----------------------------------------------------------------------------
\* findOrThrow: a restoration wants a status to restore from, archive and delete want none.
ReadStanding(r, to) ==
    /\ request[r] = NoRequest
    /\ to = "PUBLISHED" => standing \in {"ARCHIVED", "DELETED"}
    /\ request' = [request EXCEPT ![r] = [step |-> "read", to |-> to, saw |-> standing]]
    /\ UNCHANGED <<standing, today, recorded, noted, changed, failed, overtaken>>

UpdateStanding(r) ==
    /\ request[r].step = "read"
    /\ standing' = request[r].to
    /\ changed' = [changed EXCEPT ![r] = [day |-> today, previous |-> standing]]
    /\ overtaken' = overtaken \cup {q \in Admins \ {r} : request[q].step = "read"}
    /\ Advance(r, "changed")
    /\ UNCHANGED <<today, recorded, noted, failed>>

AskReindex(r) ==
    /\ request[r].step = "changed" /\ Advance(r, "asked")
    /\ UNCHANGED <<standing, today, recorded, noted, changed, failed, overtaken>>

\* Mutant of Record: previousStatus is read after the update.
RecordAfter(r) ==
    /\ request[r].step = "asked" /\ Advance(r, "recorded")
    /\ recorded' = [recorded EXCEPT ![r] = [day |-> today, previous |-> standing]]
    /\ UNCHANGED <<standing, today, noted, changed, failed, overtaken>>

Record(r) ==
    /\ request[r].step = "asked" /\ Advance(r, "recorded")
    /\ recorded' = [recorded EXCEPT ![r] = [day |-> today, previous |-> request[r].saw]]
    /\ UNCHANGED <<standing, today, noted, changed, failed, overtaken>>

\* The caches' drop, the reindexing or the row throws: the request fails, its change stays.
Fail(r) ==
    /\ request[r].step \in {"changed", "asked"} /\ Advance(r, "over")
    /\ failed' = failed \cup {r}
    /\ UNCHANGED <<standing, today, recorded, noted, changed, overtaken>>

\* The answer; the interceptor's insert is begun, and not awaited.
Answer(r) ==
    /\ request[r].step = "recorded" /\ Advance(r, "over")
    /\ noted' = [noted EXCEPT ![r] = "pending"]
    /\ UNCHANGED <<standing, today, recorded, changed, failed, overtaken>>

Note(r, ok) ==
    /\ noted[r] = "pending"
    /\ noted' = [noted EXCEPT ![r] = IF ok THEN "there" ELSE "lost"]
    /\ UNCHANGED <<standing, today, request, recorded, changed, failed, overtaken>>

\* The API exits.
ExitApi ==
    /\ \E r \in Admins : request[r].step \notin {"new", "over"} \/ noted[r] = "pending"
    /\ failed' = failed \cup {r \in Admins : request[r].step \notin {"new", "over"}}
    /\ request' = [r \in Admins |-> IF request[r] = NoRequest THEN NoRequest
                                    ELSE [request[r] EXCEPT !.step = "over"]]
    /\ noted' = [r \in Admins |-> IF noted[r] = "pending" THEN "lost" ELSE noted[r]]
    /\ UNCHANGED <<standing, today, recorded, changed, overtaken>>

Tomorrow ==
    /\ today < LastTrailDay /\ today' = today + 1
    /\ UNCHANGED <<standing, request, recorded, noted, changed, failed, overtaken>>

\* Rows created before the hour of the purge, RetentionDays ago: of that day, some.
PurgeRows(early) ==
    /\ recorded' = [r \in Admins |->
                      IF recorded[r].day + RetentionDays < today + (IF early THEN 1 ELSE 0)
                      THEN NoTrail ELSE recorded[r]]
    /\ recorded' # recorded
    /\ UNCHANGED <<standing, today, request, noted, changed, failed, overtaken>>

TrailNext ==
    \/ \E r \in Admins :
           \/ \E to \in TrailStatuses : ReadStanding(r, to)
           \/ UpdateStanding(r) \/ AskReindex(r) \/ Record(r) \/ Fail(r) \/ Answer(r)
           \/ \E ok \in BOOLEAN : Note(r, ok)
    \/ ExitApi \/ Tomorrow
    \/ \E early \in BOOLEAN : PurgeRows(early)

TrailSpec == TrailInit /\ [][TrailNext]_trailVars

-----------------------------------------------------------------------------
(* Properties.                                                             *)

HasChanged(r) == changed[r] # NoTrail
Over(r) == request[r].step = "over"

\* While they are kept, the rows tell of every change whose request was answered, and of
\* none that did not happen; previousStatus is the status a change replaced, unless
\* another change came between its request's read and its update.
TrailExplained ==
    \A r \in Admins :
        /\ HasChanged(r) /\ Over(r) /\ r \notin failed /\ today < changed[r].day + RetentionDays =>
               recorded[r] # NoTrail
        /\ recorded[r] # NoTrail =>
               HasChanged(r) /\ (recorded[r].previous = changed[r].previous \/ r \in overtaken)
        /\ noted[r] # "no" => HasChanged(r) /\ r \notin failed
=============================================================================
