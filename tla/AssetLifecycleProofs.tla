------------------------- MODULE AssetLifecycleProofs -------------------------
(***************************************************************************)
(* What holds for any number of assets, callers, faults and S3 failures: of *)
(* AssetLifecycle, its types, that the purge clock is honest, that history  *)
(* rows keep the asset they refer to, and that a report's action is         *)
(* completed; of Editing, that locked fields stay and changes are enqueued. *)
(* The clock and the history rest on the columns of the asset row alone, the *)
(* others on the requests in flight too.                                    *)
(***************************************************************************)
EXTENDS AssetLifecycle, Editing, TLAPS

-----------------------------------------------------------------------------
(* The purge clock.                                                        *)

\* The types of the columns the clock rests on.
ClockTypes ==
    /\ status \in [Assets -> {"none", "DRAFT", "PUBLISHED", "ARCHIVED", "DELETED", "gone"}]
    /\ archivedAt \in [Assets -> {"null", "recent", "old"}]
    /\ since \in [Assets -> {"null", "recent", "old"}]

\* The inductive invariant of the clock.
ClockInv == ClockTypes /\ ClockHonest

\* The columns the clock depends on.
clockVars == <<status, archivedAt, since>>

\* The initial state has no hidden asset.
LEMMA ClockInit == Init => ClockInv
BY DEF Init, ClockInv, ClockTypes, ClockHonest, Hidden

\* A removal takes the asset out of the hidden ones.
LEMMA ClockRowGoes ==
    ASSUME ClockInv, NEW a \in Assets, RowGoes(a)
    PROVE  ClockInv'
BY DEF ClockInv, ClockTypes, ClockHonest, Hidden, RowGoes

\* Every step keeps the clock honest.
LEMMA ClockStep == ClockInv /\ [Next]_vars => ClockInv'
<1> SUFFICES ASSUME ClockInv, [Next]_vars
             PROVE  ClockInv'
  OBVIOUS
<1> USE DEF rowVars, vars
<1>0. ASSUME UNCHANGED clockVars PROVE ClockInv'
  BY <1>0 DEF ClockInv, ClockTypes, ClockHonest, clockVars
<1>1. ASSUME NEW a \in Assets, Create(a) \/ ChangeContent(a) \/ Age(a)
      PROVE  ClockInv'
  <2>1. CASE Create(a)
    BY <2>1 DEF Create, ClockInv, ClockTypes, ClockHonest, Hidden
  <2>2. CASE ChangeContent(a)
    BY <2>2, <1>0 DEF ChangeContent, clockVars
  <2>3. CASE Age(a)
    BY <2>3 DEF Age, ClockInv, ClockTypes, ClockHonest, Hidden
  <2> QED BY <1>1, <2>1, <2>2, <2>3
<1>2. ASSUME NEW c \in Callers, NEW a \in Assets, NEW op \in Ops, Begin(c, a, op)
      PROVE  ClockInv'
  BY <1>2, <1>0 DEF Begin, clockVars
<1>3. ASSUME NEW c \in Callers, Step(c)
      PROVE  ClockInv'
  <2>1. CASE Evaluate(c)
    BY <2>1, <1>0 DEF Evaluate, clockVars
  <2>2. CASE Publish(c)
    BY <2>2 DEF Publish, Rows, ClockInv, ClockTypes, ClockHonest, Hidden
  <2>3. CASE Archive(c)
    BY <2>3 DEF Archive, Withdraw, Rows, ClockInv, ClockTypes, ClockHonest, Hidden
  <2>4. CASE SoftDelete(c)
    BY <2>4 DEF SoftDelete, Withdraw, Rows, ClockInv, ClockTypes, ClockHonest, Hidden
  <2>5. CASE Restore(c)
    BY <2>5 DEF Restore, Rows, ClockInv, ClockTypes, ClockHonest, Hidden
  <2>7. CASE Download(c) \/ File(c) \/ StartReview(c) \/ Dismiss(c) \/ Resolve(c) \/ Announce(c)
    BY <2>7, <1>0 DEF Download, File, StartReview, Dismiss, Resolve, SetReport, Announce, clockVars
  <2>8. CASE DeleteObjects(c) \/ RowMissing(c)
    BY <2>8, <1>0 DEF DeleteObjects, RowMissing, clockVars
  <2>9. CASE DeleteRow(c)
    <3>1. CASE UNCHANGED rowVars /\ UNCHANGED since
      BY <3>1, <1>0 DEF clockVars
    <3>2. CASE on[c] \in Assets /\ RowGoes(on[c])
      BY <3>2, ClockRowGoes
    <3> QED BY <2>9, <3>1, <3>2 DEF DeleteRow, Rows
  <2> QED BY <1>3, <2>1, <2>2, <2>3, <2>4, <2>5, <2>7, <2>8, <2>9 DEF Step
<1>4. ASSUME NEW c \in Callers, DeleteObjectsFails(c) \/ Fault(c)
      PROVE  ClockInv'
  BY <1>4, <1>0 DEF DeleteObjectsFails, Fault, clockVars
<1>5. CASE PurgeCron \/ PurgeObjects \/ PurgeObjectsFails \/ CrashPurge
  BY <1>5, <1>0 DEF PurgeCron, PurgeObjects, PurgeObjectsFails, CrashPurge, clockVars
<1>6. CASE PurgeRow
  <2>1. CASE UNCHANGED rowVars /\ UNCHANGED since
    BY <2>1, <1>0 DEF clockVars
  <2>2. CASE cur \in Assets /\ RowGoes(cur)
    BY <2>2, ClockRowGoes
  <2> QED BY <1>6, <2>1, <2>2 DEF PurgeRow, Rows
<1>7. CASE UNCHANGED vars
  BY <1>7, <1>0 DEF clockVars
<1> QED
  BY <1>1, <1>2, <1>3, <1>4, <1>5, <1>6, <1>7 DEF Next, PurgeStep

\* An archivedAt old enough for the purge is old because its asset has been
\* hidden that long.
THEOREM ClockIsHonest == Spec => []ClockHonest
<1>1. ClockInv => ClockHonest
  BY DEF ClockInv
<1> QED BY ClockInit, ClockStep, <1>1, PTL DEF Spec

-----------------------------------------------------------------------------
(* Download and report rows.                                               *)

\* The types of the columns that history rests on.
HistoryTypes ==
    /\ status \in [Assets -> {"none", "DRAFT", "PUBLISHED", "ARCHIVED", "DELETED", "gone"}]
    /\ downloaded \in [Assets -> BOOLEAN]
    /\ report \in [Assets -> {"none", "OPEN", "REVIEWING", "ACTIONED", "DISMISSED"}]

\* The inductive invariant of history.
HistoryInv == HistoryTypes /\ HistoryHasSubject

\* The columns and tables the relation depends on.
historyVars == <<status, downloaded, report>>

\* Initially nothing is downloaded or reported.
LEMMA HistoryInit == Init => HistoryInv
BY DEF Init, HistoryInv, HistoryTypes, HistoryHasSubject

\* An update of the status to any value of an existing row.
LEMMA HistoryKeptByUpdate ==
    ASSUME HistoryInv, NEW a \in Assets, UNCHANGED refVars,
           NEW s \in {"DRAFT", "PUBLISHED", "ARCHIVED", "DELETED"},
           status' = [status EXCEPT ![a] = s]
    PROVE  HistoryInv'
BY DEF HistoryInv, HistoryTypes, HistoryHasSubject, Rows, refVars

\* A row goes only when nothing refers to it.
LEMMA HistoryRowGoes ==
    ASSUME HistoryInv, NEW a \in Assets, ~Referred(a), RowGoes(a)
    PROVE  HistoryInv'
BY DEF HistoryInv, HistoryTypes, HistoryHasSubject, Rows, RowGoes, Referred, refVars

\* Every step keeps the relation.
LEMMA HistoryStep == HistoryInv /\ [Next]_vars => HistoryInv'
<1> SUFFICES ASSUME HistoryInv, [Next]_vars
             PROVE  HistoryInv'
  OBVIOUS
<1> USE DEF rowVars, refVars, vars
<1>0. ASSUME UNCHANGED historyVars PROVE HistoryInv'
  BY <1>0 DEF HistoryInv, HistoryTypes, HistoryHasSubject, Rows, historyVars
<1>1. ASSUME NEW a \in Assets, Create(a) \/ ChangeContent(a) \/ Age(a)
      PROVE  HistoryInv'
  <2>1. CASE Create(a)
    BY <2>1, HistoryKeptByUpdate DEF Create
  <2>2. CASE ChangeContent(a) \/ Age(a)
    BY <2>2, <1>0 DEF ChangeContent, Age, historyVars
  <2> QED BY <1>1, <2>1, <2>2
<1>2. ASSUME NEW c \in Callers, NEW a \in Assets, NEW op \in Ops, Begin(c, a, op)
      PROVE  HistoryInv'
  BY <1>2, <1>0 DEF Begin, historyVars
<1>3. ASSUME NEW c \in Callers, Step(c)
      PROVE  HistoryInv'
  <2>1. CASE Evaluate(c) \/ DeleteObjects(c) \/ RowMissing(c) \/ Announce(c)
    BY <2>1, <1>0 DEF Evaluate, Announce, DeleteObjects, RowMissing, historyVars
  <2>2. CASE Publish(c) \/ Archive(c) \/ SoftDelete(c) \/ Restore(c)
    BY <2>2, HistoryKeptByUpdate
       DEF Publish, Archive, SoftDelete, Withdraw, Announce, Restore, Rows
  <2>3. CASE Download(c)
    BY <2>3 DEF Download, HistoryInv, HistoryTypes, HistoryHasSubject, Rows
  <2>4. CASE File(c)
    BY <2>4 DEF File, HistoryInv, HistoryTypes, HistoryHasSubject, Rows
  <2>5. CASE StartReview(c) \/ Dismiss(c) \/ Resolve(c)
    BY <2>5 DEF StartReview, Dismiss, Resolve, SetReport, Announce,
                HistoryInv, HistoryTypes, HistoryHasSubject, Rows
  <2>6. CASE DeleteRow(c)
    <3>1. CASE UNCHANGED rowVars /\ UNCHANGED refVars
      BY <3>1, <1>0 DEF historyVars
    <3>2. CASE on[c] \in Assets /\ ~Referred(on[c]) /\ RowGoes(on[c])
      BY <3>2, HistoryRowGoes
    <3> QED BY <2>6, <3>1, <3>2 DEF DeleteRow, Rows
  <2> QED BY <1>3, <2>1, <2>2, <2>3, <2>4, <2>5, <2>6 DEF Step
<1>4. ASSUME NEW c \in Callers, DeleteObjectsFails(c) \/ Fault(c)
      PROVE  HistoryInv'
  BY <1>4, <1>0 DEF DeleteObjectsFails, Fault, historyVars
<1>5. CASE PurgeCron \/ PurgeObjects \/ PurgeObjectsFails \/ CrashPurge
  BY <1>5, <1>0 DEF PurgeCron, PurgeObjects, PurgeObjectsFails, CrashPurge, historyVars
<1>6. CASE PurgeRow
  <2>1. CASE UNCHANGED rowVars /\ UNCHANGED refVars
    BY <2>1, <1>0 DEF historyVars
  <2>2. CASE cur \in Assets /\ ~Referred(cur) /\ RowGoes(cur)
    BY <2>2, HistoryRowGoes
  <2> QED BY <1>6, <2>1, <2>2 DEF PurgeRow, Rows
<1>7. CASE UNCHANGED vars
  BY <1>7, <1>0 DEF historyVars
<1> QED
  BY <1>1, <1>2, <1>3, <1>4, <1>5, <1>6, <1>7 DEF Next, PurgeStep

\* A Download or Report row always has its asset.
THEOREM HistoryKeepsSubject == Spec => []HistoryHasSubject
<1>1. HistoryInv => HistoryHasSubject
  BY DEF HistoryInv
<1> QED BY HistoryInit, HistoryStep, <1>1, PTL DEF Spec

-----------------------------------------------------------------------------
(* The requests: types, and the action of a report.                        *)

\* The operations of Plan and what is left of them: those that a report orders
\* and the others.
ActionLists ==
    {<<"resolve">>, <<"announce", "resolve">>, <<"archive", "announce", "resolve">>,
     <<"delete", "announce", "resolve">>, <<"objects", "row", "resolve">>, <<"row", "resolve">>}

\* The lists of the other operations, and what is left of them.
OtherLists ==
    {<<"evaluate", "publish">>, <<"publish">>, <<"archive">>, <<"delete">>, <<"restore">>,
     <<"objects", "row">>, <<"row">>, <<"download">>, <<"report">>, <<"review">>, <<"dismiss">>}

\* All lists of steps a request may have.
Lists == {<<>>} \cup ActionLists \cup OtherLists

\* What is left after a step is a list again, ordered by a report if it was.
LEMMA ListTail ==
    ASSUME NEW s \in Lists, s # <<>>
    PROVE  /\ Tail(s) \in Lists
           /\ (Len(s) = 1) <=> (Tail(s) = <<>>)
           /\ Tail(s) \in ActionLists => s \in ActionLists
           /\ s = <<"announce", "resolve">> => Tail(s) = <<"resolve">> /\ s \in ActionLists
           /\ Head(s) = "resolve" => s = <<"resolve">> /\ s \in ActionLists
<1> USE DEF Lists, ActionLists, OtherLists
<1>1. CASE s = <<"resolve">>
  BY <1>1
<1>2. CASE s = <<"archive", "announce", "resolve">>
  BY <1>2
<1>3. CASE s = <<"delete", "announce", "resolve">>
  BY <1>3
<1>4. CASE s = <<"objects", "row", "resolve">>
  BY <1>4
<1>5. CASE s = <<"row", "resolve">>
  BY <1>5
<1>6. CASE s = <<"evaluate", "publish">>
  BY <1>6
<1>7. CASE s = <<"publish">>
  BY <1>7
<1>8. CASE s = <<"archive">>
  BY <1>8
<1>9. CASE s = <<"delete">>
  BY <1>9
<1>10. CASE s = <<"restore">>
  BY <1>10
<1>11. CASE s = <<"objects", "row">>
  BY <1>11
<1>12. CASE s = <<"row">>
  BY <1>12
<1>13. CASE s = <<"download">>
  BY <1>13
<1>14. CASE s = <<"report">>
  BY <1>14
<1>15. CASE s = <<"review">>
  BY <1>15
<1>16. CASE s = <<"dismiss">>
  BY <1>16
<1>17. CASE s = <<"announce", "resolve">>
  BY <1>17
<1> QED
  BY <1>1, <1>2, <1>3, <1>4, <1>5, <1>6, <1>7, <1>8, <1>9, <1>10, <1>11, <1>12, <1>13, <1>14, <1>15,
     <1>16, <1>17

\* The lists are sequences of the steps.
LEMMA ListType ==
    Lists \subseteq Seq({"evaluate", "publish", "archive", "delete", "announce", "restore", "objects",
                       "row", "download", "report", "review", "dismiss", "resolve"})
<1> DEFINE Steps == {"evaluate", "publish", "archive", "delete", "announce", "restore", "objects",
                    "row", "download", "report", "review", "dismiss", "resolve"}
<1>1. ActionLists \subseteq Seq(Steps)
  BY DEF ActionLists
<1>2. OtherLists \subseteq Seq(Steps)
  BY DEF OtherLists
<1>3. <<>> \in Seq(Steps)
  OBVIOUS
<1> QED BY <1>1, <1>2, <1>3 DEF Lists

\* The flags kept with the rows, and the purge.
Columns ==
    /\ green \in [Assets -> BOOLEAN] /\ intact \in [Assets -> BOOLEAN]
    /\ purge \in {"idle", "objects", "row"}
    /\ left \subseteq Assets /\ IF purge = "idle" THEN cur = NoAsset ELSE cur \in left
    /\ faults \in 0 .. MaxFaults

\* A request has an asset, and one that a report orders has that report.
Requests ==
    /\ todo \in [Callers -> Lists] /\ on \in [Callers -> Assets \cup {NoAsset}]
    /\ \A c \in Callers : todo[c] # <<>> => on[c] \in Assets
    /\ \A c \in Callers : todo[c] \in ActionLists => report[on[c]] # "none"

\* The inductive invariant of the requests in flight.
LifeInv == ClockInv /\ HistoryInv /\ Columns /\ Requests

\* Reports are never deleted.
ReportsStay == \A a \in Assets : report[a] # "none" => report'[a] # "none"

\* A request takes a step, or ends.
LEMMA RequestMoves ==
    ASSUME Requests, ReportsStay, NEW c \in Callers, todo[c] # <<>>, Advance(c) \/ Leave(c)
    PROVE  Requests'
<1>1. <<>> \in Lists /\ <<>> \notin ActionLists
  BY DEF Lists, ActionLists
<1>2. CASE Leave(c)
  BY <1>1, <1>2 DEF Requests, ReportsStay, Leave
<1>3. CASE Advance(c) /\ ~Leave(c)
  <2>1. todo' = [todo EXCEPT ![c] = Tail(todo[c])] /\ on' = on
    BY <1>3 DEF Advance, Requests
  <2>2. Tail(todo[c]) \in Lists /\ (Tail(todo[c]) \in ActionLists => todo[c] \in ActionLists)
    BY ListTail DEF Requests
  <2> QED BY <1>1, <2>1, <2>2 DEF Requests, ReportsStay
<1> QED BY <1>2, <1>3

\* Nobody's request takes a step.
LEMMA RequestsStay ==
    ASSUME Requests, ReportsStay, UNCHANGED reqVars PROVE Requests'
<1>1. <<>> \notin ActionLists
  BY DEF ActionLists
<1> QED BY <1>1 DEF Requests, ReportsStay, reqVars

\* A step of a request.
LEMMA StepKeepsRequests ==
    ASSUME LifeInv, NEW c \in Callers, Step(c) \/ DeleteObjectsFails(c) \/ Fault(c)
    PROVE  Requests' /\ Columns'
<1> USE DEF LifeInv
<1>1. todo[c] # <<>> /\ (Advance(c) \/ Leave(c))
  BY DEF Step, Evaluate, Publish, Archive, SoftDelete, Withdraw, Announce, Restore, Download, File,
         StartReview, Dismiss, Resolve, SetReport, DeleteObjects, DeleteRow, RowMissing,
         DeleteObjectsFails, Fault, At
<1>2. on[c] \in Assets
  BY <1>1 DEF Requests
<1>3. ReportsStay
  <2>1. CASE File(c)
    BY <2>1 DEF File, ReportsStay, HistoryInv, HistoryTypes
  <2>2. CASE StartReview(c) \/ Dismiss(c) \/ Resolve(c)
    BY <2>2 DEF StartReview, Dismiss, Resolve, SetReport, Announce, ReportsStay, HistoryInv, HistoryTypes
  <2>3. CASE report' = report
    BY <2>3 DEF ReportsStay
  <2>4. ~(File(c) \/ StartReview(c) \/ Dismiss(c) \/ Resolve(c)) => report' = report
    BY DEF Step, Evaluate, Publish, Archive, SoftDelete, Withdraw, Announce, Restore, Download,
           DeleteObjects, DeleteRow, RowGoes, RowMissing, DeleteObjectsFails, Fault, refVars
  <2> QED BY <2>1, <2>2, <2>3, <2>4
<1>4. Requests'
  BY <1>1, <1>3, RequestMoves
<1>5. UNCHANGED purgeVars
  BY DEF Step, Evaluate, Publish, Archive, SoftDelete, Withdraw, Announce, Restore, Download, File,
         StartReview, Dismiss, Resolve, SetReport, DeleteObjects, DeleteRow, RowMissing,
         DeleteObjectsFails, Fault
<1>6. green' \in [Assets -> BOOLEAN]
  <2>1. green' = green \/ green' = [green EXCEPT ![on[c]] = FALSE]
    BY DEF Step, Evaluate, Publish, Archive, SoftDelete, Withdraw, Announce, Restore, Download, File,
           StartReview, Dismiss, Resolve, SetReport, Announce, DeleteObjects, DeleteRow, RowGoes, RowMissing,
           DeleteObjectsFails, Fault
  <2> QED BY <1>2, <2>1 DEF Columns
<1>7. intact' \in [Assets -> BOOLEAN]
  <2>1. CASE DeleteObjects(c)
    BY <1>2, <2>1 DEF DeleteObjects, Columns
  <2>2. CASE DeleteObjectsFails(c)
    BY <1>2, <2>2 DEF DeleteObjectsFails, Columns
  <2>3. ~(DeleteObjects(c) \/ DeleteObjectsFails(c)) => intact' = intact
    BY DEF Step, Evaluate, Publish, Archive, SoftDelete, Withdraw, Announce, Restore, Download, File,
           StartReview, Dismiss, Resolve, SetReport, Announce, DeleteRow, RowGoes, RowMissing, Fault
  <2> QED BY <2>1, <2>2, <2>3 DEF Columns
<1>8. faults' \in 0 .. MaxFaults
  <2>1. CASE DeleteObjectsFails(c) \/ Fault(c)
    BY <2>1, LifecycleAssumption DEF DeleteObjectsFails, Fault, Columns
  <2>2. CASE Step(c)
    <3>1. faults' = faults
      BY <2>2 DEF Step, Evaluate, Publish, Archive, SoftDelete, Withdraw, Announce, Restore, Download, File,
           StartReview, Dismiss, Resolve, SetReport, Announce, DeleteObjects, DeleteRow, RowGoes, RowMissing
    <3> QED BY <3>1 DEF Columns
  <2> QED BY <2>1, <2>2
<1> QED BY <1>4, <1>5, <1>6, <1>7, <1>8 DEF Columns, purgeVars

\* The beginning of a request: a report's action has its report.
LEMMA BeginKeepsRequests ==
    ASSUME LifeInv, NEW c \in Callers, NEW a \in Assets, NEW op \in Ops, Begin(c, a, op)
    PROVE  Requests' /\ Columns'
<1> USE DEF LifeInv
<1>1. Plan[op] \in Lists
  BY LifecycleAssumption DEF Plan, Lists, ActionLists, OtherLists
<1>2. Plan[op] \in ActionLists => report[a] # "none"
  <2>1. op \in {"actNothing", "actArchive", "actDelete", "actForce"} => report[a] # "none"
    BY DEF Begin, Admits
  <2>2. op \notin {"actNothing", "actArchive", "actDelete", "actForce"} => Plan[op] \notin ActionLists
    BY LifecycleAssumption DEF Plan, ActionLists
  <2> QED BY <2>1, <2>2
<1>3. <<>> \notin ActionLists
  BY DEF ActionLists
<1>4. /\ todo' = [todo EXCEPT ![c] = Plan[op]] /\ on' = [on EXCEPT ![c] = a] /\ report' = report
  BY DEF Begin, refVars
<1>5. Requests'
  BY <1>1, <1>2, <1>3, <1>4 DEF Requests
<1>6. Columns'
  BY DEF Begin, Columns, purgeVars
<1> QED BY <1>5, <1>6

\* The purge, and the loop it runs.
LEMMA PurgeKeeps ==
    ASSUME LifeInv, PurgeStep \/ PurgeObjectsFails \/ CrashPurge
    PROVE  Requests' /\ Columns'
<1> USE DEF LifeInv
<1>1. report' = report /\ UNCHANGED reqVars
  BY DEF PurgeStep, PurgeCron, PurgeObjects, PurgeRow, PurgeObjectsFails, CrashPurge, RowGoes, refVars
<1>2. Requests'
  BY <1>1, RequestsStay DEF ReportsStay
<1>3. ASSUME NextCandidate, purge # "idle"
      PROVE  /\ purge' \in {"idle", "objects", "row"}
             /\ left' \subseteq Assets /\ IF purge' = "idle" THEN cur' = NoAsset ELSE cur' \in left'
  BY <1>3 DEF NextCandidate, Columns
<1>4. CASE PurgeCron
  BY <1>2, <1>4 DEF PurgeCron, Candidates, Columns
<1>5. CASE PurgeObjects
  BY <1>2, <1>5 DEF PurgeObjects, Columns
<1>6. CASE PurgeRow
  <2>1. NextCandidate /\ purge # "idle" /\ intact' = intact /\ faults' = faults
    BY <1>6 DEF PurgeRow, PurgeFailed, RowGoes
  <2>2. green' = green \/ green' = [green EXCEPT ![cur] = FALSE]
    BY <1>6 DEF PurgeRow, RowGoes
  <2> QED BY <1>2, <1>3, <2>1, <2>2 DEF Columns
<1>7. CASE PurgeObjectsFails
  <2>1. NextCandidate /\ purge # "idle" /\ green' = green
    BY <1>7 DEF PurgeObjectsFails, PurgeFailed
  <2>2. faults' \in 0 .. MaxFaults
    BY <1>7, LifecycleAssumption DEF PurgeObjectsFails, Columns
  <2>3. cur \in Assets
    BY <2>1 DEF Columns
  <2>4. intact' \in [Assets -> BOOLEAN]
    BY <1>7, <2>3 DEF PurgeObjectsFails, Columns
  <2> QED BY <1>2, <1>3, <2>1, <2>2, <2>4 DEF Columns
<1>8. CASE CrashPurge
  BY <1>2, <1>8, LifecycleAssumption DEF CrashPurge, Columns
<1> QED BY <1>4, <1>5, <1>6, <1>7, <1>8 DEF PurgeStep

\* Every step keeps all of it.
LEMMA LifeStep == LifeInv /\ [Next]_vars => LifeInv'
<1> SUFFICES ASSUME LifeInv, [Next]_vars PROVE LifeInv'
  OBVIOUS
<1>1. ClockInv' /\ HistoryInv'
  BY ClockStep, HistoryStep DEF LifeInv
<1>2. ASSUME NEW a \in Assets, Create(a) \/ ChangeContent(a) \/ Age(a)
      PROVE  Requests' /\ Columns'
  <2>1. report' = report /\ UNCHANGED reqVars
    BY <1>2 DEF Create, ChangeContent, Age, refVars
  <2>2. Requests'
    BY <2>1, RequestsStay DEF LifeInv, ReportsStay
  <2>3. Columns'
    BY <1>2 DEF LifeInv, Columns, Create, ChangeContent, Age, purgeVars
  <2> QED BY <2>2, <2>3
<1>3. ASSUME UNCHANGED vars PROVE Requests' /\ Columns'
  <2>1. report' = report /\ UNCHANGED reqVars
    BY <1>3 DEF vars, refVars
  <2>2. Requests'
    BY <2>1, RequestsStay DEF LifeInv, ReportsStay
  <2>3. Columns'
    BY <1>3 DEF LifeInv, Columns, vars, purgeVars
  <2> QED BY <2>2, <2>3
<1>4. Requests' /\ Columns'
  BY <1>2, <1>3, StepKeepsRequests, BeginKeepsRequests, PurgeKeeps DEF Next
<1> QED BY <1>1, <1>4 DEF LifeInv

\* It holds at first.
LEMMA LifeInit == Init => LifeInv
<1> SUFFICES ASSUME Init PROVE LifeInv
  OBVIOUS
<1>1. <<>> \in Lists /\ <<>> \notin ActionLists
  BY DEF Lists, ActionLists
<1>2. Requests /\ Columns
  BY <1>1, LifecycleAssumption DEF Init, Requests, Columns
<1> QED BY <1>2, ClockInit, HistoryInit DEF LifeInv

\* Types are kept by every request, the purge, faults and S3 failures.
THEOREM TypeCorrect == Spec => []TypeOK
<1>1. LifeInv => TypeOK
  BY ListType DEF LifeInv, ClockInv, ClockTypes, HistoryInv, HistoryTypes, Columns, Requests, TypeOK
<1> QED BY <1>1, LifeInit, LifeStep, PTL DEF Spec

\* An action that has withdrawn the asset of its report ends by making the
\* report ACTIONED, unless a call of its own throws or its process dies: the
\* asset cannot go in between, since the report itself holds the row back.
THEOREM ActionCompletes == Spec => ReportActionCompletes
<1>1. LifeInv /\ [Next]_vars =>
          [\A c \in Callers :
              todo[c] \in Withdrawn /\ todo'[c] \notin Withdrawn /\ faults' = faults
                => report'[on[c]] = "ACTIONED"]_vars
  <2> SUFFICES ASSUME LifeInv, Next, NEW c \in Callers,
                      todo[c] \in Withdrawn, todo'[c] \notin Withdrawn, faults' = faults
               PROVE  report'[on[c]] = "ACTIONED"
    OBVIOUS
  <2>1. todo[c] \in ActionLists /\ todo[c] # <<>> /\ todo[c] \in Lists /\ todo'[c] # todo[c]
    BY DEF Withdrawn, ActionLists, Lists
  <2>2. on[c] \in Rows
    BY <2>1 DEF LifeInv, Requests, HistoryInv, HistoryHasSubject
  <2>3. \A d \in Callers : ~Fault(d) /\ ~DeleteObjectsFails(d)
    BY DEF Fault, DeleteObjectsFails, LifeInv, Columns
  <2>4. \A d \in Callers, a \in Assets, op \in Ops : Begin(d, a, op) => d # c
    BY <2>1 DEF Begin
  <2>5. \A d \in Callers, a \in Assets, op \in Ops : ~Begin(d, a, op)
    BY <2>1, <2>4 DEF Begin, LifeInv, Requests
  <2>6. \A a \in Assets : ~(Create(a) \/ ChangeContent(a) \/ Age(a))
    BY <2>1 DEF Create, ChangeContent, Age, reqVars
  <2>7. ~(PurgeStep \/ PurgeObjectsFails \/ CrashPurge)
    BY <2>1 DEF PurgeStep, PurgeCron, PurgeObjects, PurgeRow, PurgeObjectsFails, CrashPurge, reqVars
  <2>8. PICK d \in Callers : Step(d)
    BY <2>3, <2>5, <2>6, <2>7 DEF Next
  <2>9. d = c
    <3>1. Advance(d) \/ Leave(d)
      BY <2>8 DEF Step, Evaluate, Publish, Archive, SoftDelete, Withdraw, Announce, Restore, Download,
         File, StartReview, Dismiss, Resolve, SetReport, DeleteObjects, DeleteRow, RowMissing
    <3> QED BY <2>1, <3>1 DEF Advance, Leave, LifeInv, Requests
  <2>10. Resolve(c) \/ Announce(c)
    <3>1. Head(todo[c]) \in {"announce", "resolve"}
      BY DEF Withdrawn
    <3> QED
      BY <2>1, <2>2, <2>8, <2>9, <3>1
         DEF Step, Evaluate, Publish, Archive, SoftDelete, Withdraw, Restore, Download, File,
             StartReview, Dismiss, SetReport, DeleteObjects, DeleteRow, RowMissing, At
  <2>11. ~Announce(c)
    <3>1. ASSUME Announce(c) PROVE FALSE
      <4>1. todo[c] = <<"announce", "resolve">>
        BY <3>1 DEF Announce, At, Withdrawn
      <4>2. Len(todo[c]) # 1 /\ Tail(todo[c]) = <<"resolve">>
        BY <4>1
      <4>3. todo'[c] = <<"resolve">>
        BY <3>1, <4>2 DEF Announce, Advance, LifeInv, Requests
      <4> QED BY <4>3 DEF Withdrawn
    <3> QED BY <3>1
  <2> QED BY <2>2, <2>10, <2>11 DEF Resolve, SetReport, Rows, LifeInv, HistoryInv, HistoryTypes
<1> QED BY <1>1, LifeInit, LifeStep, PTL DEF Spec, ReportActionCompletes

-----------------------------------------------------------------------------
(* Editing: what is locked stays, and what changes is enqueued.            *)

\* A row of an asset, of its latest version, and of the fields it had when they
\* became locked.
Piece ==
    [status : {"absent", "DRAFT", "PUBLISHED", "ARCHIVED"},
     slug : Slugs \cup {Same}, engine : Engines \cup {Same}]

\* The latest version's semver, and whether it is out.
Newest == [semver : Semvers \cup {Same}, out : BOOLEAN]

\* A request: it knows its asset; what it saw locked it does not write.
Draft ==
    {d \in [step : {"idle", "version", "write", "enqueue"}, work : Works \cup {Same},
            saw : {"none", "moved", "absent", "DRAFT", "PUBLISHED", "ARCHIVED"},
            open : BOOLEAN, new : Changes] :
        /\ d.step # "idle" => d.work \in Works
        /\ d.saw = "PUBLISHED" => d.new.slug = Same /\ d.new.engine = Same
        /\ d.step = "write" /\ ~d.open => d.new.semver = Same}

\* The types of the variables of Editing.
EditTypes ==
    /\ work \in [Works -> Piece]
    /\ latest \in [Works -> Newest]
    /\ edit \in [Editors -> Draft]
    /\ pinned \in [Works -> Changes]
    /\ unindexed \subseteq Works

\* What is locked is as it was when it became so, or was written by a request that
\* had read it unlocked.
LockedKept ==
    \A w \in Works :
        /\ work[w].status = "PUBLISHED" =>
               /\ work[w].slug = pinned[w].slug \/ <<w, "slug">> \in overtook
               /\ work[w].engine = pinned[w].engine \/ <<w, "engine">> \in overtook
        /\ latest[w].out => latest[w].semver = pinned[w].semver \/ <<w, "semver">> \in overtook

\* A request that will enqueue asset w.
WillEnqueue(w, k) ==
    edit[k].step = "enqueue" /\ edit[k].work = w /\ edit[k].saw \in {"moved", "PUBLISHED"}

\* An asset that is not indexed and not overlooked has a request that is going to enqueue it.
EnqueueKept == \A w \in unindexed \ overlooked : \E k \in Editors : WillEnqueue(w, k)

\* The inductive invariant of Editing.
EditInv == EditTypes /\ LockedKept /\ EnqueueKept

\* A step of a request keeps EnqueueKept if it was not to enqueue, or enqueues, what
\* is left.
LEMMA EnqueueStays ==
    ASSUME EnqueueKept, NEW k \in Editors, \A j \in Editors \ {k} : edit'[j] = edit[j],
           \A w \in unindexed' \ overlooked' :
               WillEnqueue(w, k)' \/ (w \in unindexed \ overlooked /\ ~WillEnqueue(w, k))
    PROVE  EnqueueKept'
<1> SUFFICES ASSUME NEW w \in unindexed' \ overlooked'
             PROVE  \E j \in Editors : WillEnqueue(w, j)'
  BY DEF EnqueueKept
<1>1. CASE WillEnqueue(w, k)'
  BY <1>1
<1>2. CASE w \in unindexed \ overlooked /\ ~WillEnqueue(w, k)
  <2>1. PICK j \in Editors : WillEnqueue(w, j)
    BY <1>2 DEF EnqueueKept
  <2>2. j # k /\ edit'[j] = edit[j]
    BY <1>2, <2>1
  <2> QED BY <2>1, <2>2 DEF WillEnqueue
<1> QED BY <1>1, <1>2

\* A step that changes nothing but a request that was not to enqueue.
LEMMA EditKept ==
    ASSUME EditInv, NEW k \in Editors, NEW d \in Draft, edit' = [edit EXCEPT ![k] = d],
           edit[k].step # "enqueue", UNCHANGED <<work, latest, pinned, overtook, unindexed, overlooked>>
    PROVE  EditInv'
<1>1. EditTypes' /\ LockedKept'
  BY DEF EditInv, EditTypes, LockedKept
<1>2. \A j \in Editors \ {k} : edit'[j] = edit[j]
  BY DEF EditInv, EditTypes
<1>3. EnqueueKept'
  BY <1>2, EnqueueStays DEF EditInv, WillEnqueue
<1> QED BY <1>1, <1>3 DEF EditInv

\* The request that is over is one.
LEMMA QuietIsDraft == Quiet \in Draft /\ Quiet.step = "idle" /\ Keep \in Changes
BY DEF Quiet, Draft, Keep, Changes

\* An edit writes what its request found unlocked: if it is locked by now, a race
\* is recorded.
LEMMA EditWritten ==
    ASSUME EditInv, NEW k \in Editors, WriteEdit(k)
    PROVE  EditInv'
<1> DEFINE w == edit[k].work
           new == edit[k].new
           live == work[w].status = "PUBLISHED"
           late == {f \in {"slug", "engine"} : new[f] # Same /\ live /\ edit[k].saw # "PUBLISHED"}
               \cup {f \in {"semver"} : new[f] # Same /\ latest[w].out /\ edit[k].open}
<1>1. edit[k].step = "write" /\ pinned' = pinned
  BY DEF WriteEdit
<1>2. CASE new.slug \in TakenSlugs(Works \ {w}) \ {Same}
  <2>1. edit' = [edit EXCEPT ![k] = Quiet] /\ UNCHANGED <<work, latest, pinned, overtook, unindexed, overlooked>>
    BY <1>2 DEF WriteEdit
  <2> QED BY <1>1, <2>1, EditKept, QuietIsDraft
<1>3. CASE new.slug \notin TakenSlugs(Works \ {w}) \ {Same}
  <2>1. /\ work' = [work EXCEPT ![w].slug = IF new.slug = Same THEN @ ELSE new.slug,
                                ![w].engine = IF new.engine = Same THEN @ ELSE new.engine]
        /\ latest' = [latest EXCEPT ![w].semver = IF new.semver = Same THEN @ ELSE new.semver]
        /\ overtook' = overtook \cup ({w} \X late)
        /\ unindexed' = IF live THEN unindexed \cup {w} ELSE unindexed
        /\ overlooked' = IF live /\ edit[k].saw # "PUBLISHED" THEN overlooked \cup {w} ELSE overlooked
        /\ edit' = [edit EXCEPT ![k].step = "enqueue"]
    BY <1>3 DEF WriteEdit
  <2>2. /\ edit[k] \in Draft /\ w \in Works /\ new \in Changes
        /\ work[w] \in Piece /\ latest[w] \in Newest
    BY <1>1 DEF EditInv, EditTypes, Draft
  <2>3. /\ work' = [work EXCEPT ![w] = [work[w] EXCEPT !.slug = IF new.slug = Same THEN @ ELSE new.slug,
                                                       !.engine = IF new.engine = Same THEN @ ELSE new.engine]]
        /\ latest' = [latest EXCEPT ![w] = [latest[w] EXCEPT !.semver = IF new.semver = Same THEN @ ELSE new.semver]]
        /\ edit' = [edit EXCEPT ![k] = [edit[k] EXCEPT !.step = "enqueue"]]
    BY <2>1
  <2>4. /\ [work[w] EXCEPT !.slug = IF new.slug = Same THEN @ ELSE new.slug,
                           !.engine = IF new.engine = Same THEN @ ELSE new.engine] \in Piece
        /\ [latest[w] EXCEPT !.semver = IF new.semver = Same THEN @ ELSE new.semver] \in Newest
    BY <2>2 DEF Piece, Newest, Changes
  <2>5. [edit[k] EXCEPT !.step = "enqueue"] \in Draft
    BY <2>2 DEF Draft
  <2>6. EditTypes'
    <3>1. /\ work \in [Works -> Piece] /\ latest \in [Works -> Newest]
          /\ edit \in [Editors -> Draft] /\ pinned \in [Works -> Changes] /\ unindexed \subseteq Works
      BY DEF EditInv, EditTypes
    <3>2. work' \in [Works -> Piece] /\ latest' \in [Works -> Newest]
      BY <2>3, <2>4, <3>1
    <3>3. edit' \in [Editors -> Draft]
      BY <2>3, <2>5, <3>1
    <3> QED BY <1>1, <2>1, <2>2, <3>1, <3>2, <3>3 DEF EditTypes
  <2>7. /\ \A v \in Works \ {w} : work'[v] = work[v] /\ latest'[v] = latest[v]
        /\ work'[w].status = work[w].status /\ latest'[w].out = latest[w].out
        /\ work'[w].slug = (IF new.slug = Same THEN work[w].slug ELSE new.slug)
        /\ work'[w].engine = (IF new.engine = Same THEN work[w].engine ELSE new.engine)
        /\ latest'[w].semver = (IF new.semver = Same THEN latest[w].semver ELSE new.semver)
    BY <2>2, <2>3 DEF EditInv, EditTypes, Piece, Newest
  <2>8. /\ edit[k].saw = "PUBLISHED" => new.slug = Same /\ new.engine = Same
        /\ ~edit[k].open => new.semver = Same
    BY <1>1, <2>2 DEF Draft
  <2>9. \A f \in late : <<w, f>> \in overtook'
    BY <2>1
  <2>10. /\ new.slug # Same /\ live => <<w, "slug">> \in overtook'
         /\ new.engine # Same /\ live => <<w, "engine">> \in overtook'
         /\ new.semver # Same /\ latest[w].out => <<w, "semver">> \in overtook'
    BY <2>8, <2>9
  <2>11. overtook \subseteq overtook'
    BY <2>1
  <2>12. LockedKept'
    <3> SUFFICES ASSUME NEW v \in Works
                 PROVE  /\ work'[v].status = "PUBLISHED" =>
                               /\ work'[v].slug = pinned[v].slug \/ <<v, "slug">> \in overtook'
                               /\ work'[v].engine = pinned[v].engine \/ <<v, "engine">> \in overtook'
                        /\ latest'[v].out => latest'[v].semver = pinned[v].semver \/ <<v, "semver">> \in overtook'
      BY <1>1 DEF LockedKept
    <3>1. CASE v = w
      BY <2>7, <2>10, <2>11, <3>1 DEF EditInv, LockedKept
    <3>2. CASE v # w
      BY <2>7, <2>11, <3>2 DEF EditInv, LockedKept
    <3> QED BY <3>1, <3>2
  <2>13. EnqueueKept'
    <3>1. /\ \A j \in Editors \ {k} : edit'[j] = edit[j]
          /\ edit'[k].step = "enqueue" /\ edit'[k].work = w /\ edit'[k].saw = edit[k].saw
      BY <2>2, <2>3 DEF EditInv, EditTypes, Draft
    <3>2. ASSUME NEW v \in unindexed' \ overlooked'
          PROVE  WillEnqueue(v, k)' \/ (v \in unindexed \ overlooked /\ ~WillEnqueue(v, k))
      BY <1>1, <2>1, <3>1 DEF WillEnqueue
    <3> QED BY <3>1, <3>2, EnqueueStays DEF EditInv
  <2> QED BY <2>6, <2>12, <2>13 DEF EditInv
<1> QED BY <1>2, <1>3

\* A transition of the status pins what it locks, and will enqueue.
LEMMA EditMoved ==
    ASSUME EditInv, NEW k \in Editors, NEW w \in Works, NEW from,
           NEW to \in {"PUBLISHED", "ARCHIVED"}, MoveWork(k, w, from, to),
           latest' \in [Works -> Newest], pinned' \in [Works -> Changes], LockedKept'
    PROVE  EditInv'
<1>1. /\ edit[k] = Quiet /\ work' = [work EXCEPT ![w].status = to]
      /\ edit' = [edit EXCEPT ![k] = [Quiet EXCEPT !.step = "enqueue", !.work = w, !.saw = "moved"]]
      /\ unindexed' = IF to = "PUBLISHED" THEN unindexed \cup {w} ELSE unindexed \ {w}
      /\ overlooked' = overlooked \ {w}
  BY DEF MoveWork
<1>2. [Quiet EXCEPT !.step = "enqueue", !.work = w, !.saw = "moved"] \in Draft
  BY QuietIsDraft DEF Quiet, Draft
<1>3. EditTypes'
  <2>1. work' = [work EXCEPT ![w] = [work[w] EXCEPT !.status = to]]
    BY <1>1
  <2>2. [work[w] EXCEPT !.status = to] \in Piece
    BY DEF EditInv, EditTypes, Piece
  <2> QED BY <1>1, <1>2, <2>1, <2>2 DEF EditInv, EditTypes
<1>4. /\ \A j \in Editors \ {k} : edit'[j] = edit[j]
      /\ edit'[k].step = "enqueue" /\ edit'[k].work = w /\ edit'[k].saw = "moved"
      /\ edit[k].step = "idle"
  BY <1>1 DEF EditInv, EditTypes, Quiet
<1>5. ASSUME NEW v \in unindexed' \ overlooked'
      PROVE  WillEnqueue(v, k)' \/ (v \in unindexed \ overlooked /\ ~WillEnqueue(v, k))
  BY <1>1, <1>4 DEF WillEnqueue
<1>6. EnqueueKept'
  BY <1>4, <1>5, EnqueueStays DEF EditInv
<1> QED BY <1>3, <1>6 DEF EditInv

\* What a transition to PUBLISHED locks it pins as it is.
LEMMA EditLocked ==
    ASSUME EditInv, NEW w \in Works, NEW fields \in {{"slug", "engine"}, {"slug", "engine", "semver"}},
           Locking(w, fields), work' = [work EXCEPT ![w].status = "PUBLISHED"],
           latest' = [latest EXCEPT ![w].out = TRUE] \/ latest' = latest,
           "semver" \in fields \/ (latest'[w].out <=> latest[w].out)
    PROVE  pinned' \in [Works -> Changes] /\ LockedKept'
<1> DEFINE pin == [slug |-> work[w].slug, engine |-> work[w].engine,
                   semver |-> IF "semver" \in fields THEN latest[w].semver ELSE pinned[w].semver,
                   text |-> FALSE]
<1>1. /\ pinned' = [pinned EXCEPT ![w] = pin]
      /\ overtook' = overtook \ ({w} \X fields)
  BY DEF Locking
<1>2. work[w] \in Piece /\ latest[w] \in Newest /\ pinned[w] \in Changes
  BY DEF EditInv, EditTypes
<1>3. pin \in Changes
  BY <1>2 DEF Piece, Newest, Changes
<1>4. pinned' \in [Works -> Changes] /\ pinned'[w] = pin /\ \A v \in Works \ {w} : pinned'[v] = pinned[v]
  BY <1>1, <1>3 DEF EditInv, EditTypes
<1>5. /\ \A v \in Works \ {w} : work'[v] = work[v] /\ latest'[v] = latest[v]
      /\ work'[w].slug = work[w].slug /\ work'[w].engine = work[w].engine
      /\ latest'[w].semver = latest[w].semver
  BY DEF EditInv, EditTypes, Piece, Newest
<1>6. \A v \in Works \ {w} : \A f : <<v, f>> \in overtook => <<v, f>> \in overtook'
  BY <1>1
<1>7. "semver" \notin fields => (<<w, "semver">> \in overtook => <<w, "semver">> \in overtook')
  BY <1>1
<1>8. pin.slug = work[w].slug /\ pin.engine = work[w].engine
      /\ pin.semver = (IF "semver" \in fields THEN latest[w].semver ELSE pinned[w].semver)
  OBVIOUS
<1> HIDE DEF pin
<1>9. LockedKept'
  <2> SUFFICES ASSUME NEW v \in Works
               PROVE  /\ work'[v].status = "PUBLISHED" =>
                             /\ work'[v].slug = pinned'[v].slug \/ <<v, "slug">> \in overtook'
                             /\ work'[v].engine = pinned'[v].engine \/ <<v, "engine">> \in overtook'
                      /\ latest'[v].out => latest'[v].semver = pinned'[v].semver \/ <<v, "semver">> \in overtook'
    BY DEF LockedKept
  <2>1. CASE v = w
    BY <1>4, <1>5, <1>7, <1>8, <2>1 DEF EditInv, LockedKept
  <2>2. CASE v # w
    BY <1>4, <1>5, <1>6, <2>2 DEF EditInv, LockedKept
  <2> QED BY <2>1, <2>2
<1> QED BY <1>4, <1>9

\* Every step of an editor keeps the invariant.
LEMMA EditStep ==
    ASSUME EditInv, [EditingNext]_editingVars
    PROVE  EditInv'
<1>1. ASSUME NEW k \in Editors, NEW w \in Works, NEW s \in Slugs, NEW e \in Engines, NEW v \in Semvers,
             CreateWork(k, w, s, e, v)
      PROVE  EditInv'
  <2>1. /\ work' = [work EXCEPT ![w] = [status |-> "DRAFT", slug |-> s, engine |-> e]]
        /\ latest' = [latest EXCEPT ![w] = [semver |-> v, out |-> FALSE]]
        /\ UNCHANGED <<edit, pinned, overtook, unindexed, overlooked>>
    BY <1>1 DEF CreateWork
  <2>2. /\ [status |-> "DRAFT", slug |-> s, engine |-> e] \in Piece
        /\ [semver |-> v, out |-> FALSE] \in Newest
    BY DEF Piece, Newest
  <2>3. EditTypes'
    BY <2>1, <2>2 DEF EditInv, EditTypes
  <2>4. LockedKept'
    <3>1. work'[w].status = "DRAFT" /\ latest'[w].out = FALSE
      BY <2>1 DEF EditInv, EditTypes
    <3>2. \A u \in Works \ {w} : work'[u] = work[u] /\ latest'[u] = latest[u]
      BY <2>1 DEF EditInv, EditTypes
    <3> QED BY <2>1, <3>1, <3>2 DEF EditInv, LockedKept
  <2>5. EnqueueKept'
    BY <2>1 DEF EditInv, EnqueueKept, WillEnqueue
  <2> QED BY <2>3, <2>4, <2>5 DEF EditInv
<1>2. ASSUME NEW k \in Editors, NEW w \in Works, NEW new \in Changes, FindWork(k, w, new)
      PROVE  EditInv'
  <2> DEFINE kept == [new EXCEPT !.slug = IF @ = work[w].slug THEN Same ELSE @,
                                 !.engine = IF @ = work[w].engine THEN Same ELSE @]
             d == [step |-> "version", work |-> w, saw |-> work[w].status, open |-> TRUE, new |-> kept]
  <2>1. /\ edit[k] = Quiet /\ ~Refused(w, new) /\ edit' = [edit EXCEPT ![k] = d]
        /\ UNCHANGED <<work, latest, pinned, overtook, unindexed, overlooked>>
    BY <1>2 DEF FindWork
  <2>2. /\ kept \in Changes
        /\ kept.slug = (IF new.slug = work[w].slug THEN Same ELSE new.slug)
        /\ kept.engine = (IF new.engine = work[w].engine THEN Same ELSE new.engine)
    BY DEF Changes
  <2> HIDE DEF kept
  <2>3. work[w].status = "PUBLISHED" => kept.slug = Same /\ kept.engine = Same
    BY <2>1, <2>2 DEF Refused, Changing
  <2>4. work[w].status \in {"absent", "DRAFT", "PUBLISHED", "ARCHIVED"}
    BY DEF EditInv, EditTypes, Piece
  <2>5. d \in Draft
    BY <2>2, <2>3, <2>4 DEF Draft
  <2> QED BY <2>1, <2>5, EditKept, QuietIsDraft
<1>3. ASSUME NEW k \in Editors, ReadVersion(k)
      PROVE  EditInv'
  <2> DEFINE w == edit[k].work
             d == [edit[k] EXCEPT !.step = "write", !.open = ~latest[w].out,
                                  !.new.semver = IF @ = latest[w].semver THEN Same ELSE @]
  <2>1. /\ edit[k].step = "version" /\ edit[k] \in Draft /\ w \in Works /\ latest[w] \in Newest
        /\ UNCHANGED <<work, latest, pinned, overtook, unindexed, overlooked>>
    BY <1>3 DEF ReadVersion, EditInv, EditTypes, Draft
  <2>2. CASE Changing(latest[w].semver, edit[k].new.semver) /\ latest[w].out
    BY <1>3, <2>1, <2>2, EditKept, QuietIsDraft DEF ReadVersion
  <2>3. CASE ~(Changing(latest[w].semver, edit[k].new.semver) /\ latest[w].out)
    <3>1. edit' = [edit EXCEPT ![k] = d]
      BY <1>3, <2>3 DEF ReadVersion
    <3>2. d \in Draft
      BY <2>1, <2>3 DEF Draft, Changes, Newest, Changing
    <3> QED BY <2>1, <3>1, <3>2, EditKept
  <2> QED BY <2>2, <2>3
<1>4. ASSUME NEW k \in Editors, EnqueueEdit(k)
      PROVE  EditInv'
  <2> DEFINE w == edit[k].work
             done == IF edit[k].saw \in {"moved", "PUBLISHED"} THEN {w} ELSE {}
  <2>1. /\ unindexed' = unindexed \ done /\ overlooked' = overlooked \ done
        /\ edit' = [edit EXCEPT ![k] = Quiet] /\ UNCHANGED <<work, latest, pinned, overtook>>
        /\ edit[k].step = "enqueue"
    BY <1>4 DEF EnqueueEdit
  <2>2. EditTypes' /\ LockedKept'
    BY <2>1, QuietIsDraft DEF EditInv, EditTypes, LockedKept
  <2>3. \A j \in Editors \ {k} : edit'[j] = edit[j]
    BY <2>1 DEF EditInv, EditTypes
  <2>4. \A v \in unindexed' \ overlooked' : v \in unindexed \ overlooked /\ ~WillEnqueue(v, k)
    BY <2>1 DEF WillEnqueue
  <2>5. EnqueueKept'
    BY <2>3, <2>4, EnqueueStays DEF EditInv
  <2> QED BY <2>2, <2>5 DEF EditInv
<1>5. ASSUME NEW k \in Editors, DieEditing(k)
      PROVE  EditInv'
  <2>1. /\ overlooked' = IF edit[k].step = "enqueue" THEN overlooked \cup (unindexed \cap {edit[k].work})
                         ELSE overlooked
        /\ edit' = [edit EXCEPT ![k] = Quiet] /\ UNCHANGED <<work, latest, pinned, overtook, unindexed>>
    BY <1>5 DEF DieEditing
  <2>2. EditTypes' /\ LockedKept'
    BY <2>1, QuietIsDraft DEF EditInv, EditTypes, LockedKept
  <2>3. \A j \in Editors \ {k} : edit'[j] = edit[j]
    BY <2>1 DEF EditInv, EditTypes
  <2>4. \A v \in unindexed' \ overlooked' : v \in unindexed \ overlooked /\ ~WillEnqueue(v, k)
    BY <2>1 DEF WillEnqueue
  <2>5. EnqueueKept'
    BY <2>3, <2>4, EnqueueStays DEF EditInv
  <2> QED BY <2>2, <2>5 DEF EditInv
<1>6. ASSUME NEW k \in Editors, NEW w \in Works, PublishWork(k, w)
      PROVE  EditInv'
  <2>1. /\ MoveWork(k, w, {"DRAFT", "PUBLISHED", "ARCHIVED"}, "PUBLISHED")
        /\ latest' = [latest EXCEPT ![w].out = TRUE]
    BY <1>6 DEF PublishWork
  <2>2. latest' = [latest EXCEPT ![w] = [latest[w] EXCEPT !.out = TRUE]]
    BY <2>1
  <2>3. [latest[w] EXCEPT !.out = TRUE] \in Newest
    BY DEF EditInv, EditTypes, Newest
  <2>4. latest' \in [Works -> Newest] /\ latest'[w].out = TRUE
    BY <2>2, <2>3 DEF EditInv, EditTypes, Newest
  <2>5. work' = [work EXCEPT ![w].status = "PUBLISHED"]
    BY <2>1 DEF MoveWork
  <2>6. CASE work[w].status = "PUBLISHED" /\ latest[w].out
    <3>1. UNCHANGED <<pinned, overtook>>
      BY <1>6, <2>6 DEF PublishWork
    <3>2. /\ \A v \in Works \ {w} : work'[v] = work[v] /\ latest'[v] = latest[v]
          /\ work'[w].slug = work[w].slug /\ work'[w].engine = work[w].engine
          /\ latest'[w].semver = latest[w].semver
      BY <2>2, <2>5 DEF EditInv, EditTypes, Piece, Newest
    <3>3. LockedKept'
      <4> SUFFICES ASSUME NEW v \in Works
                   PROVE  /\ work'[v].status = "PUBLISHED" =>
                                 /\ work'[v].slug = pinned[v].slug \/ <<v, "slug">> \in overtook
                                 /\ work'[v].engine = pinned[v].engine \/ <<v, "engine">> \in overtook
                          /\ latest'[v].out => latest'[v].semver = pinned[v].semver \/ <<v, "semver">> \in overtook
        BY <3>1 DEF LockedKept
      <4>1. CASE v = w
        BY <2>6, <3>2, <4>1 DEF EditInv, LockedKept
      <4>2. CASE v # w
        BY <3>2, <4>2 DEF EditInv, LockedKept
      <4> QED BY <4>1, <4>2
    <3>4. pinned' \in [Works -> Changes]
      BY <3>1 DEF EditInv, EditTypes
    <3> QED BY <2>1, <2>4, <3>3, <3>4, EditMoved
  <2>7. CASE ~(work[w].status = "PUBLISHED" /\ latest[w].out)
    <3>1. Locking(w, IF latest[w].out THEN {"slug", "engine"} ELSE {"slug", "engine", "semver"})
      BY <1>6, <2>7 DEF PublishWork
    <3>2. pinned' \in [Works -> Changes] /\ LockedKept'
      <4>1. CASE latest[w].out
        <5>1. Locking(w, {"slug", "engine"})
          BY <3>1, <4>1
        <5> QED BY <2>1, <2>4, <2>5, <4>1, <5>1, EditLocked
      <4>2. CASE ~latest[w].out
        <5>1. Locking(w, {"slug", "engine", "semver"})
          BY <3>1, <4>2
        <5> QED BY <2>1, <2>5, <5>1, EditLocked
      <4> QED BY <4>1, <4>2
    <3> QED BY <2>1, <2>4, <3>2, EditMoved
  <2> QED BY <2>6, <2>7
<1>7. ASSUME NEW k \in Editors, NEW w \in Works, ArchiveWork(k, w)
      PROVE  EditInv'
  <2>1. /\ MoveWork(k, w, {"DRAFT", "PUBLISHED", "ARCHIVED"}, "ARCHIVED")
        /\ UNCHANGED <<latest, pinned, overtook>> /\ work' = [work EXCEPT ![w].status = "ARCHIVED"]
    BY <1>7 DEF ArchiveWork, MoveWork
  <2>2. work'[w].status = "ARCHIVED" /\ \A v \in Works \ {w} : work'[v] = work[v]
    BY <2>1 DEF EditInv, EditTypes, Piece
  <2>3. LockedKept'
    BY <2>1, <2>2 DEF EditInv, LockedKept
  <2>4. latest' \in [Works -> Newest] /\ pinned' \in [Works -> Changes]
    BY <2>1 DEF EditInv, EditTypes
  <2> QED BY <2>1, <2>3, <2>4, EditMoved
<1>8. ASSUME NEW k \in Editors, NEW w \in Works, RestoreWork(k, w)
      PROVE  EditInv'
  <2>1. /\ MoveWork(k, w, {"ARCHIVED"}, "PUBLISHED") /\ Locking(w, {"slug", "engine"}) /\ latest' = latest
        /\ work' = [work EXCEPT ![w].status = "PUBLISHED"]
    BY <1>8 DEF RestoreWork, MoveWork
  <2>2. pinned' \in [Works -> Changes] /\ LockedKept'
    BY <2>1, EditLocked
  <2>3. latest' \in [Works -> Newest]
    BY <2>1 DEF EditInv, EditTypes
  <2> QED BY <2>1, <2>2, <2>3, EditMoved
<1>9. CASE UNCHANGED editingVars
  BY <1>9 DEF editingVars, EditInv, EditTypes, LockedKept, EnqueueKept, WillEnqueue
<1> QED BY <1>1, <1>2, <1>3, <1>4, <1>5, <1>6, <1>7, <1>8, <1>9, EditWritten DEF EditingNext

\* Locked slugs, engines and semvers are as they were when they became locked, but
\* for updates that had read them unlocked; what changes in a published asset is
\* enqueued, but for updates that had read it before, and deaths.
THEOREM EditsAreExplained == EditingSpec => []EditsExplained
<1>1. EditingInit => EditInv
  <2> SUFFICES ASSUME EditingInit PROVE EditInv
    OBVIOUS
  <2>1. Absent \in Piece /\ [semver |-> Same, out |-> FALSE] \in Newest
    BY DEF Absent, Piece, Newest
  <2>2. EditTypes
    BY <2>1, QuietIsDraft DEF EditingInit, EditTypes
  <2>3. \A w \in Works : work[w].status = "absent" /\ latest[w].out = FALSE
    BY DEF EditingInit, Absent
  <2> QED BY <2>2, <2>3 DEF EditingInit, EditInv, LockedKept, EnqueueKept
<1>2. EditInv /\ [EditingNext]_editingVars => EditInv'
  BY EditStep
<1>3. EditInv => EditsExplained
  <2> SUFFICES ASSUME EditInv PROVE EditsExplained
    OBVIOUS
  <2>1. ASSUME NEW w \in Works, work[w].status = "PUBLISHED", NEW f \in {"slug", "engine"}
        PROVE  work[w][f] = pinned[w][f] \/ <<w, f>> \in overtook
    BY <2>1 DEF EditInv, LockedKept
  <2> QED BY <2>1 DEF EditsExplained, EditInv, LockedKept, EnqueueKept, WillEnqueue
<1> QED BY <1>1, <1>2, <1>3, PTL DEF EditingSpec
=============================================================================
