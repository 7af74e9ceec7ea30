--------------------------------- MODULE Listing ---------------------------------
(***************************************************************************)
(* A client walks through a list, page by page, while the list changes.      *)
(*                                                                         *)
(* The lists in Postgres are paged the same way: up to limit + 1 rows        *)
(* that pass the filter are read from the cursor's position on, the first of *)
(* them skipped as the cursor's own row; the last row of a full page is the  *)
(* next cursor.  What the lists differ in is which of their rows may start   *)
(* or cease to pass the filter, come, go, or move in the order.  Prisma's    *)
(* findMany is modelled from this use: the position of a cursor is that of   *)
(* its row, whether the row passes the filter or not, and there is no next   *)
(* page when it is gone.  The list of webhook attempts, in MongoDB, goes by   *)
(* time instead: the next page is what is older than the last row shown.     *)
(* What rows show, and searching in them, is left out.                      *)
(***************************************************************************)
EXTENDS Naturals, FiniteSets

CONSTANTS
    Entries,    \* the rows that may be in the list
    PageSize,   \* limit
    MaxPlace,   \* bound: places in the order that rows can have had
    NoEntry

ASSUME ListingAssumption ==
    /\ IsFiniteSet(Entries) /\ NoEntry \notin Entries \cup Nat
    /\ PageSize \in Nat \ {0} /\ MaxPlace \in Nat

VARIABLES
    list,       \* which list: its rows' possible changes
    entry,      \* each row: "absent", "in" the filter or "out" of it
    place,      \* its place in the order; lists start at the highest
    reading,    \* whether the client wants another page
    cursor,     \* the cursor it sends: a row, or a time
    seen,       \* history: how often it was shown each row at its place
    stayed,     \* history: the rows it should be shown by the end
    slipped     \* history: a row went, changed or moved under a cursor, or a page ended among equals

walkVars == <<reading, cursor, seen, stayed, slipped>>
listingVars == <<list, entry, place, walkVars>>

-----------------------------------------------------------------------------
(* The lists, and what may happen to a row of each: it enters, is hidden     *)
(* from the filter or shown to it again, goes, or moves to the top or        *)
(* anywhere.                                                               *)

\* LibraryItem: added, hidden or not, removed; by addedAt or the asset's updatedAt.
Library(sort) ==
    [events |-> {"enter", "hide", "show", "drop"}, moves |-> IF sort = "recentlyUpdated" THEN "top" ELSE "no"]

\* Notification, unreadOnly: read once and for all, singly or all together.
Inbox == [events |-> {"enter", "hide", "hideAll"}, moves |-> "no"]

\* The top comments of an asset: deleted softly, or with their asset.
TopComments == [events |-> {"enter", "hide", "drop"}, moves |-> "no"]

\* AssetRequest, Report and User, filtered by a status that is set at will.
Requests == [events |-> {"enter", "hide", "show"}, moves |-> "no"]
Reports == [events |-> {"enter", "hide", "show", "drop"}, moves |-> "no"]
AdminUsers == [events |-> {"enter", "hide", "show"}, moves |-> "no"]

\* AuditLog: only the retention purge removes rows.
Audit == [events |-> {"enter", "drop"}, moves |-> "no"]

\* Tag by displayName: renamed, merged, deleted.
TagNames == [events |-> {"enter", "drop"}, moves |-> "any"]

\* WebhookDelivery by createdAt, two of which may be the same; old ones expire.
Attempts == [events |-> {"enter", "enterAtOnce", "drop"}, moves |-> "no"]
ByTime == list = Attempts

\* Asset, in the statuses the requester may see.
AssetOrder(sort) ==
    CASE sort = "recentlyUpdated" -> "top"
      [] sort \in {"alphabetical", "mostDownloaded", "mostSaved"} -> "any"
      [] OTHER -> "no"

AssetPage(sort) == [events |-> {"enter", "hide", "show", "drop"}, moves |-> AssetOrder(sort)]

Lists ==
    {Inbox, TopComments, Requests, Reports, AdminUsers, Audit, TagNames, Attempts}
        \cup {Library(s) : s \in {"added", "recentlyUpdated"}}
        \cup {AssetPage(s) : s \in {"newest", "recentlyUpdated", "alphabetical"}}

-----------------------------------------------------------------------------
Present(e) == entry[e] # "absent"
drawn == {place[e] : e \in {x \in Entries : Present(x)}}
top == 1 + CHOOSE p \in drawn \cup {0} : \A q \in drawn : q <= p

ListingInit ==
    /\ list \in Lists
    /\ entry = [e \in Entries |-> "absent"] /\ place = [e \in Entries |-> 0]
    /\ reading = TRUE /\ cursor = NoEntry
    /\ seen = [e \in Entries |-> 0] /\ stayed = Entries /\ slipped = FALSE

\* Every step of the list's keeps the history of the walk; what happens after
\* its end is of no interest.
Kept(moved) ==
    /\ reading
    /\ stayed' = {e \in stayed : cursor = NoEntry \/ entry'[e] = "in"} \ moved
    /\ slipped' = (slipped \/ (~ByTime /\ cursor # NoEntry /\ (cursor \in moved \/ entry'[cursor] # "in")))
    /\ seen' = [e \in Entries |-> IF e \in moved THEN 0 ELSE seen[e]]
    /\ UNCHANGED <<list, reading, cursor>>

Enter(e) ==
    /\ "enter" \in list.events /\ ~Present(e) /\ top <= MaxPlace
    /\ entry' = [entry EXCEPT ![e] = "in"] /\ place' = [place EXCEPT ![e] = top]
    /\ Kept({e})

EnterAtOnce(e) ==
    /\ "enterAtOnce" \in list.events /\ ~Present(e) /\ top > 1
    /\ entry' = [entry EXCEPT ![e] = "in"] /\ place' = [place EXCEPT ![e] = top - 1]
    /\ Kept({e})

Turn(e, from, to, event) ==
    /\ event \in list.events /\ entry[e] = from
    /\ entry' = [entry EXCEPT ![e] = to]
    /\ UNCHANGED place
    /\ Kept({})

\* Hidden, read, deleted softly, or given another status; and back.
Hide(e) == Turn(e, "in", "out", "hide")
Unhide(e) == Turn(e, "out", "in", "show")

\* markAllRead
HideAll ==
    /\ "hideAll" \in list.events /\ \E e \in Entries : entry[e] = "in"
    /\ entry' = [e \in Entries |-> IF entry[e] = "in" THEN "out" ELSE entry[e]]
    /\ UNCHANGED place
    /\ Kept({})

Drop(e) ==
    /\ "drop" \in list.events /\ Present(e)
    /\ entry' = [entry EXCEPT ![e] = "absent"] /\ place' = [place EXCEPT ![e] = 0]
    /\ Kept({e})

\* An update of the row, or one that changes what it is ordered by.
Move(e, p) ==
    /\ Present(e) /\ p \notin drawn /\ p <= MaxPlace
    /\ \/ list.moves = "top" /\ p = top
       \/ list.moves = "any"
    /\ place' = [place EXCEPT ![e] = p]
    /\ UNCHANGED entry
    /\ Kept({e})

-----------------------------------------------------------------------------
\* The rows that pass the filter from the cursor's position on.
From(c) ==
    IF c = NoEntry THEN {e \in Entries : entry[e] = "in"}
    ELSE IF ByTime THEN {e \in Entries : entry[e] = "in" /\ place[e] < c}
    ELSE {e \in Entries : entry[e] = "in" /\ Present(c) /\ place[e] <= place[c]}

\* The first n of the rows S; of equals, any may be first.
First(S, n) ==
    {F \in SUBSET S : /\ Cardinality(F) = IF Cardinality(S) < n THEN Cardinality(S) ELSE n
                      /\ \A e \in F, x \in S \ F : place[x] <= place[e]}

\* Mutant of Skipped: the cursor's own row is not skipped.
SkippedNot(c) == {}

\* skip: 1 drops the first row that is found, with a cursor.
Skipped(c) == IF c = NoEntry \/ ByTime THEN {} ELSE UNION First(From(c), 1)

ReadPage ==
    /\ reading
    /\ LET rows == From(cursor) \ Skipped(cursor) IN
       \E items \in First(rows, PageSize) :
          LET hasMore == items # rows
              last == CHOOSE e \in items : \A x \in items : place[e] <= place[x]
          IN /\ seen' = [e \in Entries |-> IF e \in items /\ seen[e] < 2 THEN seen[e] + 1 ELSE seen[e]]
             /\ reading' = hasMore
             /\ cursor' = IF ~hasMore THEN NoEntry ELSE IF ByTime THEN place[last] ELSE last
             /\ stayed' = IF cursor = NoEntry THEN rows ELSE stayed
             /\ slipped' = (slipped \/ \E e \in items, x \in rows \ items : place[e] = place[x])
    /\ UNCHANGED <<list, entry, place>>

ListingNext ==
    \/ \E e \in Entries :
           \/ Enter(e) \/ EnterAtOnce(e) \/ Hide(e) \/ Unhide(e) \/ Drop(e)
           \/ \E p \in 1 .. MaxPlace : Move(e, p)
    \/ HideAll \/ ReadPage

ListingSpec == ListingInit /\ [][ListingNext]_listingVars

-----------------------------------------------------------------------------
(* Properties.                                                             *)

\* A client that walks a list to its end was shown every row that passed the
\* filter in one place all the while, and no row twice there ("Lists ordered by (createdAt DESC, id
\* DESC) are stable", cursor.ts) - unless the row of a cursor was removed, moved
\* or ceased to pass the filter before the next page was read: then skip: 1
\* drops another row, or the walk starts over or ends; or, of the webhook attempts, a
\* page ended between two of the same millisecond: the second is never shown.
WalkExplained ==
    ~slipped =>
        /\ \A e \in Entries : seen[e] <= 1
        /\ ~reading => \A e \in stayed : seen[e] = 1
=============================================================================
