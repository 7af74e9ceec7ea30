-------------------------------- MODULE Featured --------------------------------
(***************************************************************************)
(* The featured slots of the landing page (featured.service.ts) and the     *)
(* cached page they appear on (discover.service.ts).                        *)
(*                                                                         *)
(* Admins create, update, remove and reorder slots.  A slot is active or    *)
(* not, and has a place in the carousel; assetId and sortOrder are unique   *)
(* indexes.  The cap on active slots is looked at in one query and made     *)
(* true by a later one.  After its write a request drops the cached page;   *)
(* a visitor who misses it reads the slots and stores what he read.         *)
(*                                                                         *)
(* Statements of one transaction take row locks and hold them, so that      *)
(* reorder's transaction is one step here.  The audit row and the notice to *)
(* the owner follow the last step and change nothing modelled.              *)
(***************************************************************************)
EXTENDS Integers, FiniteSets, Sequences

CONSTANTS
    Slots,      \* ids of the rows there can ever be
    Subject,    \* the asset each is for
    Requests,   \* admin requests in flight at a time
    Visitors,   \* page reads in flight at a time
    None,
    Cap,        \* ACTIVE_CAP (5)
    Shown,      \* FEATURED_LIMIT (5): slots on the page
    Typed,      \* bound: the sortOrders an admin types in
    MaxFaults   \* bound: crashes, and assets removed

ASSUME FeaturedAssumption ==
    /\ IsFiniteSet(Slots) /\ IsFiniteSet(Requests)
    /\ None \notin Slots
    /\ Cap \in Nat \ {0} /\ MaxFaults \in Nat
ASSUME BoundsAssumption == Shown \in Nat /\ Typed \subseteq Nat

VARIABLES
    row,        \* FeaturedSlot row of each id: "new", "present", "gone"
    place,      \* FeaturedSlot.sortOrder; 0 while there is no row
    active,     \* the rows with isActive
    deleted,    \* assets that are no longer there
    pc, slot,   \* each request: next step, the slot it is about
    turnOn, to, \* what it will write: isActive, sortOrder
    list,       \* reorder: orderedIds
    page,       \* discover:<locale> in Redis
    vpc, read,  \* each visitor: step, what he read
    torn,       \* history: the page was outdated by what no request will mend
    faults

slotVars == <<row, place, active, deleted>>
reqVars == <<pc, slot, turnOn, to, list>>
pageVars == <<page, vpc, read, torn>>
vars == <<slotVars, reqVars, pageVars, faults>>

rows == {s \in Slots : row[s] = "present"}

\* What a page built now would show: the first active slots, in their places.
Front ==
    {<<s, place[s]>> : s \in {t \in active :
        Cardinality({u \in active : place[u] < place[t]}) < Shown}}

Init ==
    /\ row = [s \in Slots |-> "new"] /\ place = [s \in Slots |-> 0]
    /\ active = {} /\ deleted = {}
    /\ pc = [r \in Requests |-> "idle"] /\ slot = [r \in Requests |-> None]
    /\ turnOn = [r \in Requests |-> FALSE] /\ to = [r \in Requests |-> 0]
    /\ list = [r \in Requests |-> <<>>]
    /\ page = None
    /\ vpc = [v \in Visitors |-> "idle"] /\ read = [v \in Visitors |-> {}]
    /\ torn = FALSE
    /\ faults = 0

-----------------------------------------------------------------------------
(* Requests.                                                               *)

Goto(r, step) == pc' = [pc EXCEPT ![r] = step]

Leave(r, step) ==
    /\ Goto(r, step)
    /\ slot' = [slot EXCEPT ![r] = None] /\ turnOn' = [turnOn EXCEPT ![r] = FALSE]
    /\ to' = [to EXCEPT ![r] = 0] /\ list' = [list EXCEPT ![r] = <<>>]

Finish(r) == Leave(r, "idle")
Written(r) == Leave(r, "drop")      \* all that is left is to drop the page

\* create found its asset; only a slot that will be active is counted first.
BeginCreate(r, s, on) ==
    /\ pc[r] = "idle"
    /\ row[s] = "new" /\ \A q \in Requests : slot[q] # s
    /\ Subject[s] \notin deleted
    /\ Goto(r, IF on THEN "count" ELSE "max")
    /\ slot' = [slot EXCEPT ![r] = s] /\ turnOn' = [turnOn EXCEPT ![r] = on]
    /\ UNCHANGED <<slotVars, to, list, pageVars, faults>>

\* Mutant of BeginUpdate: the cap is for new slots.
BeginUpdateUncounted(r, s, on, n) ==
    /\ pc[r] = "idle" /\ s \in rows
    /\ slot' = [slot EXCEPT ![r] = s]
    /\ turnOn' = [turnOn EXCEPT ![r] = on = "on" \/ (on = "keep" /\ s \in active)]
    /\ to' = [to EXCEPT ![r] = IF n = -1 THEN place[s] ELSE n]
    /\ Goto(r, "write")
    /\ UNCHANGED <<slotVars, list, pageVars, faults>>

\* update reads the row; what the request leaves open is written back as read.
\* The cap is looked at only when the row read was inactive.
BeginUpdate(r, s, on, n) ==
    /\ pc[r] = "idle" /\ s \in rows
    /\ slot' = [slot EXCEPT ![r] = s]
    /\ turnOn' = [turnOn EXCEPT ![r] = on = "on" \/ (on = "keep" /\ s \in active)]
    /\ to' = [to EXCEPT ![r] = IF n = -1 THEN place[s] ELSE n]
    /\ Goto(r, IF on = "on" /\ s \notin active THEN "count" ELSE "write")
    /\ UNCHANGED <<slotVars, list, pageVars, faults>>

CountActive(r) ==
    /\ pc[r] = "count"
    /\ IF Cardinality(active) >= Cap THEN Finish(r)
       ELSE /\ Goto(r, IF row[slot[r]] = "new" THEN "max" ELSE "write")
            /\ UNCHANGED <<slot, turnOn, to, list>>
    /\ UNCHANGED <<slotVars, pageVars, faults>>

ReadMax(r) ==
    /\ pc[r] = "max"
    /\ to' = [to EXCEPT ![r] =
                IF rows = {} THEN 0
                ELSE 1 + place[CHOOSE s \in rows : \A t \in rows : place[t] <= place[s]]]
    /\ Goto(r, "insert")
    /\ UNCHANGED <<slotVars, slot, turnOn, list, pageVars, faults>>

\* The write of request r, or the rejection by a unique index or a missing row.
Place(r) == [place EXCEPT ![slot[r]] = to[r]]
Taken(r) == \E s \in rows \ {slot[r]} : place[s] = to[r]

Switch(r) ==
    active' = IF turnOn[r] THEN active \cup {slot[r]} ELSE active \ {slot[r]}

InsertSlot(r) ==
    /\ pc[r] = "insert"
    /\ IF \/ Taken(r) \/ Subject[slot[r]] \in deleted
          \/ \E s \in rows : Subject[s] = Subject[slot[r]]
       THEN Finish(r) /\ UNCHANGED slotVars
       ELSE /\ row' = [row EXCEPT ![slot[r]] = "present"]
            /\ place' = Place(r) /\ Switch(r)
            /\ Written(r)
            /\ UNCHANGED deleted
    /\ UNCHANGED <<pageVars, faults>>

WriteSlot(r) ==
    /\ pc[r] = "write"
    /\ IF slot[r] \notin rows \/ Taken(r)
       THEN Finish(r) /\ UNCHANGED slotVars
       ELSE /\ place' = Place(r) /\ Switch(r)
            /\ Goto(r, "drop")
            /\ UNCHANGED <<row, deleted, slot, turnOn, to, list>>
    /\ UNCHANGED <<pageVars, faults>>

BeginRemove(r, s) ==
    /\ pc[r] = "idle" /\ s \in rows
    /\ slot' = [slot EXCEPT ![r] = s]
    /\ Goto(r, "delete")
    /\ UNCHANGED <<slotVars, turnOn, to, list, pageVars, faults>>

\* Mutant of DeleteSlot: remove does not invalidate.
DeleteSlotOnly(r) ==
    /\ pc[r] = "delete"
    /\ IF slot[r] \notin rows THEN UNCHANGED slotVars
       ELSE /\ row' = [row EXCEPT ![slot[r]] = "gone"]
            /\ active' = active \ {slot[r]}
            /\ place' = [place EXCEPT ![slot[r]] = 0]
            /\ UNCHANGED deleted
    /\ Finish(r)
    /\ UNCHANGED <<pageVars, faults>>

DeleteSlot(r) ==
    /\ pc[r] = "delete"
    /\ IF slot[r] \notin rows THEN Finish(r) /\ UNCHANGED slotVars
       ELSE /\ row' = [row EXCEPT ![slot[r]] = "gone"]
            /\ active' = active \ {slot[r]}
            /\ place' = [place EXCEPT ![slot[r]] = 0]
            /\ Written(r)
            /\ UNCHANGED deleted
    /\ UNCHANGED <<pageVars, faults>>

\* reorder refuses ids that do not exist, and therefore repeated ones.
BeginReorder(r, ids) ==
    /\ pc[r] = "idle"
    /\ ids # <<>> /\ \A i \in DOMAIN ids : ids[i] \in rows
    /\ \A i, j \in DOMAIN ids : ids[i] = ids[j] => i = j
    /\ list' = [list EXCEPT ![r] = ids]
    /\ Goto(r, "renumber")
    /\ UNCHANGED <<slotVars, slot, turnOn, to, pageVars, faults>>

Offset == 1000000

\* Mutant of Statements: the final places at once.
StatementsOnePass(ids) == [i \in DOMAIN ids |-> <<ids[i], i - 1>>]

\* The updates of reorder's transaction: park every row, then place it.
Statements(ids) ==
    [i \in 1 .. 2 * Len(ids) |->
        IF i <= Len(ids) THEN <<ids[i], Offset + i - 1>>
        ELSE <<ids[i - Len(ids)], i - Len(ids) - 1>>]

\* The places after the first n of them.
Placed(ups) ==
    LET after[n \in 0 .. Len(ups)] ==
            IF n = 0 THEN place
            ELSE [after[n - 1] EXCEPT ![ups[n][1]] = ups[n][2]]
    IN  after

\* The unique index is looked at after every single update.
Trips(ups) ==
    \E n \in DOMAIN ups : \E s \in rows \ {ups[n][1]} : Placed(ups)[n - 1][s] = ups[n][2]

Renumber(r) ==
    LET ups == Statements(list[r]) IN
    /\ pc[r] = "renumber"
    /\ IF (\E i \in DOMAIN list[r] : list[r][i] \notin rows) \/ Trips(ups)
       THEN Finish(r) /\ UNCHANGED slotVars
       ELSE /\ place' = Placed(ups)[Len(ups)]
            /\ Written(r)
            /\ UNCHANGED <<row, active, deleted>>
    /\ UNCHANGED <<pageVars, faults>>

\* discover.invalidate, the last thing that matters here.
DropPage(r) ==
    /\ pc[r] = "drop"
    /\ page' = None /\ torn' = FALSE
    /\ Finish(r)
    /\ UNCHANGED <<slotVars, vpc, read, faults>>

\* The process dies, or Redis throws.
Crash(r) ==
    /\ pc[r] # "idle" /\ faults < MaxFaults
    /\ faults' = faults + 1
    /\ torn' = (torn \/ (pc[r] = "drop" /\ page # None))
    /\ Finish(r)
    /\ UNCHANGED <<slotVars, page, vpc, read>>

-----------------------------------------------------------------------------
(* Assets and the page.                                                    *)

\* The asset is force-deleted or purged: its slot goes by cascade.
DeleteAsset(a) ==
    LET lost == {s \in rows : Subject[s] = a} IN
    /\ a \notin deleted /\ faults < MaxFaults
    /\ faults' = faults + 1
    /\ deleted' = deleted \cup {a}
    /\ row' = [s \in Slots |-> IF s \in lost THEN "gone" ELSE row[s]]
    /\ active' = active \ lost
    /\ place' = [s \in Slots |-> IF s \in lost THEN 0 ELSE place[s]]
    /\ torn' = (torn \/ (page # None /\ lost # {}))
    /\ UNCHANGED <<reqVars, page, vpc, read>>

Miss(v) ==
    /\ vpc[v] = "idle" /\ page = None
    /\ vpc' = [vpc EXCEPT ![v] = "query"]
    /\ UNCHANGED <<slotVars, reqVars, page, read, torn, faults>>

ReadSlots(v) ==
    /\ vpc[v] = "query"
    /\ read' = [read EXCEPT ![v] = Front]
    /\ vpc' = [vpc EXCEPT ![v] = "store"]
    /\ UNCHANGED <<slotVars, reqVars, page, torn, faults>>

Dropping == \E r \in Requests : pc[r] = "drop"

StorePage(v) ==
    /\ vpc[v] = "store"
    /\ page' = read[v]
    /\ torn' = (read[v] # Front /\ ~Dropping)
    /\ vpc' = [vpc EXCEPT ![v] = "idle"] /\ read' = [read EXCEPT ![v] = {}]
    /\ UNCHANGED <<slotVars, reqVars, faults>>

\* CACHE_TTL: 30 s.
ExpirePage ==
    /\ page # None
    /\ page' = None /\ torn' = FALSE
    /\ UNCHANGED <<slotVars, reqVars, vpc, read, faults>>

-----------------------------------------------------------------------------
Lists == UNION {[1 .. n -> Slots] : n \in 1 .. Cardinality(Slots)}

RequestStep(r) ==
    \/ CountActive(r) \/ ReadMax(r) \/ InsertSlot(r) \/ WriteSlot(r)
    \/ DeleteSlot(r) \/ Renumber(r) \/ DropPage(r) \/ Crash(r)

Next ==
    \/ \E r \in Requests, s \in Slots :
           \/ \E on \in BOOLEAN : BeginCreate(r, s, on)
           \/ \E on \in {"keep", "on", "off"}, n \in Typed \cup {-1} : BeginUpdate(r, s, on, n)
           \/ BeginRemove(r, s)
    \/ \E r \in Requests, ids \in Lists : BeginReorder(r, ids)
    \/ \E r \in Requests : RequestStep(r)
    \/ \E v \in Visitors : Miss(v) \/ ReadSlots(v) \/ StorePage(v)
    \/ \E s \in Slots : DeleteAsset(Subject[s])
    \/ ExpirePage

Spec == Init /\ [][Next]_vars

-----------------------------------------------------------------------------
(* Properties.                                                             *)

\* Types of the variables.
TypeOK ==
    /\ row \in [Slots -> {"new", "present", "gone"}] /\ place \in [Slots -> Nat]
    /\ active \subseteq rows
    /\ pc \in [Requests -> {"idle", "count", "max", "insert", "write", "delete",
                            "renumber", "drop"}]
    /\ slot \in [Requests -> Slots \cup {None}]
    /\ turnOn \in [Requests -> BOOLEAN] /\ to \in [Requests -> Nat]
    /\ \A r \in Requests : list[r] # <<>> <=> pc[r] = "renumber"
    /\ vpc \in [Visitors -> {"idle", "query", "store"}]
    /\ torn \in BOOLEAN /\ faults \in 0 .. MaxFaults

\* The cap is checked in one query and used by a later one, and an update
\* writes back an isActive that may have changed since it was read.  All the
\* same each further request in flight can exceed the cap by one slot at most.
ActiveBounded == Cardinality(active) <= Cap + Cardinality(Requests) - 1

\* reorder's transaction, "done in two passes so the unique index never collides
\* mid-reorder" (featured.service.ts): given all the rows there are, in any
\* order, it goes through and leaves the rows in that order, unless an admin
\* typed in a place from the range the first pass parks rows in.
Lands(r) == \A i \in DOMAIN list[r] : place'[list[r][i]] = i - 1
FullReorderLands ==
    [][\A r \in Requests :
         /\ Renumber(r)
         /\ rows = {list[r][i] : i \in DOMAIN list[r]}
         /\ \A s \in rows : place[s] < Offset
         => Lands(r)]_vars

\* A cached page that is not what the slots say is dropped by a request already
\* under way, unless it was stored late by a visitor, left over by a crash, or
\* outdated by the removal of an asset; then it lasts for its TTL.
PageExplained == page # None /\ page # Front => Dropping \/ torn
=============================================================================
