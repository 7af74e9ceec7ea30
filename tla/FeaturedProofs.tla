----------------------------- MODULE FeaturedProofs -----------------------------
(***************************************************************************)
(* How far concurrent admins can exceed the cap on active slots, why the    *)
(* cached Discover page can be stale, and that a reorder of all the slots   *)
(* gets through the unique index, for any cap and any number of slots,      *)
(* requests, visitors and faults.                                           *)
(***************************************************************************)
EXTENDS Featured, FiniteSetTheorems, NaturalsInduction, WellFoundedInduction, TLAPS

\* Requests past the check that are going to leave their slot active.
Claims == {r \in Requests : pc[r] \in {"max", "insert", "write"} /\ turnOn[r]}

\* The slots they are about.
Claimed == {slot[r] : r \in Claims}

\* What the argument needs of the types.
CapTypes ==
    /\ active \subseteq Slots
    /\ pc \in [Requests -> {"idle", "count", "max", "insert", "write", "delete",
                            "renumber", "drop"}]
    /\ slot \in [Requests -> Slots \cup {None}]
    /\ turnOn \in [Requests -> BOOLEAN]
    /\ \A r \in Requests : pc[r] \in {"count", "max", "insert", "write"} => slot[r] \in Slots

\* The slots that are active or about to be: whoever passes the check saw fewer
\* than Cap active ones, and everybody else claims one slot at most.  Any other
\* step only turns claims into active slots or gives them up.
CapInv ==
    /\ CapTypes
    /\ Cardinality(active \cup Claimed) <= Cap + Cardinality(Requests) - 1

\* There are no more claimed slots than claims, and no more than requests.
LEMMA ClaimsCounted ==
    ASSUME FeaturedAssumption, CapTypes
    PROVE  /\ IsFiniteSet(Claimed) /\ Claimed \subseteq Slots
           /\ Cardinality(Claimed) <= Cardinality(Requests)
           /\ Cardinality(Claimed) \in Nat /\ Cardinality(Requests) \in Nat
<1> DEFINE f == [r \in Claims |-> slot[r]]
<1>1. Claims \in SUBSET Requests
  BY DEF Claims
<1>2. IsFiniteSet(Claims) /\ Cardinality(Claims) <= Cardinality(Requests)
  BY <1>1, FS_Subset DEF FeaturedAssumption
<1>3. f \in Surjection(Claims, Claimed)
  BY DEF Surjection, Claimed
<1>4. IsFiniteSet(Claimed) /\ Cardinality(Claimed) <= Cardinality(Claims)
  <2> HIDE DEF f
  <2> QED BY <1>2, <1>3, FS_Surjection
<1>5. Claimed \subseteq Slots
  BY DEF Claimed, Claims, CapTypes
<1>6. /\ Cardinality(Claimed) \in Nat /\ Cardinality(Claims) \in Nat
      /\ Cardinality(Requests) \in Nat
  BY <1>2, <1>4, FS_CardinalityType DEF FeaturedAssumption
<1> QED BY <1>2, <1>4, <1>5, <1>6

\* A step that adds no claim and activates nothing but claimed slots.
LEMMA CapKept ==
    ASSUME FeaturedAssumption, CapInv, CapTypes',
           active' \cup Claimed' \subseteq active \cup Claimed
    PROVE  CapInv'
<1>1. IsFiniteSet(active \cup Claimed)
  <2>1. CapTypes
    BY DEF CapInv
  <2>2. active \cup Claimed \in SUBSET Slots
    BY <2>1, ClaimsCounted DEF CapTypes
  <2> QED BY <2>2, FS_Subset DEF FeaturedAssumption
<1>2. IsFiniteSet(active' \cup Claimed') /\ Cardinality(active' \cup Claimed') <= Cardinality(active \cup Claimed)
  BY <1>1, FS_Subset
<1>3. /\ Cardinality(active \cup Claimed) \in Nat
      /\ Cardinality(active' \cup Claimed') \in Nat
      /\ Cardinality(Requests) \in Nat
  BY <1>1, <1>2, FS_CardinalityType DEF FeaturedAssumption
<1>4. Cardinality(active' \cup Claimed') <= Cap + Cardinality(Requests) - 1
  BY <1>2, <1>3 DEF CapInv, FeaturedAssumption
<1> QED BY <1>4 DEF CapInv, CapTypes

\* Nothing is active or claimed at first, and the cap is not zero.
LEMMA CapInit == ASSUME FeaturedAssumption, Init PROVE CapInv
<1>1. active \cup Claimed = {}
  BY DEF Init, Claimed, Claims
<1>2. Cardinality(active \cup Claimed) = 0 /\ Cardinality(Requests) \in Nat
  BY <1>1, FS_EmptySet, FS_CardinalityType DEF FeaturedAssumption
<1>3. Cardinality(active \cup Claimed) <= Cap + Cardinality(Requests) - 1
  BY <1>2 DEF FeaturedAssumption
<1> QED BY <1>3 DEF Init, CapInv, CapTypes

\* The check itself: fewer than Cap active slots, one claim per request.
LEMMA CapChecked ==
    ASSUME FeaturedAssumption, CapInv, CapTypes', UNCHANGED active,
           Cardinality(active) < Cap
    PROVE  CapInv'
<1>1. IsFiniteSet(active) /\ active \subseteq Slots
  BY FS_Subset DEF CapInv, CapTypes, FeaturedAssumption
<1>2. /\ IsFiniteSet(Claimed') /\ Cardinality(Claimed') <= Cardinality(Requests)
      /\ Cardinality(Claimed') \in Nat /\ Cardinality(Requests) \in Nat
  <2> DEFINE f == [r \in Claims' |-> slot'[r]]
  <2>1. Claims' \in SUBSET Requests
    BY DEF Claims
  <2>2. IsFiniteSet(Claims') /\ Cardinality(Claims') <= Cardinality(Requests)
    BY <2>1, FS_Subset DEF FeaturedAssumption
  <2>3. f \in Surjection(Claims', Claimed')
    BY DEF Surjection, Claimed
  <2>4. IsFiniteSet(Claimed') /\ Cardinality(Claimed') <= Cardinality(Claims')
    <3> HIDE DEF f
    <3> QED BY <2>2, <2>3, FS_Surjection
  <2> QED BY <2>2, <2>4, FS_CardinalityType DEF FeaturedAssumption
<1>3. Cardinality(active \cup Claimed')
        = Cardinality(active) + Cardinality(Claimed') - Cardinality(active \cap Claimed')
  BY <1>1, <1>2, FS_Union
<1>4. Cardinality(active \cap Claimed') \in Nat /\ Cardinality(active) \in Nat
  <2>1. active \cap Claimed' \in SUBSET active
    OBVIOUS
  <2> QED BY <1>1, <2>1, FS_Subset, FS_CardinalityType
<1>5. Cardinality(active' \cup Claimed') <= Cap + Cardinality(Requests) - 1
  BY <1>2, <1>3, <1>4 DEF FeaturedAssumption
<1> QED BY <1>5 DEF CapInv, CapTypes

\* The first step of a request.
LEMMA CapBegins ==
    ASSUME FeaturedAssumption, CapInv, NEW r \in Requests,
           \/ \E s \in Slots : \/ \E on \in BOOLEAN : BeginCreate(r, s, on)
                               \/ BeginRemove(r, s)
                               \/ \E on \in {"keep", "on", "off"}, n \in Typed \cup {-1} :
                                      BeginUpdate(r, s, on, n)
           \/ \E ids \in Lists : BeginReorder(r, ids)
    PROVE  CapInv'
<1> USE DEF CapTypes, Claimed, Claims, Goto, slotVars
<1>1. ASSUME NEW s \in Slots, NEW on \in BOOLEAN, BeginCreate(r, s, on)
      PROVE  CapInv'
  <2>1. CapTypes'
    BY <1>1 DEF BeginCreate, CapInv
  <2>2. active' \cup Claimed' \subseteq active \cup Claimed
    <3>1. ASSUME NEW q \in Claims' PROVE q \in Claims /\ slot'[q] = slot[q]
      BY <1>1, <3>1 DEF BeginCreate, CapInv
    <3> QED BY <1>1, <3>1 DEF BeginCreate
  <2> QED BY <2>1, <2>2, CapKept
<1>2. ASSUME NEW s \in Slots, BeginRemove(r, s)
      PROVE  CapInv'
  <2>1. CapTypes'
    BY <1>2 DEF BeginRemove, CapInv
  <2>2. active' \cup Claimed' \subseteq active \cup Claimed
    <3>1. ASSUME NEW q \in Claims' PROVE q \in Claims /\ slot'[q] = slot[q]
      BY <1>2, <3>1 DEF BeginRemove, CapInv
    <3> QED BY <1>2, <3>1 DEF BeginRemove
  <2> QED BY <2>1, <2>2, CapKept
<1>3. ASSUME NEW s \in Slots, NEW on \in {"keep", "on", "off"}, NEW n \in Typed \cup {-1},
             BeginUpdate(r, s, on, n)
      PROVE  CapInv'
  <2>1. CapTypes'
    <3>1. turnOn' \in [Requests -> BOOLEAN]
      BY <1>3 DEF BeginUpdate, CapInv
    <3>2. /\ active' = active /\ active \subseteq Slots
          /\ pc' \in [Requests -> {"idle", "count", "max", "insert", "write", "delete",
                                   "renumber", "drop"}]
          /\ slot' \in [Requests -> Slots \cup {None}]
      BY <1>3 DEF BeginUpdate, CapInv
    <3>3. ASSUME NEW q \in Requests, pc'[q] \in {"count", "max", "insert", "write"}
          PROVE  slot'[q] \in Slots
      BY <1>3, <3>3 DEF BeginUpdate, CapInv
    <3> QED BY <3>1, <3>2, <3>3
  <2>2. active' \cup Claimed' \subseteq active \cup Claimed
    <3>1. ASSUME NEW q \in Claims' PROVE slot'[q] \in active \cup Claimed
      <4>1. CASE q = r
        <5>1. /\ slot'[r] = s
              /\ turnOn'[r] <=> on = "on" \/ (on = "keep" /\ s \in active)
              /\ pc'[r] = IF on = "on" /\ s \notin active THEN "count" ELSE "write"
          BY <1>3 DEF BeginUpdate, CapInv
        <5>2. turnOn'[r] /\ pc'[r] # "count"
          BY <3>1, <4>1
        <5> QED BY <4>1, <5>1, <5>2
      <4>2. CASE q # r
        BY <1>3, <3>1, <4>2 DEF BeginUpdate, CapInv
      <4> QED BY <4>1, <4>2
    <3> QED BY <1>3, <3>1 DEF BeginUpdate
  <2> QED BY <2>1, <2>2, CapKept
<1>4. ASSUME NEW ids \in Lists, BeginReorder(r, ids)
      PROVE  CapInv'
  <2>1. CapTypes'
    BY <1>4 DEF BeginReorder, CapInv
  <2>2. active' \cup Claimed' \subseteq active \cup Claimed
    <3>1. ASSUME NEW q \in Claims' PROVE q \in Claims /\ slot'[q] = slot[q]
      BY <1>4, <3>1 DEF BeginReorder, CapInv
    <3> QED BY <1>4, <3>1 DEF BeginReorder
  <2> QED BY <2>1, <2>2, CapKept
<1> QED BY <1>1, <1>2, <1>3, <1>4

\* A request that deletes, renumbers or drops the page, or crashes, claims nothing any more.
LEMMA RequestLeaves ==
    ASSUME NEW r \in Requests, DeleteSlot(r) \/ Renumber(r) \/ DropPage(r) \/ Crash(r)
    PROVE  /\ active' \subseteq active
           /\ \E step \in {"idle", "drop"} : Leave(r, step)
<1>1. CASE DeleteSlot(r)
  BY <1>1 DEF DeleteSlot, Finish, Written, slotVars
<1>2. CASE Renumber(r)
  BY <1>2 DEF Renumber, Finish, Written, slotVars
<1>3. CASE DropPage(r) \/ Crash(r)
  BY <1>3 DEF DropPage, Crash, Finish, slotVars
<1> QED BY <1>1, <1>2, <1>3

\* The later steps of a request.
LEMMA CapContinues ==
    ASSUME FeaturedAssumption, CapInv, NEW r \in Requests, RequestStep(r)
    PROVE  CapInv'
<1> USE DEF CapTypes, Claimed, Claims, Goto, Leave, Finish, Written, slotVars
<1>1. CASE CountActive(r)
  <2>1. CapTypes' /\ UNCHANGED active
    BY <1>1 DEF CountActive, CapInv
  <2>2. CASE Cardinality(active) >= Cap
    <3>1. ASSUME NEW q \in Claims' PROVE q \in Claims /\ slot'[q] = slot[q]
      BY <1>1, <2>2, <3>1 DEF CountActive, CapInv
    <3> QED BY <2>1, <3>1, CapKept
  <2>3. CASE ~(Cardinality(active) >= Cap)
    <3>1. Cardinality(active) \in Nat
      BY FS_Subset, FS_CardinalityType DEF CapInv, FeaturedAssumption
    <3>2. Cardinality(active) < Cap
      BY <2>3, <3>1 DEF FeaturedAssumption
    <3> HIDE DEF CapTypes
    <3> QED BY <2>1, <3>2, CapChecked
  <2> QED BY <2>2, <2>3
<1>2. CASE ReadMax(r)
  <2>1. CapTypes' /\ UNCHANGED active
    BY <1>2 DEF ReadMax, CapInv
  <2>2. ASSUME NEW q \in Claims' PROVE q \in Claims /\ slot'[q] = slot[q]
    BY <1>2, <2>2 DEF ReadMax, CapInv
  <2> QED BY <2>1, <2>2, CapKept
<1>3. CASE InsertSlot(r) \/ WriteSlot(r)
  <2>1. active' = active \/ (turnOn[r] /\ active' = active \cup {slot[r]})
                          \/ active' = active \ {slot[r]}
    BY <1>3 DEF InsertSlot, WriteSlot, Switch
  <2>2. CapTypes'
    BY <1>3, <2>1 DEF InsertSlot, WriteSlot, CapInv
  <2>3. ASSUME NEW q \in Claims' PROVE q \in Claims /\ slot'[q] = slot[q]
    BY <1>3, <2>3 DEF InsertSlot, WriteSlot, CapInv
  <2>4. turnOn[r] => slot[r] \in Claimed
    BY <1>3 DEF InsertSlot, WriteSlot
  <2>5. active' \cup Claimed' \subseteq active \cup Claimed
    BY <2>1, <2>3, <2>4
  <2> QED BY <2>2, <2>5, CapKept
<1>4. CASE DeleteSlot(r) \/ Renumber(r) \/ DropPage(r) \/ Crash(r)
  <2>1. PICK step \in {"idle", "drop"} : active' \subseteq active /\ Leave(r, step)
    BY <1>4, RequestLeaves
  <2>2. CapTypes'
    BY <2>1 DEF CapInv
  <2>3. ASSUME NEW q \in Claims' PROVE q \in Claims /\ slot'[q] = slot[q]
    BY <2>1, <2>3 DEF CapInv
  <2> QED BY <2>1, <2>2, <2>3, CapKept
<1> QED BY <1>1, <1>2, <1>3, <1>4 DEF RequestStep

\* Every step keeps the bound.
LEMMA CapStep == ASSUME FeaturedAssumption, CapInv, [Next]_vars PROVE CapInv'
<1>1. ASSUME NEW r \in Requests, NEW s \in Slots,
             \/ \E on \in BOOLEAN : BeginCreate(r, s, on)
             \/ \E on \in {"keep", "on", "off"}, n \in Typed \cup {-1} :
                    BeginUpdate(r, s, on, n)
             \/ BeginRemove(r, s)
      PROVE  CapInv'
  BY <1>1, CapBegins
<1>2. ASSUME NEW r \in Requests, NEW ids \in Lists, BeginReorder(r, ids)
      PROVE  CapInv'
  BY <1>2, CapBegins
<1>3. ASSUME NEW r \in Requests, RequestStep(r) PROVE CapInv'
  BY <1>3, CapContinues
<1>4. ASSUME /\ active' \subseteq active
             /\ UNCHANGED reqVars
      PROVE  CapInv'
  <2>1. CapTypes' /\ Claimed' = Claimed
    BY <1>4 DEF CapInv, CapTypes, Claimed, Claims, reqVars
  <2> QED BY <1>4, <2>1, CapKept
<1>5. CASE \E v \in Visitors : Miss(v) \/ ReadSlots(v) \/ StorePage(v)
  BY <1>4, <1>5 DEF Miss, ReadSlots, StorePage, slotVars
<1>6. CASE \E s \in Slots : DeleteAsset(Subject[s])
  BY <1>4, <1>6 DEF DeleteAsset
<1>7. CASE ExpirePage \/ UNCHANGED vars
  BY <1>4, <1>7 DEF ExpirePage, vars, slotVars
<1> QED BY <1>1, <1>2, <1>3, <1>5, <1>6, <1>7 DEF Next

\* Whatever happens, at most one slot beyond the cap for each further request
\* in flight.
THEOREM CapBounded == Spec => []ActiveBounded
<1>1. ASSUME FeaturedAssumption, CapInv PROVE ActiveBounded
  <2>1. CapTypes
    BY <1>1 DEF CapInv, CapTypes
  <2>2. IsFiniteSet(active \cup Claimed)
    <3>1. active \cup Claimed \in SUBSET Slots
      BY <1>1, <2>1, ClaimsCounted DEF CapTypes
    <3> QED BY <1>1, <3>1, FS_Subset DEF FeaturedAssumption
  <2>3. active \in SUBSET (active \cup Claimed)
    OBVIOUS
  <2>4. /\ Cardinality(active) <= Cardinality(active \cup Claimed)
        /\ Cardinality(active) \in Nat /\ Cardinality(active \cup Claimed) \in Nat
        /\ Cardinality(Requests) \in Nat
    BY <1>1, <2>2, <2>3, FS_Subset, FS_CardinalityType DEF FeaturedAssumption
  <2> QED BY <1>1, <2>4 DEF CapInv, ActiveBounded, FeaturedAssumption
<1> QED BY <1>1, CapStep, CapInit, FeaturedAssumption, PTL DEF Spec

-----------------------------------------------------------------------------
(* The cached page.                                                        *)

\* The inductive invariant of the cached page.
PageInv == CapInv /\ PageExplained

\* The page shows nothing but the places of active slots.
LEMMA FrontOfActive ==
    ASSUME active' = active, \A s \in active : place'[s] = place[s]
    PROVE  Front' = Front
<1>1. ASSUME NEW t \in active
      PROVE  {u \in active : place'[u] < place'[t]} = {u \in active : place[u] < place[t]}
  BY <1>1
<1>2. {t \in active : Cardinality({u \in active : place'[u] < place'[t]}) < Shown}
        = {t \in active : Cardinality({u \in active : place[u] < place[t]}) < Shown}
  BY <1>1
<1>3. Front' = {<<s, place'[s]>> : s \in {t \in active :
          Cardinality({u \in active : place'[u] < place'[t]}) < Shown}}
  BY DEF Front
<1> QED BY <1>2, <1>3 DEF Front

\* A step that changes neither the slots nor the page, and leaves the requests
\* that are about to drop it alone.
LEMMA PageKept ==
    ASSUME PageExplained, Front' = Front, page' = page, torn => torn', Dropping => Dropping'
    PROVE  PageExplained'
BY DEF PageExplained

\* A request about to drop the page makes up for anything.
LEMMA PageDropped ==
    ASSUME NEW r \in Requests, pc'[r] = "drop" PROVE PageExplained'
BY DEF PageExplained, Dropping

\* The steps of a request.
LEMMA PageRequests ==
    ASSUME PageInv, NEW r \in Requests,
           \/ RequestStep(r)
           \/ \E s \in Slots : \/ \E on \in BOOLEAN : BeginCreate(r, s, on)
                               \/ BeginRemove(r, s)
                               \/ \E on \in {"keep", "on", "off"}, n \in Typed \cup {-1} :
                                      BeginUpdate(r, s, on, n)
           \/ \E ids \in Lists : BeginReorder(r, ids)
    PROVE  PageExplained'
<1> USE DEF PageInv, Leave, Finish, Written, Goto, pageVars
<1>1. pc \in [Requests -> {"idle", "count", "max", "insert", "write", "delete", "renumber", "drop"}]
  BY DEF CapInv, CapTypes
<1>2. ASSUME UNCHANGED slotVars, page' = page, torn => torn', pc[r] # "drop",
             \A q \in Requests \ {r} : pc'[q] = pc[q]
      PROVE  PageExplained'
  <2>1. Front' = Front
    BY <1>2, FrontOfActive DEF slotVars
  <2>2. Dropping => Dropping'
    BY <1>2 DEF Dropping
  <2> QED BY <1>2, <2>1, <2>2, PageKept
<1>3. CASE CountActive(r) \/ ReadMax(r)
  BY <1>1, <1>2, <1>3 DEF CountActive, ReadMax
<1>4. CASE InsertSlot(r)
  <2>1. CASE UNCHANGED slotVars
    BY <1>1, <1>2, <1>4, <2>1 DEF InsertSlot
  <2>2. CASE Written(r)
    BY <1>1, <2>2, PageDropped
  <2> QED BY <1>4, <2>1, <2>2 DEF InsertSlot
<1>5. CASE WriteSlot(r)
  <2>1. CASE UNCHANGED slotVars
    BY <1>1, <1>2, <1>5, <2>1 DEF WriteSlot
  <2>2. CASE Goto(r, "drop")
    BY <1>1, <2>2, PageDropped
  <2> QED BY <1>5, <2>1, <2>2 DEF WriteSlot
<1>6. CASE DeleteSlot(r)
  <2>1. CASE UNCHANGED slotVars
    BY <1>1, <1>2, <1>6, <2>1 DEF DeleteSlot
  <2>2. CASE Written(r)
    BY <1>1, <2>2, PageDropped
  <2> QED BY <1>6, <2>1, <2>2 DEF DeleteSlot
<1>7. CASE Renumber(r)
  <2>1. CASE UNCHANGED slotVars
    BY <1>1, <1>2, <1>7, <2>1 DEF Renumber
  <2>2. CASE Written(r)
    BY <1>1, <2>2, PageDropped
  <2> QED BY <1>7, <2>1, <2>2 DEF Renumber
<1>8. CASE DropPage(r)
  BY <1>8 DEF DropPage, PageExplained
<1>9. CASE Crash(r)
  <2>1. CASE pc[r] # "drop"
    BY <1>1, <1>2, <1>9, <2>1 DEF Crash
  <2>2. CASE pc[r] = "drop"
    BY <1>9, <2>2 DEF Crash, PageExplained
  <2> QED BY <2>1, <2>2
<1>10. ASSUME NEW s \in Slots, NEW on \in BOOLEAN, BeginCreate(r, s, on) PROVE PageExplained'
  BY <1>1, <1>2, <1>10 DEF BeginCreate
<1>11. ASSUME NEW s \in Slots, BeginRemove(r, s) PROVE PageExplained'
  BY <1>1, <1>2, <1>11 DEF BeginRemove
<1>12. ASSUME NEW s \in Slots, NEW on \in {"keep", "on", "off"}, NEW n \in Typed \cup {-1},
              BeginUpdate(r, s, on, n)
       PROVE  PageExplained'
  BY <1>1, <1>2, <1>12 DEF BeginUpdate
<1>13. ASSUME NEW ids \in Lists, BeginReorder(r, ids) PROVE PageExplained'
  BY <1>1, <1>2, <1>13 DEF BeginReorder
<1> QED BY <1>3, <1>4, <1>5, <1>6, <1>7, <1>8, <1>9, <1>10, <1>11, <1>12, <1>13 DEF RequestStep

\* A cached page that is not what the slots say is about to be dropped by the
\* request that changed them, unless it was stored late, left over by a crash,
\* or outdated by the removal of an asset: no write goes without its drop,
\* whichever requests and visitors interleave.
THEOREM PageIsExplained == Spec => []PageExplained
<1>1. Init => PageInv
  BY CapInit, FeaturedAssumption DEF Init, PageInv, PageExplained
<1>2. PageInv /\ [Next]_vars => PageInv'
  <2> SUFFICES ASSUME PageInv, [Next]_vars PROVE PageExplained'
    BY CapStep, FeaturedAssumption DEF PageInv
  <2>1. ASSUME UNCHANGED slotVars, UNCHANGED pc, UNCHANGED page, UNCHANGED torn PROVE PageExplained'
    <3>1. Front' = Front
      BY <2>1, FrontOfActive DEF slotVars
    <3> QED BY <2>1, <3>1, PageKept DEF PageInv, Dropping
  <2>2. ASSUME NEW v \in Visitors, Miss(v) \/ ReadSlots(v) PROVE PageExplained'
    BY <2>1, <2>2 DEF Miss, ReadSlots, reqVars
  <2>3. ASSUME NEW v \in Visitors, StorePage(v) PROVE PageExplained'
    <3>1. Front' = Front
      BY <2>3, FrontOfActive DEF StorePage, slotVars
    <3>2. Dropping' = Dropping
      BY <2>3 DEF StorePage, Dropping, reqVars
    <3> QED BY <2>3, <3>1, <3>2 DEF StorePage, PageExplained
  <2>4. ASSUME NEW s \in Slots, DeleteAsset(Subject[s]) PROVE PageExplained'
    <3> DEFINE lost == {t \in rows : Subject[t] = Subject[s]}
    <3>1. CASE lost = {}
      <4>1. active' = active /\ \A t \in Slots : place'[t] = place[t]
        BY <2>4, <3>1 DEF DeleteAsset
      <4>2. Front' = Front
        BY <4>1, FrontOfActive DEF PageInv, CapInv, CapTypes
      <4>3. page' = page /\ (torn => torn') /\ pc' = pc
        BY <2>4 DEF DeleteAsset, reqVars
      <4> QED BY <4>2, <4>3, PageKept DEF PageInv, Dropping
    <3>2. CASE lost # {}
      BY <2>4, <3>2 DEF DeleteAsset, PageExplained
    <3> QED BY <3>1, <3>2
  <2>5. CASE ExpirePage
    BY <2>5 DEF ExpirePage, PageExplained
  <2>6. CASE UNCHANGED vars
    BY <2>1, <2>6 DEF vars, reqVars, pageVars
  <2> QED BY <2>2, <2>3, <2>4, <2>5, <2>6, PageRequests DEF Next
<1>3. PageInv => PageExplained
  BY DEF PageInv
<1> QED BY <1>1, <1>2, <1>3, PTL DEF Spec
-----------------------------------------------------------------------------
(* Reordering.                                                             *)

\* Descent over the natural numbers, as a set of pairs.
LessRel == {ss \in Nat \X Nat : ss[1] < ss[2]}

\* A set of natural numbers has a least one.
LEMMA LeastNumber ==
    ASSUME NEW S \in SUBSET Nat, S # {}
    PROVE  \E n \in S : \A m \in S : n <= m
<1>1. IsWellFoundedOn(LessRel, Nat)
  BY NatLessThanWellFounded DEF OpToRel, LessRel
<1>2. PICK x \in S : \A y \in S : ~(<<y, x>> \in LessRel)
  BY <1>1, WFMin
<1>3. ASSUME NEW m \in S
      PROVE  x <= m
  <2>1. <<m, x>> \in Nat \X Nat
    OBVIOUS
  <2>2. ~(m < x)
    BY <1>2, <2>1 DEF LessRel
  <2> QED BY <2>2
<1> QED BY <1>3

\* One update of a place, and a function that makes the first n of them.
Put(at, up) == [at EXCEPT ![up[1]] = up[2]]
Puts(g, ups, n) == g = [m \in 0 .. n |-> IF m = 0 THEN place ELSE Put(g[m - 1], ups[m])]

\* There is one for every n: the least number without one could be reached from below.
LEMMA PutsExist == ASSUME NEW ups PROVE \A n \in Nat : \E g : Puts(g, ups, n)
<1> DEFINE Bad == {n \in Nat : ~\E g : Puts(g, ups, n)}
<1>1. SUFFICES ASSUME Bad # {} PROVE FALSE
  OBVIOUS
<1>2. PICK n \in Bad : \A m \in Bad : n <= m
  <2> HIDE DEF Bad
  <2>1. Bad \in SUBSET Nat BY DEF Bad
  <2> QED BY <1>1, <2>1, LeastNumber
<1>3. n \in Nat /\ ~\E g : Puts(g, ups, n)
  OBVIOUS
<1>4. CASE n = 0
  <2> DEFINE g == [m \in 0 .. 0 |-> place]
  <2>1. Puts(g, ups, 0)
    BY DEF Puts
  <2> QED BY <2>1, <1>3, <1>4
<1>5. CASE n # 0
  <2>1. n - 1 \in Nat /\ n - 1 \notin Bad
    BY <1>2, <1>3, <1>5
  <2>2. PICK f : Puts(f, ups, n - 1)
    BY <2>1
  <2> DEFINE g == [m \in 0 .. n |-> IF m = 0 THEN place ELSE Put(f[m - 1], ups[m])]
  <2>3. ASSUME NEW m \in 0 .. n - 1
        PROVE  g[m] = f[m]
    <3>1. f[m] = IF m = 0 THEN place ELSE Put(f[m - 1], ups[m])
      BY <2>2, <2>1, <1>3 DEF Puts
    <3>2. m \in 0 .. n
      BY <1>3
    <3> QED BY <3>1, <3>2
  <2>4. g = [m \in 0 .. n |-> IF m = 0 THEN place ELSE Put(g[m - 1], ups[m])]
    <3> HIDE DEF g
    <3>1. \A m \in 0 .. n : m # 0 => g[m - 1] = f[m - 1]
      BY <2>3, <1>3
    <3> QED BY <3>1 DEF g
  <2>5. Puts(g, ups, n)
    <3> HIDE DEF g
    <3> QED BY <2>4 DEF Puts
  <2> QED BY <2>5, <1>3
<1> QED BY <1>4, <1>5

\* So Placed, which is defined as such a function, is one.
LEMMA PlacedUnfolds ==
    ASSUME NEW ups, Len(ups) \in Nat, NEW n \in 0 .. Len(ups)
    PROVE  Placed(ups)[n] = IF n = 0 THEN place ELSE Put(Placed(ups)[n - 1], ups[n])
<1>1. \E g : Puts(g, ups, Len(ups))
  BY PutsExist
<1>2. Placed(ups) = [m \in 0 .. Len(ups) |->
                        IF m = 0 THEN place ELSE Put(Placed(ups)[m - 1], ups[m])]
  BY <1>1 DEF Placed, Puts, Put
<1> QED BY <1>2

\* Two updates for each id: its parking, then its place.
LEMMA StatementsOf ==
    ASSUME NEW ids \in Seq(Slots)
    PROVE  /\ Statements(ids) \in Seq(Slots \X Nat)
           /\ Len(Statements(ids)) = 2 * Len(ids)
           /\ \A n \in 1 .. 2 * Len(ids) : Statements(ids)[n] =
                 IF n <= Len(ids) THEN <<ids[n], Offset + n - 1>>
                 ELSE <<ids[n - Len(ids)], n - Len(ids) - 1>>
<1>1. Len(ids) \in Nat /\ 2 * Len(ids) \in Nat /\ \A i \in 1 .. Len(ids) : ids[i] \in Slots
  OBVIOUS
<1>2. ASSUME NEW n \in 1 .. 2 * Len(ids)
      PROVE  (IF n <= Len(ids) THEN <<ids[n], Offset + n - 1>>
              ELSE <<ids[n - Len(ids)], n - Len(ids) - 1>>) \in Slots \X Nat
  <2>1. CASE n <= Len(ids)
    BY <1>1, <2>1 DEF Offset
  <2>2. CASE ~(n <= Len(ids))
    <3>1. n - Len(ids) \in 1 .. Len(ids) /\ n - Len(ids) - 1 \in Nat
      BY <1>1, <2>2
    <3> QED BY <1>1, <2>2, <3>1
  <2> QED BY <2>1, <2>2
<1>3. Statements(ids) \in [1 .. 2 * Len(ids) -> Slots \X Nat]
  BY <1>2 DEF Statements
<1>4. ASSUME NEW m \in Nat, NEW g \in [1 .. m -> Slots \X Nat]
      PROVE  g \in Seq(Slots \X Nat) /\ Len(g) = m
  OBVIOUS
<1>5. \A n \in 1 .. 2 * Len(ids) : Statements(ids)[n] =
                 IF n <= Len(ids) THEN <<ids[n], Offset + n - 1>>
                 ELSE <<ids[n - Len(ids)], n - Len(ids) - 1>>
  BY DEF Statements
<1>6. Statements(ids) \in Seq(Slots \X Nat) /\ Len(Statements(ids)) = 2 * Len(ids)
  BY <1>1, <1>3, <1>4
<1> QED BY <1>5, <1>6

\* The places are numbers after every update.
LEMMA PlacedTyped ==
    ASSUME place \in [Slots -> Nat], NEW ups \in Seq(Slots \X Nat)
    PROVE  \A n \in 0 .. Len(ups) : Placed(ups)[n] \in [Slots -> Nat]
<1> DEFINE Bad == {n \in 0 .. Len(ups) : Placed(ups)[n] \notin [Slots -> Nat]}
<1>1. SUFFICES ASSUME Bad # {} PROVE FALSE
  OBVIOUS
<1>2. PICK n \in Bad : \A m \in Bad : n <= m
  <2> HIDE DEF Bad
  <2>1. Bad \in SUBSET Nat BY DEF Bad
  <2> QED BY <1>1, <2>1, LeastNumber
<1>3. n \in 0 .. Len(ups) /\ Len(ups) \in Nat
  OBVIOUS
<1>4. n # 0
  BY <1>2, <1>3, PlacedUnfolds
<1>5. n - 1 \in 0 .. Len(ups) /\ n - 1 \notin Bad
  BY <1>2, <1>3, <1>4
<1>6. Placed(ups)[n - 1] \in [Slots -> Nat]
  BY <1>5
<1>7. Placed(ups)[n] = Put(Placed(ups)[n - 1], ups[n])
  BY <1>3, <1>4, PlacedUnfolds
<1>8. ups[n] \in Slots \X Nat
  BY <1>3, <1>4
<1>9. Placed(ups)[n] \in [Slots -> Nat]
  BY <1>6, <1>7, <1>8 DEF Put
<1> QED BY <1>9

\* Where the i-th of the ids is after n updates.
Spot(ids, i, n) ==
    IF n < i THEN place[ids[i]] ELSE IF n < Len(ids) + i THEN Offset + i - 1 ELSE i - 1

\* Of ids without repetition each is where its last update put it.
LEMMA PlacedAt ==
    ASSUME place \in [Slots -> Nat], NEW ids \in Seq(Slots),
           \A i, j \in DOMAIN ids : ids[i] = ids[j] => i = j
    PROVE  \A n \in 0 .. 2 * Len(ids) : \A i \in 1 .. Len(ids) :
              Placed(Statements(ids))[n][ids[i]] = Spot(ids, i, n)
<1> DEFINE ups == Statements(ids)
           L == Len(ids)
           Right(n) == \A i \in 1 .. L : Placed(ups)[n][ids[i]] = Spot(ids, i, n)
           Bad == {n \in 0 .. 2 * L : ~Right(n)}
<1>0. /\ L \in Nat /\ 2 * L \in Nat /\ DOMAIN ids = 1 .. L
      /\ Len(ups) = 2 * L /\ ups \in Seq(Slots \X Nat)
      /\ \A i \in 1 .. L : ids[i] \in Slots
      /\ \A n \in 1 .. 2 * L :
            ups[n] = IF n <= L THEN <<ids[n], Offset + n - 1>> ELSE <<ids[n - L], n - L - 1>>
  BY StatementsOf
<1>1. SUFFICES ASSUME Bad # {} PROVE FALSE
  OBVIOUS
<1>2. PICK n \in Bad : \A m \in Bad : n <= m
  <2>1. Bad \in SUBSET Nat
    BY <1>0
  <2> HIDE DEF Bad
  <2> QED BY <1>1, <2>1, LeastNumber
<1>3. n \in 0 .. 2 * L /\ ~Right(n)
  BY <1>2
<1>4. \A m \in 0 .. 2 * L : m < n => Right(m)
  <2> SUFFICES ASSUME NEW m \in 0 .. 2 * L, m < n, ~Right(m) PROVE FALSE
    OBVIOUS
  <2>1. m \in Bad
    OBVIOUS
  <2> HIDE DEF Bad, Right
  <2> QED BY <2>1, <1>0, <1>2, <1>3
<1> HIDE DEF ups, L, Bad
<1>5. n # 0
  <2>1. SUFFICES ASSUME n = 0 PROVE Right(0)
    BY <1>3
  <2>2. Placed(ups)[0] = place
    <3>1. Len(ups) \in Nat /\ 0 \in 0 .. Len(ups)
      BY <1>0
    <3> QED BY <3>1, PlacedUnfolds
  <2> QED BY <1>0, <2>2 DEF Spot, L
<1>6. n - 1 \in 0 .. 2 * L /\ n - 1 < n /\ n \in 1 .. 2 * L
  BY <1>0, <1>3, <1>5
<1>7. Right(n - 1)
  <2> HIDE DEF Right
  <2> QED BY <1>4, <1>6
<1>8. Placed(ups)[n] = Put(Placed(ups)[n - 1], ups[n])
  <2>1. Len(ups) \in Nat /\ n \in 0 .. Len(ups)
    BY <1>0, <1>3
  <2> QED BY <2>1, <1>5, PlacedUnfolds
<1>9. Placed(ups)[n - 1] \in [Slots -> Nat]
  BY <1>0, <1>6, PlacedTyped
<1>10. ASSUME NEW k \in 1 .. L, NEW at, ups[n] = <<ids[k], at>>, NEW i \in 1 .. L
       PROVE  Placed(ups)[n][ids[i]] = IF i = k THEN at ELSE Spot(ids, i, n - 1)
  <2> DEFINE before == Placed(ups)[n - 1]
  <2>1. before[ids[i]] = Spot(ids, i, n - 1) /\ (ids[i] = ids[k] => i = k)
    BY <1>0, <1>7
  <2> HIDE DEF before
  <2>2. Placed(ups)[n] = [before EXCEPT ![ids[k]] = at]
    BY <1>8, <1>10 DEF Put, before
  <2>3. before \in [Slots -> Nat] /\ ids[i] \in Slots /\ ids[k] \in Slots
    BY <1>0, <1>9 DEF before
  <2> QED BY <2>1, <2>2, <2>3
<1>11. ASSUME NEW i \in 1 .. L
       PROVE  Placed(ups)[n][ids[i]] = Spot(ids, i, n)
  <2>1. CASE n <= L
    <3>0. n \in 1 .. L /\ n \in 1 .. 2 * L /\ n <= L
      BY <1>0, <1>6, <2>1
    <3>1. ups[n] = <<ids[n], Offset + n - 1>> /\ n \in 1 .. L
      BY <1>0, <3>0
    <3>2. Placed(ups)[n][ids[i]] = IF i = n THEN Offset + n - 1 ELSE Spot(ids, i, n - 1)
      BY <1>10, <3>1
    <3>3. i \in Nat /\ n \in Nat /\ L \in Nat /\ L = Len(ids)
      BY <1>0, <1>6 DEF L
    <3>4. CASE i = n
      BY <3>1, <3>2, <3>3, <3>4 DEF Spot
    <3>5. CASE i # n
      <4>1. n < L + i /\ n - 1 < L + i /\ (n < i <=> n - 1 < i)
        BY <1>11, <2>1, <3>3, <3>5
      <4>2. Spot(ids, i, n) = Spot(ids, i, n - 1)
        BY <3>3, <4>1 DEF Spot
      <4> QED BY <3>2, <3>5, <4>2
    <3> QED BY <3>4, <3>5
  <2>2. CASE ~(n <= L)
    <3> DEFINE k == n - L
    <3>1. /\ i \in Nat /\ n \in Nat /\ L \in Nat /\ L = Len(ids)
          /\ k \in 1 .. L /\ n = L + k
      BY <1>0, <1>6, <2>2 DEF L
    <3>2. ups[n] = <<ids[k], k - 1>>
      BY <1>0, <1>6, <2>2
    <3> HIDE DEF k
    <3>3. Placed(ups)[n][ids[i]] = IF i = k THEN k - 1 ELSE Spot(ids, i, n - 1)
      BY <1>10, <3>1, <3>2
    <3>4. CASE i = k
      <4>1. Spot(ids, i, n) = i - 1
        BY <3>1, <3>4 DEF Spot
      <4> QED BY <3>3, <3>4, <4>1
    <3>5. CASE i # k
      <4>1. (n < L + i <=> n - 1 < L + i) /\ ~(n < i) /\ ~(n - 1 < i)
        BY <1>11, <3>1, <3>5
      <4>2. Spot(ids, i, n) = Spot(ids, i, n - 1)
        BY <3>1, <4>1 DEF Spot
      <4> QED BY <3>3, <3>5, <4>2
    <3> QED BY <3>4, <3>5
  <2> QED BY <2>1, <2>2
<1> QED BY <1>3, <1>11

\* A request's list names each slot at most once.
Named(ids) == ids \in Seq(Slots) /\ \A i, j \in DOMAIN ids : ids[i] = ids[j] => i = j

\* The inductive invariant of the table, the requests and their lists.
TypeInv ==
    /\ CapInv
    /\ TypeOK
    /\ list \in [Requests -> Seq(Slots)]
    /\ \A r \in Requests : Named(list[r])

\* A finite set of numbers is bounded: a smallest subset without a bound would have
\* an element whose removal leaves a smaller one.
LEMMA Bounded ==
    ASSUME NEW S \in SUBSET Nat, IsFiniteSet(S)
    PROVE  \E b \in Nat : \A n \in S : n <= b
<1> DEFINE Has(T) == \E b \in Nat : \A n \in T : n <= b
           Bad == {T \in FiniteSubsetsOf(S) : ~Has(T)}
<1>1. S \in FiniteSubsetsOf(S)
  BY DEF FiniteSubsetsOf
<1>2. SUFFICES ASSUME Bad # {} PROVE FALSE
  BY <1>1
<1>3. PICK T \in Bad : \A U \in Bad : ~(<<U, T>> \in StrictSubsetOrdering(S))
  <2> HIDE DEF Bad
  <2>1. Bad \subseteq FiniteSubsetsOf(S) BY DEF Bad
  <2> QED BY <1>2, <2>1, FS_StrictSubsetOrderingWellFounded, WFMin
<1>4. T \subseteq S /\ IsFiniteSet(T) /\ ~Has(T)
  BY DEF FiniteSubsetsOf
<1>5. T # {}
  <2>1. Has({})
    OBVIOUS
  <2> HIDE DEF Has
  <2> QED BY <1>4, <2>1
<1>6. PICK x \in T : TRUE
  BY <1>5
<1>7. T \ {x} \in FiniteSubsetsOf(S) /\ <<T \ {x}, T>> \in StrictSubsetOrdering(S)
  <2>1. IsFiniteSet(T \ {x})
    BY <1>4, FS_RemoveElement
  <2> QED BY <1>4, <1>6, <2>1 DEF FiniteSubsetsOf, StrictSubsetOrdering
<1>8. Has(T \ {x})
  <2> HIDE DEF Has
  <2> QED BY <1>3, <1>7
<1>9. PICK b \in Nat : \A n \in T \ {x} : n <= b
  BY <1>8
<1>10. \A n \in T : n <= IF x <= b THEN b ELSE x
  BY <1>4, <1>9
<1>11. (IF x <= b THEN b ELSE x) \in Nat
  BY <1>4
<1> QED BY <1>4, <1>10, <1>11

\* The highest place, which ReadMax chooses, is a number.
LEMMA NextPlace ==
    ASSUME FeaturedAssumption, place \in [Slots -> Nat], rows # {}
    PROVE  1 + place[CHOOSE s \in rows : \A t \in rows : place[t] <= place[s]] \in Nat
<1>1. IsFiniteSet(rows) /\ rows \subseteq Slots
  <2>1. rows \in SUBSET Slots
    BY DEF rows
  <2> QED BY <2>1, FS_Subset DEF FeaturedAssumption
<1> DEFINE P == {place[s] : s \in rows}
<1>2. IsFiniteSet(P) /\ P \in SUBSET Nat
  <2>1. [s \in rows |-> place[s]] \in Surjection(rows, P)
    BY DEF Surjection
  <2> QED BY <1>1, <2>1, FS_Surjection
<1>3. PICK b \in Nat : \A n \in P : n <= b
  <2> HIDE DEF P
  <2> QED BY <1>2, Bounded
<1> DEFINE Gaps == {b - n : n \in P}
<1>4. Gaps \in SUBSET Nat /\ Gaps # {}
  <2>1. P # {}
    OBVIOUS
  <2> HIDE DEF P
  <2>2. \A n \in P : b - n \in Nat
    BY <1>2, <1>3
  <2> QED BY <2>1, <2>2
<1>5. PICK g \in Gaps : \A h \in Gaps : g <= h
  <2> HIDE DEF Gaps
  <2> QED BY <1>4, LeastNumber
<1>6. \E s \in rows : \A t \in rows : place[t] <= place[s]
  <2>1. PICK s \in rows : g = b - place[s]
    BY <1>5
  <2>2. ASSUME NEW t \in rows PROVE place[t] <= place[s]
    <3>1. b - place[t] \in Gaps
      OBVIOUS
    <3>2. b - place[s] <= b - place[t]
      <4> HIDE DEF Gaps
      <4> QED BY <1>5, <2>1, <3>1
    <3>3. place[s] \in Nat /\ place[t] \in Nat
      BY <1>1
    <3> QED BY <1>3, <3>2, <3>3
  <2> QED BY <2>2
<1> DEFINE m == CHOOSE s \in rows : \A t \in rows : place[t] <= place[s]
<1>7. m \in rows
  BY <1>6
<1> HIDE DEF m
<1>8. place[m] \in Nat
  BY <1>1, <1>7
<1> QED BY <1>8 DEF m

\* No request, no place.
LEMMA TypeInit == ASSUME FeaturedAssumption, BoundsAssumption, Init PROVE TypeInv
<1>1. TypeOK
  <2>1. active \subseteq rows /\ faults \in 0 .. MaxFaults
    BY DEF FeaturedAssumption, Init
  <2>2. /\ row \in [Slots -> {"new", "present", "gone"}] /\ place \in [Slots -> Nat]
        /\ slot \in [Requests -> Slots \cup {None}]
        /\ turnOn \in [Requests -> BOOLEAN] /\ to \in [Requests -> Nat]
        /\ \A r \in Requests : list[r] # <<>> <=> pc[r] = "renumber"
        /\ vpc \in [Visitors -> {"idle", "query", "store"}] /\ torn \in BOOLEAN
    BY DEF Init
  <2>3. pc \in [Requests -> {"idle", "count", "max", "insert", "write", "delete",
                            "renumber", "drop"}]
    BY DEF Init
  <2> QED BY <2>1, <2>2, <2>3 DEF TypeOK
<1>2. list \in [Requests -> Seq(Slots)] /\ \A r \in Requests : Named(list[r])
  BY DEF Init, Named
<1> QED BY <1>1, <1>2, CapInit DEF TypeInv

\* What BeginReorder accepts.
LEMMA ListNamed ==
    ASSUME FeaturedAssumption, NEW r \in Requests, NEW ids \in Lists, BeginReorder(r, ids)
    PROVE  Named(ids) /\ ids # <<>>
<1>1. PICK n \in 1 .. Cardinality(Slots) : ids \in [1 .. n -> Slots]
  BY DEF Lists
<1>2. n \in Nat
  BY <1>1, FS_CardinalityType DEF FeaturedAssumption
<1>3. ids \in Seq(Slots)
  BY <1>1, <1>2
<1> QED BY <1>3 DEF BeginReorder, Named

\* Slots and places of the table.
TableOK ==
    /\ row \in [Slots -> {"new", "present", "gone"}] /\ place \in [Slots -> Nat]
    /\ active \subseteq rows

\* Steps and values of the requests.
RequestsOK ==
    /\ pc \in [Requests -> {"idle", "count", "max", "insert", "write", "delete",
                            "renumber", "drop"}]
    /\ slot \in [Requests -> Slots \cup {None}]
    /\ turnOn \in [Requests -> BOOLEAN] /\ to \in [Requests -> Nat]
    /\ \A r \in Requests : list[r] # <<>> <=> pc[r] = "renumber"
    /\ list \in [Requests -> Seq(Slots)]
    /\ \A r \in Requests : Named(list[r])

\* The page's visitors.
PageOK == vpc \in [Visitors -> {"idle", "query", "store"}] /\ torn \in BOOLEAN

\* The parts of the invariant.
LEMMA TypeParts ==
    TypeInv <=> CapInv /\ TableOK /\ RequestsOK /\ PageOK /\ faults \in 0 .. MaxFaults
BY DEF TypeInv, TypeOK, TableOK, RequestsOK, PageOK

\* The end of a request.
LEMMA Leaves ==
    ASSUME RequestsOK, NEW r \in Requests,
           NEW step \in {"idle", "drop"}, Leave(r, step)
    PROVE  RequestsOK'
<1>1. <<>> \in Seq(Slots) /\ Named(<<>>)
  BY DEF Named
<1>2. list' = [list EXCEPT ![r] = <<>>] /\ list' \in [Requests -> Seq(Slots)]
  BY <1>1 DEF Leave, RequestsOK
<1>3. \A q \in Requests : Named(list'[q])
  BY <1>1, <1>2 DEF RequestsOK
<1>4. \A q \in Requests : list'[q] # <<>> <=> pc'[q] = "renumber"
  BY <1>2 DEF Leave, Goto, RequestsOK
<1>5. /\ pc' \in [Requests -> {"idle", "count", "max", "insert", "write", "delete",
                               "renumber", "drop"}]
      /\ slot' \in [Requests -> Slots \cup {None}]
      /\ turnOn' \in [Requests -> BOOLEAN] /\ to' \in [Requests -> Nat]
  BY DEF Leave, Goto, RequestsOK
<1> QED BY <1>2, <1>3, <1>4, <1>5 DEF RequestsOK, Named

\* A step of a request that has no list, to one that needs none.
LEMMA Proceeds ==
    ASSUME RequestsOK, NEW r \in Requests, list' = list, pc[r] # "renumber",
           NEW step \in {"count", "max", "insert", "write", "delete", "drop"}, Goto(r, step),
           slot' \in [Requests -> Slots \cup {None}],
           turnOn' \in [Requests -> BOOLEAN], to' \in [Requests -> Nat]
    PROVE  RequestsOK'
<1>1. pc' \in [Requests -> {"idle", "count", "max", "insert", "write", "delete",
                            "renumber", "drop"}]
  BY DEF Goto, RequestsOK
<1>2. \A q \in Requests : list'[q] # <<>> <=> pc'[q] = "renumber"
  BY DEF Goto, RequestsOK
<1> QED BY <1>1, <1>2 DEF RequestsOK, Named

\* The first step of a request.
LEMMA RequestBegins ==
    ASSUME FeaturedAssumption, BoundsAssumption, TableOK, RequestsOK, NEW r \in Requests,
           \/ \E s \in Slots : \/ \E on \in BOOLEAN : BeginCreate(r, s, on)
                               \/ BeginRemove(r, s)
                               \/ \E on \in {"keep", "on", "off"}, n \in Typed \cup {-1} :
                                      BeginUpdate(r, s, on, n)
           \/ \E ids \in Lists : BeginReorder(r, ids)
    PROVE  RequestsOK'
<1>1. ASSUME NEW s \in Slots, NEW on \in BOOLEAN, BeginCreate(r, s, on) PROVE RequestsOK'
  <2>1. /\ slot' \in [Requests -> Slots \cup {None}] /\ to' \in [Requests -> Nat]
        /\ turnOn' \in [Requests -> BOOLEAN] /\ list' = list /\ pc[r] # "renumber"
    BY <1>1 DEF BeginCreate, RequestsOK
  <2>2. PICK step \in {"count", "max"} : Goto(r, step)
    BY <1>1 DEF BeginCreate
  <2> QED BY <2>1, <2>2, Proceeds
<1>2. ASSUME NEW s \in Slots, BeginRemove(r, s) PROVE RequestsOK'
  <2>1. /\ slot' \in [Requests -> Slots \cup {None}] /\ to' \in [Requests -> Nat]
        /\ turnOn' \in [Requests -> BOOLEAN] /\ list' = list /\ pc[r] # "renumber"
        /\ Goto(r, "delete")
    BY <1>2 DEF BeginRemove, RequestsOK
  <2> QED BY <2>1, Proceeds
<1>3. ASSUME NEW s \in Slots, NEW on \in {"keep", "on", "off"}, NEW n \in Typed \cup {-1},
             BeginUpdate(r, s, on, n)
      PROVE  RequestsOK'
  <2>1. /\ slot' \in [Requests -> Slots \cup {None}] /\ list' = list /\ pc[r] # "renumber"
    BY <1>3 DEF BeginUpdate, RequestsOK
  <2>2. turnOn' \in [Requests -> BOOLEAN]
    BY <1>3 DEF BeginUpdate, RequestsOK
  <2>3. (IF n = -1 THEN place[s] ELSE n) \in Nat
    BY <1>3 DEF TableOK, BoundsAssumption
  <2>4. to' \in [Requests -> Nat]
    BY <1>3, <2>3 DEF BeginUpdate, RequestsOK
  <2>5. PICK step \in {"count", "write"} : Goto(r, step)
    BY <1>3 DEF BeginUpdate
  <2> QED BY <2>1, <2>2, <2>4, <2>5, Proceeds
<1>4. ASSUME NEW ids \in Lists, BeginReorder(r, ids) PROVE RequestsOK'
  <2>1. Named(ids) /\ ids # <<>> /\ ids \in Seq(Slots)
    BY <1>4, ListNamed DEF Named
  <2>2. /\ list' = [list EXCEPT ![r] = ids] /\ list' \in [Requests -> Seq(Slots)]
        /\ pc' = [pc EXCEPT ![r] = "renumber"]
    BY <1>4, <2>1 DEF BeginReorder, Goto, RequestsOK
  <2>3. /\ \A q \in Requests : Named(list'[q])
        /\ \A q \in Requests : list'[q] # <<>> <=> pc'[q] = "renumber"
    BY <2>1, <2>2 DEF RequestsOK
  <2>4. UNCHANGED <<slot, turnOn, to>>
    BY <1>4 DEF BeginReorder
  <2> QED BY <2>2, <2>3, <2>4 DEF RequestsOK, Named
<1> QED BY <1>1, <1>2, <1>3, <1>4

\* Renumbering leaves numbers.
LEMMA RenumberTyped ==
    ASSUME TableOK, NEW ids \in Seq(Slots)
    PROVE  Placed(Statements(ids))[Len(Statements(ids))] \in [Slots -> Nat]
<1>1. Statements(ids) \in Seq(Slots \X Nat) /\ Len(Statements(ids)) \in Nat
  BY StatementsOf
<1>2. Len(Statements(ids)) \in 0 .. Len(Statements(ids))
  BY <1>1
<1> QED BY <1>1, <1>2, PlacedTyped DEF TableOK

\* The later steps of a request.
LEMMA RequestContinues ==
    ASSUME FeaturedAssumption, CapTypes, TableOK, RequestsOK, NEW r \in Requests, RequestStep(r)
    PROVE  TableOK' /\ RequestsOK'
<1>1. CASE CountActive(r)
  <2>1. TableOK'
    BY <1>1 DEF CountActive, slotVars, TableOK, rows
  <2>2. CASE Finish(r)
    BY <2>1, <2>2, Leaves DEF Finish
  <2>3. CASE /\ Goto(r, IF row[slot[r]] = "new" THEN "max" ELSE "write")
             /\ UNCHANGED <<slot, turnOn, to, list>>
    <3>1. PICK step \in {"max", "write"} : Goto(r, step)
      BY <2>3
    <3>2. /\ slot' \in [Requests -> Slots \cup {None}] /\ to' \in [Requests -> Nat]
          /\ turnOn' \in [Requests -> BOOLEAN] /\ list' = list /\ pc[r] # "renumber"
      BY <1>1, <2>3 DEF CountActive, RequestsOK
    <3> QED BY <2>1, <3>1, <3>2, Proceeds
  <2> QED BY <1>1, <2>2, <2>3 DEF CountActive
<1>2. CASE ReadMax(r)
  <2>1. TableOK'
    BY <1>2 DEF ReadMax, slotVars, TableOK, rows
  <2> DEFINE next == IF rows = {} THEN 0
                ELSE 1 + place[CHOOSE s \in rows : \A t \in rows : place[t] <= place[s]]
  <2>2. next \in Nat
    BY NextPlace DEF TableOK
  <2>3. to' = [to EXCEPT ![r] = next]
    BY <1>2 DEF ReadMax
  <2> HIDE DEF next
  <2>4. /\ slot' \in [Requests -> Slots \cup {None}] /\ to' \in [Requests -> Nat]
        /\ turnOn' \in [Requests -> BOOLEAN] /\ list' = list /\ pc[r] # "renumber"
        /\ Goto(r, "insert")
    BY <1>2, <2>2, <2>3 DEF ReadMax, RequestsOK
  <2> QED BY <2>1, <2>4, Proceeds
<1>3. CASE InsertSlot(r)
  <2>1. CASE Finish(r) /\ UNCHANGED slotVars
    BY <2>1, Leaves DEF Finish, slotVars, TableOK, rows
  <2>2. CASE /\ row' = [row EXCEPT ![slot[r]] = "present"]
             /\ place' = Place(r) /\ Switch(r)
             /\ Written(r)
    <3>1. slot[r] \in Slots /\ to[r] \in Nat
      BY <1>3 DEF InsertSlot, CapTypes, RequestsOK
    <3>2. /\ row' \in [Slots -> {"new", "present", "gone"}]
          /\ rows' = rows \cup {slot[r]}
      BY <2>2, <3>1 DEF TableOK, rows
    <3>3. place' \in [Slots -> Nat]
      BY <2>2, <3>1 DEF Place, TableOK
    <3>4. active' \subseteq rows'
      BY <2>2, <3>2 DEF Switch, TableOK
    <3> QED BY <2>2, <3>2, <3>3, <3>4, Leaves DEF Written, TableOK
  <2> QED BY <1>3, <2>1, <2>2 DEF InsertSlot
<1>4. CASE WriteSlot(r)
  <2>1. CASE Finish(r) /\ UNCHANGED slotVars
    BY <2>1, Leaves DEF Finish, slotVars, TableOK, rows
  <2>2. CASE /\ slot[r] \in rows
             /\ place' = Place(r) /\ Switch(r)
             /\ Goto(r, "drop")
             /\ UNCHANGED <<row, deleted, slot, turnOn, to, list>>
    <3>1. slot[r] \in Slots /\ to[r] \in Nat
      BY <1>4 DEF WriteSlot, CapTypes, RequestsOK
    <3>2. rows' = rows /\ row' = row
      BY <2>2 DEF rows
    <3>3. place' \in [Slots -> Nat]
      BY <2>2, <3>1 DEF Place, TableOK
    <3>4. active' \subseteq rows'
      BY <2>2, <3>2 DEF Switch, TableOK
    <3>5. /\ slot' \in [Requests -> Slots \cup {None}] /\ to' \in [Requests -> Nat]
          /\ turnOn' \in [Requests -> BOOLEAN] /\ list' = list /\ pc[r] # "renumber"
      BY <1>4, <2>2 DEF WriteSlot, RequestsOK
    <3>6. RequestsOK'
      BY <2>2, <3>5, Proceeds
    <3> QED BY <3>2, <3>3, <3>4, <3>6 DEF TableOK
  <2> QED BY <1>4, <2>1, <2>2 DEF WriteSlot
<1>5. CASE DeleteSlot(r)
  <2>1. CASE Finish(r) /\ UNCHANGED slotVars
    BY <2>1, Leaves DEF Finish, slotVars, TableOK, rows
  <2>2. CASE /\ slot[r] \in rows
             /\ row' = [row EXCEPT ![slot[r]] = "gone"]
             /\ active' = active \ {slot[r]}
             /\ place' = [place EXCEPT ![slot[r]] = 0]
             /\ Written(r)
    <3>1. slot[r] \in Slots
      BY <2>2 DEF rows
    <3>2. /\ row' \in [Slots -> {"new", "present", "gone"}]
          /\ rows' = rows \ {slot[r]} /\ place' \in [Slots -> Nat]
      BY <2>2, <3>1 DEF TableOK, rows
    <3>3. active' \subseteq rows'
      BY <2>2, <3>2 DEF TableOK
    <3> QED BY <2>2, <3>2, <3>3, Leaves DEF Written, TableOK
  <2> QED BY <1>5, <2>1, <2>2 DEF DeleteSlot
<1>6. CASE Renumber(r)
  <2>1. CASE Finish(r) /\ UNCHANGED slotVars
    BY <2>1, Leaves DEF Finish, slotVars, TableOK, rows
  <2>2. CASE /\ place' = Placed(Statements(list[r]))[Len(Statements(list[r]))]
             /\ Written(r)
             /\ UNCHANGED <<row, active, deleted>>
    <3>1. list[r] \in Seq(Slots)
      BY DEF RequestsOK
    <3>2. place' \in [Slots -> Nat]
      BY <2>2, <3>1, RenumberTyped
    <3>3. rows' = rows
      BY <2>2 DEF rows
    <3> QED BY <2>2, <3>2, <3>3, Leaves DEF Written, TableOK
  <2> QED BY <1>6, <2>1, <2>2 DEF Renumber
<1>7. CASE DropPage(r) \/ Crash(r)
  BY <1>7, Leaves DEF DropPage, Crash, Finish, slotVars, TableOK, rows
<1> QED BY <1>1, <1>2, <1>3, <1>4, <1>5, <1>6, <1>7 DEF RequestStep

\* Every step of an admin, a visitor or an asset keeps the types.
LEMMA TypeStep ==
    ASSUME FeaturedAssumption, BoundsAssumption, TypeInv, [Next]_vars
    PROVE  TypeInv'
<1>1. CapInv /\ CapTypes /\ TableOK /\ RequestsOK /\ PageOK /\ faults \in 0 .. MaxFaults
  BY TypeParts DEF CapInv
<1>2. CapInv'
  BY <1>1, CapStep
<1>3. ASSUME UNCHANGED <<slotVars, reqVars>> PROVE TableOK' /\ RequestsOK'
  BY <1>1, <1>3 DEF slotVars, reqVars, TableOK, RequestsOK, rows, Named
<1>4. ASSUME NEW r \in Requests, NEW s \in Slots,
             \/ \E on \in BOOLEAN : BeginCreate(r, s, on)
             \/ \E on \in {"keep", "on", "off"}, n \in Typed \cup {-1} :
                    BeginUpdate(r, s, on, n)
             \/ BeginRemove(r, s)
      PROVE  TypeInv'
  <2>1. RequestsOK'
    BY <1>1, <1>4, RequestBegins
  <2>2. UNCHANGED slotVars /\ UNCHANGED pageVars /\ UNCHANGED faults
    BY <1>4 DEF BeginCreate, BeginUpdate, BeginRemove
  <2>3. TableOK' /\ PageOK' /\ faults' \in 0 .. MaxFaults
    BY <1>1, <2>2 DEF slotVars, pageVars, TableOK, rows, PageOK
  <2> QED BY <1>2, <2>1, <2>3 DEF TypeInv, TypeOK, TableOK, RequestsOK, PageOK
<1>5. ASSUME NEW r \in Requests, NEW ids \in Lists, BeginReorder(r, ids) PROVE TypeInv'
  <2>1. RequestsOK'
    BY <1>1, <1>5, RequestBegins
  <2>2. UNCHANGED slotVars /\ UNCHANGED pageVars /\ UNCHANGED faults
    BY <1>5 DEF BeginReorder
  <2>3. TableOK' /\ PageOK' /\ faults' \in 0 .. MaxFaults
    BY <1>1, <2>2 DEF slotVars, pageVars, TableOK, rows, PageOK
  <2> QED BY <1>2, <2>1, <2>3 DEF TypeInv, TypeOK, TableOK, RequestsOK, PageOK
<1>6. ASSUME NEW r \in Requests, RequestStep(r) PROVE TypeInv'
  <2>1. TableOK' /\ RequestsOK'
    BY <1>1, <1>6, RequestContinues
  <2>2. vpc' = vpc /\ torn' \in BOOLEAN
    BY <1>1, <1>6 DEF RequestStep, CountActive, ReadMax, InsertSlot, WriteSlot, DeleteSlot,
                      Renumber, DropPage, Crash, pageVars, PageOK
  <2>3. faults' \in 0 .. MaxFaults
    <3>1. faults' = faults \/ (faults < MaxFaults /\ faults' = faults + 1)
      BY <1>6 DEF RequestStep, CountActive, ReadMax, InsertSlot, WriteSlot, DeleteSlot,
                  Renumber, DropPage, Crash
    <3> QED BY <1>1, <3>1 DEF FeaturedAssumption
  <2>4. PageOK'
    BY <1>1, <2>2 DEF PageOK
  <2> QED BY <1>2, <2>1, <2>3, <2>4 DEF TypeInv, TypeOK, TableOK, RequestsOK, PageOK
<1>7. ASSUME NEW v \in Visitors, Miss(v) \/ ReadSlots(v) \/ StorePage(v) PROVE TypeInv'
  <2>1. UNCHANGED <<slotVars, reqVars>> /\ faults' = faults
    BY <1>7 DEF Miss, ReadSlots, StorePage
  <2>2. TableOK' /\ RequestsOK'
    BY <1>3, <2>1
  <2>3. vpc' \in [Visitors -> {"idle", "query", "store"}]
    BY <1>1, <1>7 DEF Miss, ReadSlots, StorePage, PageOK
  <2>4. torn' \in BOOLEAN
    BY <1>1, <1>7 DEF Miss, ReadSlots, StorePage, PageOK
  <2> QED BY <1>1, <1>2, <2>1, <2>2, <2>3, <2>4 DEF TypeInv, TypeOK, TableOK, RequestsOK, PageOK
<1>8. ASSUME NEW s \in Slots, DeleteAsset(Subject[s]) PROVE TypeInv'
  <2> DEFINE lost == {t \in rows : Subject[t] = Subject[s]}
  <2>1. /\ row' = [t \in Slots |-> IF t \in lost THEN "gone" ELSE row[t]]
        /\ place' = [t \in Slots |-> IF t \in lost THEN 0 ELSE place[t]]
        /\ active' = active \ lost /\ UNCHANGED reqVars /\ vpc' = vpc
        /\ torn' \in BOOLEAN /\ faults < MaxFaults /\ faults' = faults + 1
    BY <1>8 DEF DeleteAsset
  <2> HIDE DEF lost
  <2>2. TableOK'
    BY <1>1, <2>1 DEF TableOK, rows
  <2>3. RequestsOK'
    BY <1>1, <2>1 DEF RequestsOK, reqVars, Named
  <2>4. PageOK' /\ faults' \in 0 .. MaxFaults
    BY <1>1, <2>1 DEF PageOK, FeaturedAssumption
  <2> QED BY <1>2, <2>2, <2>3, <2>4 DEF TypeInv, TypeOK, TableOK, RequestsOK, PageOK
<1>9. CASE ExpirePage \/ UNCHANGED vars
  <2>1. UNCHANGED <<slotVars, reqVars>> /\ faults' = faults /\ vpc' = vpc /\ torn' \in BOOLEAN
    BY <1>1, <1>9 DEF ExpirePage, vars, pageVars, PageOK
  <2>2. TableOK' /\ RequestsOK'
    BY <1>1, <2>1 DEF slotVars, reqVars, TableOK, RequestsOK, rows, Named
  <2> QED BY <1>1, <1>2, <2>1, <2>2 DEF TypeInv, TypeOK, TableOK, RequestsOK, PageOK
<1> QED BY <1>4, <1>5, <1>6, <1>7, <1>8, <1>9 DEF Next

\* Every behaviour keeps the types: places stay numbers through every reorder, an
\* active slot has its row, and only a reorder holds a list.
THEOREM TypeCorrect == Spec => []TypeOK
<1>1. Init => TypeInv
  BY TypeInit, FeaturedAssumption, BoundsAssumption
<1>2. TypeInv /\ [Next]_vars => TypeInv'
  BY TypeStep, FeaturedAssumption, BoundsAssumption
<1>3. TypeInv => TypeOK
  BY DEF TypeInv
<1> QED BY <1>1, <1>2, <1>3, PTL DEF Spec

\* A reorder of all the rows, none of which is in the range the first pass parks
\* them in, meets no row on its way and leaves each at its index in the list.
LEMMA ReorderLands ==
    ASSUME TypeInv, NEW r \in Requests, Renumber(r),
           rows = {list[r][i] : i \in DOMAIN list[r]}, \A s \in rows : place[s] < Offset
    PROVE  Lands(r)
<1> DEFINE ids == list[r]
           L == Len(ids)
           ups == Statements(ids)
<1>1. /\ place \in [Slots -> Nat] /\ ids \in Seq(Slots)
      /\ \A i, j \in DOMAIN ids : ids[i] = ids[j] => i = j
  BY DEF TypeInv, TypeOK, Named
<1>2. /\ DOMAIN ids = 1 .. L /\ L \in Nat /\ Len(ups) = 2 * L /\ Len(ups) \in Nat
      /\ DOMAIN ups = 1 .. 2 * L
      /\ \A n \in 1 .. 2 * L :
            ups[n] = IF n <= L THEN <<ids[n], Offset + n - 1>> ELSE <<ids[n - L], n - L - 1>>
  <2>1. /\ ups \in Seq(Slots \X Nat) /\ Len(ups) = 2 * L
        /\ \A n \in 1 .. 2 * L :
            ups[n] = IF n <= L THEN <<ids[n], Offset + n - 1>> ELSE <<ids[n - L], n - L - 1>>
    BY <1>1, StatementsOf
  <2> HIDE DEF ups
  <2> QED BY <1>1, <2>1
<1>3. \A n \in 0 .. 2 * L : \A i \in 1 .. L : Placed(ups)[n][ids[i]] = Spot(ids, i, n)
  BY <1>1, PlacedAt
<1>4. /\ \A s \in rows : \E i \in 1 .. L : s = ids[i]
      /\ \A i \in 1 .. L : place[ids[i]] < Offset /\ place[ids[i]] \in Nat /\ ids[i] \in rows
  <2>1. \A i \in 1 .. L : ids[i] \in Slots /\ ids[i] \in rows
    BY <1>1, <1>2
  <2>2. \A s \in rows : \E i \in 1 .. L : s = ids[i]
    BY <1>2
  <2> HIDE DEF ids, ups
  <2> QED BY <1>1, <2>1, <2>2
<1> HIDE DEF ids, L, ups
<1>5. ASSUME NEW k \in 1 .. L, NEW i \in 1 .. L, i # k, NEW n \in 1 .. 2 * L,
             NEW at, at = (IF n <= L THEN Offset + k - 1 ELSE k - 1),
             n = k \/ n = L + k
      PROVE  Spot(ids, i, n - 1) # at
  <2>1. i \in Nat /\ k \in Nat /\ n \in Nat /\ L \in Nat /\ i >= 1 /\ k >= 1 /\ i <= L /\ k <= L
    BY <1>2
  <2>2. place[ids[i]] \in Nat /\ place[ids[i]] < Offset
    BY <1>4
  <2>3. CASE n = k
    <3>1. Spot(ids, i, n - 1) = IF n - 1 < i THEN place[ids[i]] ELSE Offset + i - 1
      BY <2>1, <2>3 DEF Spot, L
    <3> QED BY <1>5, <2>1, <2>2, <2>3, <3>1 DEF Offset
  <2>4. CASE n = L + k
    <3>1. Spot(ids, i, n - 1) = IF n - 1 < L + i THEN Offset + i - 1 ELSE i - 1
      BY <2>1, <2>4 DEF Spot, L
    <3> QED BY <1>5, <2>1, <2>4, <3>1 DEF Offset
  <2> QED BY <1>5, <2>3, <2>4
<1>6. ~Trips(ups)
  <2> SUFFICES ASSUME NEW n \in 1 .. 2 * L, NEW s \in rows \ {ups[n][1]},
                      Placed(ups)[n - 1][s] = ups[n][2]
               PROVE  FALSE
    BY <1>2 DEF Trips
  <2>1. n - 1 \in 0 .. 2 * L
    BY <1>2
  <2>2. PICK i \in 1 .. L : s = ids[i]
    BY <1>4
  <2>3. Spot(ids, i, n - 1) = ups[n][2]
    BY <1>3, <2>1, <2>2
  <2>4. PICK k \in 1 .. L : (n <= L /\ n = k) \/ (~(n <= L) /\ n = L + k)
    <3>1. \E k \in 1 .. L : (n <= L /\ n = k) \/ (~(n <= L) /\ n = L + k)
      <4>1. CASE n <= L
        BY <1>2, <4>1
      <4>2. CASE ~(n <= L)
        <5>1. n - L \in 1 .. L /\ n = L + (n - L)
          BY <1>2, <4>2
        <5> QED BY <1>2, <4>2, <5>1
      <4> QED BY <4>1, <4>2
    <3> QED BY <3>1
  <2>5. ups[n] = <<ids[k], IF n <= L THEN Offset + k - 1 ELSE k - 1>>
    <3>1. n - L = k \/ n <= L
      BY <1>2, <2>4
    <3> QED BY <1>2, <2>4, <3>1
  <2>6. i # k
    BY <2>2, <2>5
  <2> QED BY <1>5, <2>3, <2>4, <2>5, <2>6
<1>7. \A i \in DOMAIN list[r] : list[r][i] \in rows
  BY <1>2, <1>4 DEF ids
<1>8. place' = Placed(ups)[Len(ups)]
  BY <1>6, <1>7 DEF Renumber, ups, ids
<1>9. ASSUME NEW i \in DOMAIN list[r] PROVE place'[list[r][i]] = i - 1
  <2>1. i \in 1 .. L /\ i \in Nat /\ L \in Nat /\ 2 * L \in 0 .. 2 * L
    BY <1>2 DEF ids
  <2>2. place'[ids[i]] = Spot(ids, i, 2 * L)
    BY <1>2, <1>3, <1>8, <2>1
  <2>3. Spot(ids, i, 2 * L) = i - 1
    BY <2>1 DEF Spot, L
  <2> QED BY <2>2, <2>3 DEF ids
<1> QED BY <1>9 DEF Lands

\* The two passes of reorder do what the comment on them says, for any number of
\* slots and whatever their places, when the list names all of them.
THEOREM FullReorderIsDone == Spec => FullReorderLands
<1>1. Init => TypeInv
  BY TypeInit, FeaturedAssumption, BoundsAssumption
<1>2. TypeInv /\ [Next]_vars => TypeInv'
  BY TypeStep, FeaturedAssumption, BoundsAssumption
<1>3. TypeInv => [\A r \in Requests :
         /\ Renumber(r)
         /\ rows = {list[r][i] : i \in DOMAIN list[r]}
         /\ \A s \in rows : place[s] < Offset
         => Lands(r)]_vars
  BY ReorderLands
<1> QED BY <1>1, <1>2, <1>3, PTL DEF Spec, FullReorderLands
=============================================================================
