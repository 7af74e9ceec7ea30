---------------------------- MODULE CatalogueProofs ----------------------------
(***************************************************************************)
(* What admins make of categories, licenses and tags: for any number of     *)
(* rows, fields, assets, locales, tags and requests, and any failures, the   *)
(* rows, the cached lists, the links and the marks for the search index are  *)
(* as they were asked for, or the exception is one of those listed.          *)
(***************************************************************************)
EXTENDS Catalogue, Tags, TLAPS

-----------------------------------------------------------------------------
(* Categories and licenses.                                                *)

\* A request that writes: its next step says what it is about.
Duty ==
    {d \in [op : {"none", "create", "update", "reorder", "remove", "asset", "draft"},
            step : {"idle", "write", "delete", "edit", "drop", "reindex", "enqueue"},
            row : Rows \cup {NoRow}, now : Values \cup Goods \cup {NoRow}, only : SUBSET Fields] :
        /\ d.step = "write" => d.op = "update" /\ d.now \in Values
        /\ d.step = "reindex" => d.op = "update"
        /\ d.step = "enqueue" => d.op = "asset"
        /\ d.step = "edit" => d.op \in {"asset", "draft"}
        /\ d.op \in {"asset", "draft"} => d.now \in Goods /\ d.step \in {"edit", "drop", "enqueue"}}

\* The types of the variables of Catalogue.
CatalogueTypes ==
    /\ row \in [Rows -> Values \cup {NoRow}] /\ given \in [Rows -> Values]
    /\ home \in [Goods -> Rows \cup {NoRow}] /\ public \subseteq Goods
    /\ desk \in [Clerks -> Duty]
    /\ DOMAIN copy = Locales

\* They hold at first.
LEMMA CatalogueInitTypes == CatalogueInit => CatalogueTypes
BY CatalogueAssumption DEF CatalogueInit, CatalogueTypes, Values, Blank, Away, Duty

\* Where a step leaves its request.
LEMMA StepIs ==
    ASSUME NEW k \in Clerks, NEW op, NEW step, NEW r, k \in DOMAIN desk, Step(k, op, step, r)
    PROVE  desk'[k].step = step
<1>1. [Away EXCEPT !.op = op, !.step = step, !.row = r].step = step
  BY DEF Away
<1> QED BY <1>1 DEF Step

\* A request with nothing to do, and one that goes on to a step of its own.
LEMMA DutyAway == Away \in Duty
BY DEF Away, Duty

\* What Step and Close make of the requests.
LEMMA DutySteps ==
    ASSUME CatalogueTypes, NEW k \in Clerks,
           \/ Close(k)
           \/ \E r \in Rows \cup {NoRow} :
                  \/ Step(k, "create", "drop", r) \/ Step(k, "update", "drop", r)
                  \/ Step(k, "reorder", "drop", r) \/ Step(k, "remove", "drop", r)
                  \/ Step(k, "remove", "delete", r)
    PROVE  desk' \in [Clerks -> Duty]
<1>1. CASE Close(k)
  BY <1>1, DutyAway DEF Close, CatalogueTypes
<1>2. ASSUME NEW r \in Rows \cup {NoRow},
             NEW o \in {"create", "update", "reorder", "remove"}, NEW s \in {"drop", "delete"},
             Step(k, o, s, r)
      PROVE  desk' \in [Clerks -> Duty]
  <2>1. [Away EXCEPT !.op = o, !.step = s, !.row = r] \in Duty
    BY DEF Duty, Away
  <2>2. desk' = [desk EXCEPT ![k] = [Away EXCEPT !.op = o, !.step = s, !.row = r]]
    BY <1>2 DEF Step
  <2> QED BY <2>1, <2>2 DEF CatalogueTypes
<1> QED BY <1>1, <1>2

\* The types are kept by every step.
LEMMA CatalogueTyped ==
    ASSUME CatalogueTypes, [CatalogueNext]_catalogueVars
    PROVE  CatalogueTypes'
<1>1. ASSUME UNCHANGED <<row, given, home, public, desk>>, DOMAIN copy' = Locales
      PROVE  CatalogueTypes'
  BY <1>1 DEF CatalogueTypes
<1>2. ASSUME NEW q \in Fillers, ReadCounts(q) \/ SetCopy(q) \/ \E l \in Locales : ReadRows(q, l)
      PROVE  CatalogueTypes'
  <2>1. UNCHANGED <<row, given, home, public, desk>>
    BY <1>2 DEF ReadCounts, SetCopy, ReadRows
  <2>2. copy' = copy \/ \E l, list : copy' = [copy EXCEPT ![l] = list]
    BY <1>2 DEF ReadCounts, SetCopy, ReadRows
  <2>3. DOMAIN copy' = Locales
    BY <2>2 DEF CatalogueTypes
  <2> QED BY <1>1, <2>1, <2>3
<1>3. ASSUME NEW l \in Locales, LoseCopy(l)
      PROVE  CatalogueTypes'
  BY <1>1, <1>3 DEF LoseCopy, CatalogueTypes
<1>4. ASSUME NEW k \in Clerks, NEW v \in Values, CreateRow(k, v)
      PROVE  CatalogueTypes'
  <2>1. PICK r \in Rows : /\ row' = [row EXCEPT ![r] = v] /\ given' = [given EXCEPT ![r] = v]
                          /\ Step(k, "create", "drop", r)
    BY <1>4 DEF CreateRow
  <2>2. desk' \in [Clerks -> Duty]
    BY <2>1, DutySteps
  <2> QED BY <1>4, <2>1, <2>2 DEF CreateRow, CatalogueTypes
<1>5. ASSUME NEW k \in Clerks, NEW r \in Rows, NEW v \in Values, NEW only \in SUBSET Fields, ReadRow(k, r, v, only)
      PROVE  CatalogueTypes'
  <2>1. row[r] \in Values
    BY <1>5 DEF ReadRow, There, CatalogueTypes
  <2>2. [f \in Fields |-> IF f \in only THEN v[f] ELSE row[r][f]] \in Values
    BY <2>1 DEF Values
  <2>3. PICK now \in Values :
            desk' = [desk EXCEPT ![k] = [op |-> "update", step |-> "write", row |-> r, now |-> now, only |-> only]]
    BY <1>5, <2>2 DEF ReadRow
  <2>4. [op |-> "update", step |-> "write", row |-> r, now |-> now, only |-> only] \in Duty
    BY DEF Duty
  <2>5. desk' \in [Clerks -> Duty]
    BY <2>3, <2>4 DEF CatalogueTypes
  <2> QED BY <1>5, <2>5 DEF ReadRow, CatalogueTypes
<1>6. ASSUME NEW k \in Clerks, WriteRow(k)
      PROVE  CatalogueTypes'
  <2>1. desk[k].now \in Values /\ desk[k].row \in Rows \cup {NoRow} /\ UNCHANGED <<home, public, copy>>
    BY <1>6 DEF WriteRow, CatalogueTypes, Duty
  <2>2. CASE desk[k].row \notin There
    <3>1. Close(k) /\ UNCHANGED <<row, given>>
      BY <1>6, <2>2 DEF WriteRow
    <3> QED BY <2>1, <3>1, DutySteps DEF CatalogueTypes
  <2>3. CASE desk[k].row \in There
    <3> DEFINE r == desk[k].row
               now == desk[k].now
    <3>1. /\ row' = [row EXCEPT ![r] = now]
          /\ given' = [given EXCEPT ![r] = [f \in Fields |-> IF f \in desk[k].only THEN now[f] ELSE given[r][f]]]
          /\ Step(k, "update", "drop", r)
      BY <1>6, <2>3 DEF WriteRow
    <3>2. r \in Rows /\ given[r] \in Values
      BY <2>3 DEF There, CatalogueTypes
    <3>3. [f \in Fields |-> IF f \in desk[k].only THEN now[f] ELSE given[r][f]] \in Values
      BY <2>1, <3>2 DEF Values
    <3>4. row' \in [Rows -> Values \cup {NoRow}] /\ given' \in [Rows -> Values]
      BY <2>1, <3>1, <3>3 DEF CatalogueTypes
    <3>5. desk' \in [Clerks -> Duty]
      BY <3>1, <3>2, DutySteps
    <3> QED BY <2>1, <3>4, <3>5 DEF CatalogueTypes
  <2> QED BY <2>2, <2>3
<1>7. ASSUME NEW k \in Clerks, NEW v \in [Rows -> {0, 1}], ReorderRows(k, v)
      PROVE  CatalogueTypes'
  <2>1. UNCHANGED <<home, public, copy>> /\ desk' \in [Clerks -> Duty]
    BY <1>7, DutySteps DEF ReorderRows
  <2>2. ASSUME NEW r \in Rows
        PROVE  /\ row[r] \in Values => [row[r] EXCEPT !["sortOrder"] = v[r]] \in Values
               /\ [given[r] EXCEPT !["sortOrder"] = v[r]] \in Values
    BY DEF Values, CatalogueTypes
  <2>3. \A r \in Rows : r \in There => row[r] \in Values
    BY DEF There, CatalogueTypes
  <2>4. row' \in [Rows -> Values \cup {NoRow}]
    BY <1>7, <2>2, <2>3 DEF ReorderRows
  <2>5. given' \in [Rows -> Values]
    BY <1>7, <2>2 DEF ReorderRows
  <2> QED BY <2>1, <2>4, <2>5 DEF CatalogueTypes
<1>8. ASSUME NEW k \in Clerks, NEW r \in Rows, CountGoods(k, r)
      PROVE  CatalogueTypes'
  BY <1>8, DutySteps DEF CountGoods, CatalogueTypes
<1>9. ASSUME NEW k \in Clerks, DeleteRow(k)
      PROVE  CatalogueTypes'
  <2>1. UNCHANGED <<home, public, copy, given>> /\ desk[k].row \in Rows \cup {NoRow}
    BY <1>9 DEF DeleteRow, CatalogueTypes, Duty
  <2>2. desk' \in [Clerks -> Duty]
    BY <1>9, <2>1, DutySteps DEF DeleteRow
  <2>3. row' = row \/ row' = [row EXCEPT ![desk[k].row] = NoRow]
    BY <1>9 DEF DeleteRow
  <2> QED BY <2>1, <2>2, <2>3 DEF CatalogueTypes
<1>10. ASSUME NEW k \in Clerks, NEW a \in Goods, ReadAsset(k, a) \/ \E up \in BOOLEAN : Flip(k, a, up)
       PROVE  CatalogueTypes'
  <2>1. /\ [Away EXCEPT !.op = "asset", !.step = "drop", !.now = a] \in Duty
        /\ \A o \in {"asset", "draft"} : [Away EXCEPT !.op = o, !.step = "edit", !.now = a] \in Duty
    BY DEF Duty, Away
  <2>2. \/ desk' = [desk EXCEPT ![k] = [Away EXCEPT !.op = "asset", !.step = "drop", !.now = a]]
        \/ \E o \in {"asset", "draft"} :
               desk' = [desk EXCEPT ![k] = [Away EXCEPT !.op = o, !.step = "edit", !.now = a]]
    BY <1>10 DEF ReadAsset, Flip
  <2>3. desk' \in [Clerks -> Duty]
    BY <2>1, <2>2 DEF CatalogueTypes
  <2>4. public' \subseteq Goods /\ UNCHANGED <<row, given, home, copy>>
    BY <1>10 DEF ReadAsset, Flip, CatalogueTypes
  <2> QED BY <2>3, <2>4 DEF CatalogueTypes
<1>14. ASSUME NEW k \in Clerks, NEW r \in Rows, MoveAsset(k, r)
       PROVE  CatalogueTypes'
  <2>1. UNCHANGED <<row, given, public, copy>> /\ desk[k] \in Duty /\ desk[k].step = "edit"
    BY <1>14 DEF MoveAsset, CatalogueTypes
  <2>2. home' \in [Goods -> Rows \cup {NoRow}]
    BY <1>14 DEF MoveAsset, CatalogueTypes
  <2>3. [desk[k] EXCEPT !.step = "drop"] \in Duty
    BY <2>1 DEF Duty
  <2>4. Close(k) \/ desk' = [desk EXCEPT ![k].step = "drop"]
    BY <1>14 DEF MoveAsset
  <2>5. desk' \in [Clerks -> Duty]
    BY <2>3, <2>4, DutyAway DEF CatalogueTypes, Close
  <2> QED BY <2>1, <2>2, <2>5 DEF CatalogueTypes
<1>15. ASSUME NEW r \in Rows, SeedRow(r)
       PROVE  CatalogueTypes'
  <2>1. UNCHANGED <<home, public, desk, copy>>
    BY <1>15 DEF SeedRow
  <2>2. Blank \in Values /\ (r \in There => row[r] \in Values)
    BY DEF Blank, Values, There, CatalogueTypes
  <2>3. [f \in Fields |-> IF f = "iconKey" /\ r \in There THEN row[r][f] ELSE 1] \in Values
    BY <2>2 DEF Values
  <2>4. row' \in [Rows -> Values \cup {NoRow}] /\ given' \in [Rows -> Values]
    BY <1>15, <2>2, <2>3 DEF SeedRow, CatalogueTypes
  <2> QED BY <2>1, <2>4 DEF CatalogueTypes
<1>11. ASSUME NEW k \in Clerks, NEW ok \in BOOLEAN, DropCopies(k, ok)
       PROVE  CatalogueTypes'
  <2>1. UNCHANGED <<row, given, home, public>> /\ DOMAIN copy' = Locales /\ desk[k] \in Duty /\ desk[k].step = "drop"
    BY <1>11 DEF DropCopies, CatalogueTypes
  <2>2. \/ desk[k].op = "asset" /\ desk' = [desk EXCEPT ![k].step = "enqueue"]
        \/ desk[k].op = "update" /\ desk' = [desk EXCEPT ![k].step = "reindex"]
        \/ Close(k)
    BY <1>11 DEF DropCopies
  <2>3. /\ desk[k].op = "asset" => [desk[k] EXCEPT !.step = "enqueue"] \in Duty
        /\ desk[k].op = "update" => [desk[k] EXCEPT !.step = "reindex"] \in Duty
    BY <2>1 DEF Duty
  <2>4. desk' \in [Clerks -> Duty]
    BY <2>2, <2>3, DutyAway DEF CatalogueTypes, Close
  <2> QED BY <2>1, <2>4 DEF CatalogueTypes
<1>12. ASSUME NEW k \in Clerks, Reindex(k) \/ Enqueue(k) \/ Lapse(k)
       PROVE  CatalogueTypes'
  BY <1>12, DutySteps DEF Reindex, Enqueue, Lapse, CatalogueTypes
<1>13. CASE UNCHANGED catalogueVars
  BY <1>1, <1>13 DEF catalogueVars, CatalogueTypes
<1> QED BY <1>2, <1>3, <1>4, <1>5, <1>6, <1>7, <1>8, <1>9, <1>10, <1>11, <1>12, <1>13, <1>14, <1>15
       DEF CatalogueNext

\* Each field is as it was last asked for, or was put back.
LEMMA FieldsStep ==
    ASSUME CatalogueTypes, FieldsExplained, [CatalogueNext]_catalogueVars
    PROVE  FieldsExplained'
<1>1. ASSUME UNCHANGED <<row, given, undone>> PROVE FieldsExplained'
  BY <1>1 DEF FieldsExplained, There
<1>2. ASSUME NEW k \in Clerks, NEW v \in Values, CreateRow(k, v)
      PROVE  FieldsExplained'
  <2>1. PICK r \in Rows : row' = [row EXCEPT ![r] = v] /\ given' = [given EXCEPT ![r] = v] /\ undone' = undone
    BY <1>2 DEF CreateRow
  <2> QED BY <2>1 DEF FieldsExplained, There, CatalogueTypes
<1>3. ASSUME NEW k \in Clerks, WriteRow(k)
      PROVE  FieldsExplained'
  <2> DEFINE r == desk[k].row
             now == desk[k].now
             only == desk[k].only
  <2>1. CASE r \notin There
    BY <1>1, <1>3, <2>1 DEF WriteRow
  <2>2. CASE r \in There
    <3>1. /\ row' = [row EXCEPT ![r] = now]
          /\ given' = [given EXCEPT ![r] = [f \in Fields |-> IF f \in only THEN now[f] ELSE given[r][f]]]
          /\ undone' = (undone \cup {<<r, f>> : f \in {x \in Fields \ only : now[x] # row[r][x]}})
                           \ {<<r, f>> : f \in only}
      BY <1>3, <2>2 DEF WriteRow
    <3>2. ASSUME NEW x \in There', NEW f \in Fields, x # r
          PROVE  row'[x][f] = given'[x][f] \/ <<x, f>> \in undone'
      <4>1. x \in There /\ row'[x] = row[x] /\ given'[x] = given[x]
        BY <3>1, <3>2 DEF There, CatalogueTypes
      <4>2. <<x, f>> \in undone => <<x, f>> \in undone'
        BY <3>1, <3>2
      <4> QED BY <4>1, <4>2 DEF FieldsExplained
    <3>3. r \in Rows /\ row'[r] = now /\ \A f \in Fields : given'[r][f] = IF f \in only THEN now[f] ELSE given[r][f]
      BY <2>2, <3>1 DEF There, CatalogueTypes
    <3>4. ASSUME NEW f \in Fields
          PROVE  row'[r][f] = given'[r][f] \/ <<r, f>> \in undone'
      <4>1. CASE f \in only
        BY <3>3, <4>1
      <4>2. CASE f \notin only /\ now[f] = row[r][f]
        <5>1. row[r][f] = given[r][f] \/ <<r, f>> \in undone
          BY <2>2 DEF FieldsExplained
        <5>2. <<r, f>> \in undone => <<r, f>> \in undone'
          BY <3>1, <4>2
        <5> QED BY <3>3, <4>2, <5>1, <5>2
      <4>3. CASE f \notin only /\ now[f] # row[r][f]
        BY <3>1, <4>3
      <4> QED BY <4>1, <4>2, <4>3
    <3> QED BY <3>2, <3>4 DEF FieldsExplained
  <2> QED BY <2>1, <2>2
<1>4. ASSUME NEW k \in Clerks, NEW v \in [Rows -> {0, 1}], ReorderRows(k, v)
      PROVE  FieldsExplained'
  <2>1. /\ row' = [r \in Rows |-> IF r \in There THEN [row[r] EXCEPT !["sortOrder"] = v[r]] ELSE NoRow]
        /\ given' = [r \in Rows |-> [given[r] EXCEPT !["sortOrder"] = v[r]]]
        /\ undone' = {x \in undone : x[2] # "sortOrder"}
    BY <1>4 DEF ReorderRows
  <2>2. ASSUME NEW r \in There', NEW f \in Fields
        PROVE  row'[r][f] = given'[r][f] \/ <<r, f>> \in undone'
    <3>1. r \in Rows /\ r \in There
      BY <2>1 DEF There
    <3>2. row[r] \in Values /\ given[r] \in Values
      BY <3>1 DEF There, CatalogueTypes
    <3>3. /\ row'[r] = [row[r] EXCEPT !["sortOrder"] = v[r]]
          /\ given'[r] = [given[r] EXCEPT !["sortOrder"] = v[r]]
      BY <2>1, <3>1
    <3>4. CASE f = "sortOrder"
      BY <3>2, <3>3, <3>4 DEF Values
    <3>5. CASE f # "sortOrder"
      <4>1. row'[r][f] = row[r][f] /\ given'[r][f] = given[r][f]
        BY <3>2, <3>3, <3>5 DEF Values
      <4>2. <<r, f>> \in undone => <<r, f>> \in undone'
        BY <2>1, <3>5
      <4> QED BY <3>1, <4>1, <4>2 DEF FieldsExplained
    <3> QED BY <3>4, <3>5
  <2> QED BY <2>2 DEF FieldsExplained
<1>5. ASSUME NEW k \in Clerks, DeleteRow(k)
      PROVE  FieldsExplained'
  <2> DEFINE r == desk[k].row
  <2>1. CASE UNCHANGED <<row, undone>>
    BY <1>1, <1>5, <2>1 DEF DeleteRow
  <2>2. CASE row' = [row EXCEPT ![r] = NoRow] /\ undone' = {x \in undone : x[1] # r}
    <3>1. given' = given
      BY <1>5 DEF DeleteRow
    <3>2. ASSUME NEW x \in There', NEW f \in Fields
          PROVE  row'[x][f] = given'[x][f] \/ <<x, f>> \in undone'
      <4>1. x \in There /\ x # r /\ row'[x] = row[x]
        BY <2>2 DEF There, CatalogueTypes
      <4>2. <<x, f>> \in undone => <<x, f>> \in undone'
        BY <2>2, <4>1
      <4> QED BY <3>1, <4>1, <4>2 DEF FieldsExplained
    <3> QED BY <3>2 DEF FieldsExplained
  <2> QED BY <1>5, <2>1, <2>2 DEF DeleteRow
<1>6. ASSUME NEW q \in Fillers, ReadCounts(q) \/ SetCopy(q) \/ \E l \in Locales : ReadRows(q, l)
      PROVE  FieldsExplained'
  BY <1>1, <1>6 DEF ReadCounts, SetCopy, ReadRows
<1>7. ASSUME NEW k \in Clerks,
             \/ \E r \in Rows, v \in Values, only \in SUBSET Fields : ReadRow(k, r, v, only)
             \/ \E r \in Rows : CountGoods(k, r) \/ MoveAsset(k, r)
             \/ \E a \in Goods : ReadAsset(k, a) \/ \E up \in BOOLEAN : Flip(k, a, up)
             \/ Reindex(k) \/ Enqueue(k) \/ Lapse(k) \/ \E ok \in BOOLEAN : DropCopies(k, ok)
      PROVE  FieldsExplained'
  BY <1>1, <1>7 DEF ReadRow, CountGoods, MoveAsset, ReadAsset, Flip, Reindex, Enqueue, Lapse, DropCopies
<1>9. ASSUME NEW r \in Rows, SeedRow(r)
      PROVE  FieldsExplained'
  <2>1. CASE r \notin There
    <3>1. undone' = undone /\ given' = [given EXCEPT ![r] = Blank] /\ row' = [row EXCEPT ![r] = Blank]
      BY <1>9, <2>1 DEF SeedRow, Blank
    <3> QED BY <3>1 DEF FieldsExplained, There, CatalogueTypes
  <2>2. CASE r \in There
    <3>1. /\ given' = given
          /\ row' = [row EXCEPT ![r] = [f \in Fields |-> IF f = "iconKey" THEN row[r][f] ELSE 1]]
          /\ undone' = undone \cup {<<r, f>> : f \in {x \in Fields \ {"iconKey"} : row[r][x] # 1}}
      BY <1>9, <2>2 DEF SeedRow
    <3>2. ASSUME NEW x \in There', NEW f \in Fields
          PROVE  row'[x][f] = given'[x][f] \/ <<x, f>> \in undone'
      <4>1. x \in There /\ x \in Rows
        BY <2>2, <3>1 DEF There, CatalogueTypes
      <4>2. row[x][f] = given[x][f] \/ <<x, f>> \in undone'
        BY <3>1, <4>1 DEF FieldsExplained
      <4>3. CASE x = r /\ f # "iconKey" /\ row[x][f] # 1
        BY <3>1, <4>3
      <4>4. CASE ~(x = r /\ f # "iconKey" /\ row[x][f] # 1)
        BY <3>1, <4>1, <4>2, <4>4 DEF CatalogueTypes
      <4> QED BY <4>3, <4>4
    <3> QED BY <3>2 DEF FieldsExplained
  <2> QED BY <2>1, <2>2
<1>8. CASE UNCHANGED catalogueVars \/ \E l \in Locales : LoseCopy(l)
  BY <1>1, <1>8 DEF LoseCopy, catalogueVars
<1> QED BY <1>2, <1>3, <1>4, <1>5, <1>6, <1>7, <1>8, <1>9 DEF CatalogueNext

\* The list depends on the rows and on the assets.
LEMMA ListStays ==
    ASSUME UNCHANGED <<shelf, row, home, public>>
    PROVE  List' = List
<1>1. ActiveRows' = ActiveRows /\ Counts' = Counts
  BY DEF ActiveRows, Counts, There, Homed
<1> QED BY <1>1 DEF List, Shown

\* The copy of each locale is the list, or a request is about to drop it, or it is
\* known to be tainted.
LEMMA CopyStep ==
    ASSUME CatalogueTypes, CopyExplained, [CatalogueNext]_catalogueVars
    PROVE  CopyExplained'
<1>1. ASSUME NEW k \in Clerks, desk'[k].step = "drop" PROVE CopyExplained'
  BY <1>1 DEF CopyExplained
<1>2. ASSUME UNCHANGED <<shelf, row, home, public, copy, tainted>>,
             \A k \in Clerks : desk[k].step = "drop" => desk'[k].step = "drop"
      PROVE  CopyExplained'
  BY <1>2, ListStays DEF CopyExplained
<1>3. ASSUME NEW k \in Clerks,
             \/ \E v \in Values : CreateRow(k, v)
             \/ \E v \in [Rows -> {0, 1}] : ReorderRows(k, v)
             \/ \E a \in Goods, up \in BOOLEAN : Flip(k, a, up)
      PROVE  CopyExplained'
  <2>1. CASE \E v \in Values : CreateRow(k, v)
    <3>1. PICK r \in Rows : Step(k, "create", "drop", r)
      BY <2>1 DEF CreateRow
    <3>2. desk'[k].step = "drop"
      BY <3>1, StepIs DEF CatalogueTypes
    <3> QED BY <1>1, <3>2
  <2>2. CASE \E v \in [Rows -> {0, 1}] : ReorderRows(k, v)
    <3>1. Step(k, "reorder", "drop", NoRow)
      BY <2>2 DEF ReorderRows
    <3>2. desk'[k].step = "drop"
      BY <3>1, StepIs DEF CatalogueTypes
    <3> QED BY <1>1, <3>2
  <2>3. CASE \E a \in Goods, up \in BOOLEAN : Flip(k, a, up)
    <3>1. PICK a \in Goods : desk' = [desk EXCEPT ![k] = [Away EXCEPT !.op = "asset", !.step = "drop", !.now = a]]
      BY <2>3 DEF Flip
    <3>2. [Away EXCEPT !.op = "asset", !.step = "drop", !.now = a].step = "drop"
      BY DEF Away
    <3>3. desk'[k].step = "drop"
      BY <3>1, <3>2 DEF CatalogueTypes
    <3> QED BY <1>1, <3>3
  <2> QED BY <1>3, <2>1, <2>2, <2>3
<1>12. ASSUME NEW k \in Clerks, NEW r \in Rows, MoveAsset(k, r)
       PROVE  CopyExplained'
  <2>1. UNCHANGED <<shelf, row, public, copy, tainted>> /\ desk[k].step # "drop"
    BY <1>12 DEF MoveAsset
  <2>2. CASE Close(k) /\ home' = home
    <3>1. \A j \in Clerks : desk[j].step = "drop" => desk'[j].step = "drop"
      BY <2>1, <2>2 DEF Close, CatalogueTypes
    <3> QED BY <1>2, <2>1, <2>2, <3>1
  <2>3. CASE desk' = [desk EXCEPT ![k].step = "drop"]
    <3>1. desk'[k].step = "drop"
      BY <2>3 DEF CatalogueTypes, Duty
    <3> QED BY <1>1, <3>1
  <2> QED BY <1>12, <2>2, <2>3 DEF MoveAsset
<1>13. ASSUME NEW r \in Rows, SeedRow(r)
       PROVE  CopyExplained'
  <2>1. copy' = copy /\ \A l \in Locales : copy[l] # NoRow => l \in tainted'
    BY <1>13 DEF SeedRow
  <2> QED BY <2>1 DEF CopyExplained
<1>4. ASSUME NEW k \in Clerks, WriteRow(k) \/ DeleteRow(k)
      PROVE  CopyExplained'
  <2>1. UNCHANGED <<shelf, home, public, copy, tainted>> /\ desk[k].step # "drop"
    BY <1>4 DEF WriteRow, DeleteRow
  <2>2. (Close(k) /\ row' = row) \/ desk'[k].step = "drop"
    <3>1. \/ Close(k) /\ row' = row
          \/ Step(k, "update", "drop", desk[k].row) \/ Step(k, "remove", "drop", desk[k].row)
      BY <1>4 DEF WriteRow, DeleteRow
    <3> QED BY <3>1, StepIs DEF CatalogueTypes
  <2>3. CASE Close(k) /\ row' = row
    <3>1. \A j \in Clerks : desk[j].step = "drop" => desk'[j].step = "drop"
      BY <2>1, <2>3 DEF Close, CatalogueTypes
    <3> QED BY <1>2, <2>1, <2>3, <3>1
  <2> QED BY <1>1, <2>2, <2>3
<1>5. ASSUME NEW k \in Clerks,
             \/ \E r \in Rows, v \in Values, only \in SUBSET Fields : ReadRow(k, r, v, only)
             \/ \E r \in Rows : CountGoods(k, r)
             \/ \E a \in Goods : ReadAsset(k, a)
             \/ Reindex(k) \/ Enqueue(k)
      PROVE  CopyExplained'
  <2>1. UNCHANGED <<shelf, row, home, public, copy, tainted>> /\ desk[k].step # "drop"
    <3>1. Away.step # "drop"
      BY DEF Away
    <3>2. desk[k] = Away \/ desk[k].step \in {"reindex", "enqueue"}
      BY <1>5 DEF ReadRow, CountGoods, ReadAsset, Reindex, Enqueue
    <3>3. UNCHANGED <<shelf, row, home, public, copy, tainted>>
      BY <1>5 DEF ReadRow, CountGoods, ReadAsset, Reindex, Enqueue
    <3> QED BY <3>1, <3>2, <3>3
  <2>2. \A j \in Clerks \ {k} : desk'[j] = desk[j]
    BY <1>5 DEF ReadRow, CountGoods, ReadAsset, Reindex, Enqueue, Step, Close, CatalogueTypes
  <2> QED BY <1>2, <2>1, <2>2
<1>6. ASSUME NEW k \in Clerks, NEW ok \in BOOLEAN, DropCopies(k, ok)
      PROVE  CopyExplained'
  <2>1. ASSUME NEW l \in Locales PROVE copy'[l] = NoRow \/ l \in tainted'
    BY <1>6 DEF DropCopies, CopyKeys
  <2> QED BY <2>1 DEF CopyExplained
<1>7. ASSUME NEW k \in Clerks, Lapse(k)
      PROVE  CopyExplained'
  <2>1. CASE desk[k].step = "drop"
    <3>1. Locales \subseteq tainted'
      BY <1>7, <2>1 DEF Lapse, CopyKeys
    <3> QED BY <3>1 DEF CopyExplained
  <2>2. CASE desk[k].step # "drop"
    <3>1. \A j \in Clerks : desk[j].step = "drop" => desk'[j].step = "drop"
      BY <1>7, <2>2 DEF Lapse, Close, CatalogueTypes
    <3> QED BY <1>2, <1>7, <2>2, <3>1 DEF Lapse
  <2> QED BY <2>1, <2>2
<1>8. ASSUME NEW q \in Fillers, SetCopy(q)
      PROVE  CopyExplained'
  <2>1. List' = List /\ desk' = desk
    BY <1>8, ListStays DEF SetCopy
  <2>2. ASSUME NEW l \in Locales
        PROVE  \/ copy'[l] = List \/ l \in tainted'
               \/ copy'[l] = copy[l] /\ (l \in tainted => l \in tainted')
    <3>1. CASE l = fill[q].locale
      BY <1>8, <3>1 DEF SetCopy, CatalogueTypes
    <3>2. CASE l # fill[q].locale
      BY <1>8, <3>2 DEF SetCopy, CatalogueTypes
    <3> QED BY <3>1, <3>2
  <2> QED BY <2>1, <2>2 DEF CopyExplained
<1>9. ASSUME NEW q \in Fillers, ReadCounts(q) \/ \E l \in Locales : ReadRows(q, l)
      PROVE  CopyExplained'
  BY <1>2, <1>9 DEF ReadCounts, ReadRows
<1>10. ASSUME NEW l \in Locales, LoseCopy(l)
       PROVE  CopyExplained'
  <2>1. List' = List /\ desk' = desk
    BY <1>10, ListStays DEF LoseCopy
  <2>2. ASSUME NEW m \in Locales
        PROVE  copy'[m] = NoRow \/ (copy'[m] = copy[m] /\ (m \in tainted => m \in tainted'))
    BY <1>10 DEF LoseCopy, CatalogueTypes
  <2> QED BY <2>1, <2>2 DEF CopyExplained
<1>11. CASE UNCHANGED catalogueVars
  BY <1>2, <1>11 DEF catalogueVars
<1> QED BY <1>3, <1>4, <1>5, <1>6, <1>7, <1>8, <1>9, <1>10, <1>11, <1>12, <1>13 DEF CatalogueNext

\* An asset that is owed has a request that will enqueue it; one that is not
\* published any more has its own, for no update of its category would enqueue it.
\* Licenses are not part of search documents.
OwedInv ==
    /\ shelf \in {"categories", "licenses"} /\ owed \subseteq Goods
    /\ \A a \in owed \ lost :
           \/ \E k \in Clerks : ByAsset(a, k)
           \/ a \in public /\ \E k \in Clerks : ByRow(a, k)
    /\ shelf = "licenses" => owed = {} /\ public = {}

\* A step that leaves the assets and the requests on their behalf leaves it so.
LEMMA OwedKept ==
    ASSUME OwedInv, owed' \subseteq Goods, owed' \ lost' \subseteq owed \ lost,
           shelf = "licenses" => owed' = {},
           UNCHANGED <<shelf, home, public>>,
           \A a \in owed' \ lost', k \in Clerks :
               /\ ByAsset(a, k) => ByAsset(a, k)'
               /\ a \in public /\ ByRow(a, k) => ByRow(a, k)'
    PROVE  OwedInv'
BY DEF OwedInv

\* Every step keeps it.
LEMMA OwedStep ==
    ASSUME CatalogueTypes, OwedInv, [CatalogueNext]_catalogueVars
    PROVE  OwedInv'
<1>1. ASSUME NEW q \in Fillers, ReadCounts(q) \/ SetCopy(q) \/ \E l \in Locales : ReadRows(q, l)
      PROVE  OwedInv'
  <2>1. UNCHANGED <<shelf, home, public, desk, owed, lost>>
    BY <1>1 DEF ReadCounts, SetCopy, ReadRows
  <2> QED BY <2>1, OwedKept DEF ByAsset, ByRow, OwedInv
<1>2. CASE UNCHANGED catalogueVars \/ \E l \in Locales : LoseCopy(l)
  <2>1. UNCHANGED <<shelf, home, public, desk, owed, lost>>
    BY <1>2 DEF LoseCopy, catalogueVars
  <2> QED BY <2>1, OwedKept DEF ByAsset, ByRow, OwedInv
<1>3. ASSUME NEW k \in Clerks, desk[k].op # "asset", desk[k].step \notin {"drop", "reindex"},
             \A j \in Clerks \ {k} : desk'[j] = desk[j],
             UNCHANGED <<shelf, home, public, owed, lost>>
      PROVE  OwedInv'
  BY <1>3, OwedKept DEF ByAsset, ByRow, OwedInv
<1>4. ASSUME NEW k \in Clerks, desk[k] = Away
      PROVE  desk[k].op # "asset" /\ desk[k].step \notin {"drop", "reindex"}
  BY <1>4 DEF Away
<1>5. ASSUME NEW k \in Clerks,
             \/ \E v \in Values : CreateRow(k, v)
             \/ \E v \in [Rows -> {0, 1}] : ReorderRows(k, v)
             \/ \E r \in Rows, v \in Values, only \in SUBSET Fields : ReadRow(k, r, v, only)
             \/ \E r \in Rows : CountGoods(k, r)
             \/ \E a \in Goods : ReadAsset(k, a)
      PROVE  OwedInv'
  <2>1. desk[k] = Away /\ UNCHANGED <<shelf, home, public, owed, lost>>
    BY <1>5 DEF CreateRow, ReorderRows, ReadRow, CountGoods, ReadAsset
  <2>2. \A j \in Clerks \ {k} : desk'[j] = desk[j]
    BY <1>5 DEF CreateRow, ReorderRows, ReadRow, CountGoods, ReadAsset, Step, CatalogueTypes
  <2> QED BY <1>3, <1>4, <2>1, <2>2
<1>6. ASSUME NEW k \in Clerks, DeleteRow(k)
      PROVE  OwedInv'
  <2>1. desk[k].step = "delete" /\ UNCHANGED <<shelf, home, public, owed, lost>>
    BY <1>6 DEF DeleteRow
  <2>2. desk[k].op # "asset"
    BY <2>1 DEF CatalogueTypes, Duty
  <2>3. \A j \in Clerks \ {k} : desk'[j] = desk[j]
    BY <1>6 DEF DeleteRow, Step, Close, CatalogueTypes
  <2> QED BY <1>3, <2>1, <2>2, <2>3
<1>7. ASSUME NEW k \in Clerks, WriteRow(k)
      PROVE  OwedInv'
  <2>1. desk[k].step = "write" /\ UNCHANGED <<shelf, home, public, lost>>
    BY <1>7 DEF WriteRow
  <2>2. desk[k].op # "asset"
    BY <2>1 DEF CatalogueTypes, Duty
  <2>3. \A j \in Clerks \ {k} : desk'[j] = desk[j]
    BY <1>7 DEF WriteRow, Step, Close, CatalogueTypes
  <2>4. CASE owed' = owed
    BY <1>3, <2>1, <2>2, <2>3, <2>4
  <2>5. CASE owed' # owed
    <3>1. /\ shelf # "licenses" /\ owed' = owed \cup (Homed(desk[k].row) \cap public)
          /\ desk[k].row \in There /\ Step(k, "update", "drop", desk[k].row)
      BY <1>7, <2>5 DEF WriteRow
    <3>2. /\ desk'[k].op = "update" /\ desk'[k].step = "drop" /\ desk'[k].row = desk[k].row
      BY <3>1 DEF Step, Away, CatalogueTypes
    <3>3. ASSUME NEW a \in owed' \ lost'
          PROVE  \/ \E j \in Clerks : ByAsset(a, j)'
                 \/ a \in public' /\ \E j \in Clerks : ByRow(a, j)'
      <4>1. CASE a \in Homed(desk[k].row) \cap public
        BY <2>1, <3>2, <4>1 DEF ByRow, Homed
      <4>2. CASE a \in owed \ lost
        <5>1. \A j \in Clerks : (ByAsset(a, j) => ByAsset(a, j)') /\ (ByRow(a, j) => ByRow(a, j)')
          BY <2>1, <2>2, <2>3 DEF ByAsset, ByRow
        <5> QED BY <2>1, <4>2, <5>1 DEF OwedInv
      <4> QED BY <2>1, <3>1, <3>3, <4>1, <4>2
    <3>4. owed' \subseteq Goods
      BY <3>1 DEF OwedInv, Homed
    <3> QED BY <2>1, <3>1, <3>3, <3>4 DEF OwedInv
  <2> QED BY <2>4, <2>5
<1>8. ASSUME NEW k \in Clerks, NEW a \in Goods, NEW up \in BOOLEAN, Flip(k, a, up)
      PROVE  OwedInv'
  <2>1. /\ desk[k] = Away /\ UNCHANGED <<shelf, home, lost>> /\ shelf = "categories"
        /\ owed' \subseteq owed \cup {a}
        /\ \A b \in Goods \ {a} : b \in public <=> b \in public'
    BY <1>8 DEF Flip
  <2>2. /\ desk'[k].op = "asset" /\ desk'[k].step = "drop" /\ desk'[k].now = a
        /\ \A j \in Clerks \ {k} : desk'[j] = desk[j]
    BY <1>8 DEF Flip, Away, CatalogueTypes
  <2>3. ASSUME NEW b \in owed' \ lost'
        PROVE  \/ \E j \in Clerks : ByAsset(b, j)'
               \/ b \in public' /\ \E j \in Clerks : ByRow(b, j)'
    <3>1. CASE b = a
      BY <2>2, <3>1 DEF ByAsset
    <3>2. CASE b # a
      <4>1. b \in owed \ lost /\ home'[b] = home[b] /\ (b \in public <=> b \in public')
        BY <2>1, <2>3, <3>2 DEF OwedInv
      <4>2. \A j \in Clerks : (ByAsset(b, j) => ByAsset(b, j)') /\ (ByRow(b, j) => ByRow(b, j)')
        BY <1>4, <2>1, <2>2, <4>1 DEF ByAsset, ByRow
      <4> QED BY <4>1, <4>2 DEF OwedInv
    <3> QED BY <3>1, <3>2
  <2> QED BY <2>1, <2>3 DEF OwedInv
<1>12. ASSUME NEW k \in Clerks, NEW r \in Rows, MoveAsset(k, r)
       PROVE  OwedInv'
  <2> DEFINE a == desk[k].now
  <2>1. UNCHANGED <<shelf, public>> /\ desk[k].step = "edit" /\ desk[k].op \in {"asset", "draft"} /\ a \in Goods
    BY <1>12 DEF MoveAsset, CatalogueTypes, Duty
  <2>2. \A b : ~ByAsset(b, k) /\ ~ByRow(b, k)
    BY <2>1 DEF ByAsset, ByRow
  <2>3. CASE Close(k) /\ UNCHANGED <<home, owed, lost>>
    <3>1. \A j \in Clerks \ {k} : desk'[j] = desk[j]
      BY <2>3 DEF Close, CatalogueTypes
    <3>2. ASSUME NEW b \in owed' \ lost', NEW j \in Clerks
          PROVE  /\ ByAsset(b, j) => ByAsset(b, j)'
                 /\ b \in public /\ ByRow(b, j) => ByRow(b, j)'
      BY <2>2, <2>3, <3>1 DEF ByAsset, ByRow
    <3> QED BY <2>1, <2>3, <3>2, OwedKept DEF OwedInv
  <2>4. CASE /\ home' = [home EXCEPT ![a] = r] /\ owed' = owed \cup ({a} \cap public)
             /\ lost' = IF desk[k].op = "draft" THEN lost \cup ({a} \cap public) ELSE lost
             /\ desk' = [desk EXCEPT ![k].step = "drop"]
    <3>1. /\ desk'[k].op = desk[k].op /\ desk'[k].step = "drop" /\ desk'[k].now = a
          /\ \A j \in Clerks \ {k} : desk'[j] = desk[j]
      BY <2>1, <2>4 DEF CatalogueTypes, Duty
    <3>2. ASSUME NEW b \in owed' \ lost'
          PROVE  \/ \E j \in Clerks : ByAsset(b, j)'
                 \/ b \in public' /\ \E j \in Clerks : ByRow(b, j)'
      <4>1. CASE b = a /\ desk[k].op = "asset"
        BY <3>1, <4>1 DEF ByAsset
      <4>2. CASE b = a /\ desk[k].op = "draft"
        <5>1. b \notin public /\ b \in owed \ lost
          BY <2>4, <3>2, <4>2
        <5>2. PICK j \in Clerks : ByAsset(b, j)
          BY <5>1 DEF OwedInv
        <5>3. desk'[j] = desk[j]
          <6>1. j # k
            BY <2>2, <5>2
          <6> QED BY <3>1, <6>1
        <5> QED BY <5>2, <5>3 DEF ByAsset
      <4>3. CASE b # a
        <5>1. b \in owed \ lost /\ b \in Goods
          BY <2>4, <3>2, <4>3 DEF OwedInv
        <5>2. home'[b] = home[b]
          BY <2>4, <4>3, <5>1 DEF CatalogueTypes
        <5>3. \A j \in Clerks : (ByAsset(b, j) => ByAsset(b, j)') /\ (ByRow(b, j) => ByRow(b, j)')
          BY <2>2, <3>1, <5>2 DEF ByAsset, ByRow
        <5> QED BY <2>1, <5>1, <5>3 DEF OwedInv
      <4> QED BY <2>1, <4>1, <4>2, <4>3
    <3>3. owed' \subseteq Goods /\ (shelf = "licenses" => owed' = {})
      BY <2>1, <2>4 DEF OwedInv
    <3> QED BY <2>1, <3>2, <3>3 DEF OwedInv
  <2> QED BY <1>12, <2>3, <2>4 DEF MoveAsset
<1>13. ASSUME NEW r \in Rows, SeedRow(r)
       PROVE  OwedInv'
  <2>1. /\ UNCHANGED <<shelf, home, public, desk>> /\ owed' \ lost' \subseteq owed \ lost
        /\ owed' \subseteq Goods /\ (shelf = "licenses" => owed' = {})
    BY <1>13 DEF SeedRow, OwedInv, Homed
  <2> QED BY <2>1, OwedKept DEF ByAsset, ByRow
<1>9. ASSUME NEW k \in Clerks, NEW ok \in BOOLEAN, DropCopies(k, ok)
      PROVE  OwedInv'
  <2>1. UNCHANGED <<shelf, home, public, owed, lost>> /\ desk[k].step = "drop"
    BY <1>9 DEF DropCopies
  <2>2. \A j \in Clerks \ {k} : desk'[j] = desk[j]
    BY <1>9 DEF DropCopies, Close, CatalogueTypes
  <2>3. CASE desk[k].op = "asset"
    <3>1. desk' = [desk EXCEPT ![k].step = "enqueue"]
      BY <1>9, <2>3 DEF DropCopies
    <3>2. desk'[k].op = "asset" /\ desk'[k].step = "enqueue" /\ desk'[k].now = desk[k].now
      BY <2>3, <3>1 DEF CatalogueTypes, Duty
    <3> QED BY <2>1, <2>2, <2>3, <3>2, OwedKept DEF ByAsset, ByRow, OwedInv
  <2>4. CASE desk[k].op = "update" /\ shelf = "categories"
    <3>1. desk' = [desk EXCEPT ![k].step = "reindex"]
      BY <1>9, <2>4 DEF DropCopies
    <3>2. desk'[k].op = "update" /\ desk'[k].step = "reindex" /\ desk'[k].row = desk[k].row
      BY <2>4, <3>1 DEF CatalogueTypes, Duty
    <3> QED BY <2>1, <2>2, <2>4, <3>2, OwedKept DEF ByAsset, ByRow, OwedInv
  <2>5. CASE desk[k].op # "asset" /\ ~(desk[k].op = "update" /\ shelf = "categories")
    <3>1. CASE shelf = "licenses"
      BY <2>1, <3>1, OwedKept DEF OwedInv
    <3>2. CASE shelf = "categories"
      BY <2>1, <2>2, <2>5, <3>2, OwedKept DEF ByAsset, ByRow, OwedInv
    <3> QED BY <3>1, <3>2 DEF OwedInv
  <2> QED BY <2>3, <2>4, <2>5
<1>10. ASSUME NEW k \in Clerks, Reindex(k)
       PROVE  OwedInv'
  <2> DEFINE all == Homed(desk[k].row) \cap public
  <2>1. PICK done \in SUBSET all : owed' = owed \ done /\ lost' = (lost \ done) \cup (owed \cap (all \ done))
    BY <1>10 DEF Reindex
  <2>2. /\ UNCHANGED <<shelf, home, public>> /\ desk[k].step = "reindex"
        /\ \A j \in Clerks \ {k} : desk'[j] = desk[j]
    BY <1>10 DEF Reindex, Close, CatalogueTypes
  <2>3. desk[k].op = "update"
    BY <2>2 DEF CatalogueTypes, Duty
  <2>4. ASSUME NEW a \in owed' \ lost'
        PROVE  a \in owed \ lost /\ ~ByAsset(a, k) /\ (a \in public => ~ByRow(a, k))
    <3>1. a \in Goods /\ a \in owed \ lost /\ a \notin all
      BY <2>1, <2>4 DEF OwedInv
    <3> QED BY <2>3, <3>1 DEF ByAsset, ByRow, Homed
  <2>5. \A a \in owed' \ lost', j \in Clerks :
            /\ ByAsset(a, j) => ByAsset(a, j)'
            /\ a \in public /\ ByRow(a, j) => ByRow(a, j)'
    BY <2>2, <2>4 DEF ByAsset, ByRow
  <2>6. owed' \subseteq Goods /\ (shelf = "licenses" => owed' = {})
    BY <2>1 DEF OwedInv
  <2> QED BY <2>2, <2>4, <2>5, <2>6, OwedKept
<1>14. ASSUME NEW k \in Clerks, Enqueue(k)
       PROVE  OwedInv'
  <2>1. /\ UNCHANGED <<shelf, home, public>> /\ desk[k].step = "enqueue"
        /\ owed' = owed \ {desk[k].now} /\ lost' = lost \ {desk[k].now}
        /\ \A j \in Clerks \ {k} : desk'[j] = desk[j]
    BY <1>14 DEF Enqueue, Close, CatalogueTypes
  <2>2. desk[k].op = "asset"
    BY <2>1 DEF CatalogueTypes, Duty
  <2>3. \A a \in owed' \ lost', j \in Clerks :
            /\ ByAsset(a, j) => ByAsset(a, j)'
            /\ a \in public /\ ByRow(a, j) => ByRow(a, j)'
    BY <2>1, <2>2 DEF ByAsset, ByRow
  <2>4. owed' \ lost' \subseteq owed \ lost /\ owed' \subseteq Goods /\ (shelf = "licenses" => owed' = {})
    BY <2>1 DEF OwedInv
  <2> QED BY <2>1, <2>3, <2>4, OwedKept
<1>11. ASSUME NEW k \in Clerks, Lapse(k)
       PROVE  OwedInv'
  <2>1. /\ UNCHANGED <<shelf, home, public, owed>> /\ \A j \in Clerks \ {k} : desk'[j] = desk[j]
        /\ lost' = lost \cup {a \in owed : ByAsset(a, k) \/ ByRow(a, k)}
    BY <1>11 DEF Lapse, Close, CatalogueTypes
  <2>2. \A a \in owed' \ lost' : ~ByAsset(a, k) /\ ~ByRow(a, k)
    BY <2>1
  <2>3. \A a \in owed' \ lost', j \in Clerks :
            /\ ByAsset(a, j) => ByAsset(a, j)'
            /\ a \in public /\ ByRow(a, j) => ByRow(a, j)'
    BY <2>1, <2>2 DEF ByAsset, ByRow
  <2> QED BY <2>1, <2>3, OwedKept DEF OwedInv
<1> QED BY <1>1, <1>2, <1>5, <1>6, <1>7, <1>8, <1>9, <1>10, <1>11, <1>12, <1>13, <1>14
       DEF CatalogueNext

\* The rows, the copies and what is owed to the index: each field of a category or
\* license is as an admin asked for last, each cached list is the present one, and
\* each published asset that changed, or whose category did, is enqueued, but for
\* requests that wrote, set or decided by what they had read before, the limit of an
\* update, the seed script and failures.
THEOREM CatalogueIsExplained == CatalogueSpec => []CatalogueExplained
<1> DEFINE Inv == CatalogueTypes /\ FieldsExplained /\ CopyExplained /\ OwedInv
<1>1. CatalogueInit => Inv
  <2> SUFFICES ASSUME CatalogueInit PROVE Inv
    OBVIOUS
  <2>1. FieldsExplained /\ CopyExplained /\ OwedInv
    BY DEF CatalogueInit, FieldsExplained, CopyExplained, OwedInv
  <2> QED BY <2>1, CatalogueInitTypes
<1>2. Inv /\ [CatalogueNext]_catalogueVars => Inv'
  BY CatalogueTyped, FieldsStep, CopyStep, OwedStep
<1>3. Inv => CatalogueExplained
  <2> SUFFICES ASSUME Inv PROVE CatalogueExplained
    OBVIOUS
  <2>1. ASSUME NEW a \in owed \ lost
        PROVE  \E k \in Clerks : ByAsset(a, k) \/ ByRow(a, k)
    BY DEF OwedInv
  <2> QED BY <2>1 DEF CatalogueExplained, CategoryReachesIndex
<1> QED BY <1>1, <1>2, <1>3, PTL DEF CatalogueSpec

-----------------------------------------------------------------------------
(* Tags.                                                                   *)

\* An admin's request about a tag: a merge knows both of its tags, a removal has
\* moved nothing.
Chore ==
    {d \in [op : {"none", "merge", "rename", "remove"},
            step : {"idle", "move", "delete", "users", "mark"},
            from : Labels \cup {NoLabel}, into : Labels \cup {NoLabel},
            touched : SUBSET Tagged, moved : SUBSET Tagged, added : SUBSET Tagged] :
        /\ d.added \subseteq d.moved
        /\ d.op = "merge" => d.from \in Labels /\ d.into \in Labels /\ d.from # d.into
        /\ d.step = "delete" => d.from \in Labels /\ d.op \in {"merge", "remove"}
        /\ d.op = "remove" => d.moved = {}}

\* The types; a deleted tag never comes back.
TagsTypes ==
    /\ tag \subseteq Labels /\ gone \subseteq Labels /\ tag \cap gone = {}
    /\ link \subseteq Tagged \X Labels /\ wanted \subseteq Tagged \X Labels
    /\ raced \subseteq Tagged \X Labels
    /\ stale \subseteq Tagged /\ missed \subseteq Tagged
    /\ task \in [Curators -> Chore]
    /\ \A k \in Curators :
           /\ task[k].op \in {"merge", "remove"} => task[k].from \in tag \cup gone
           /\ task[k].op = "merge" => task[k].into \in tag \cup gone

\* They hold at first.
LEMMA TagsInitTypes == TagsInit => TagsTypes
BY DEF TagsInit, TagsTypes, Rest, Chore

\* What a step makes of the tags and of the requests.
LEMMA TagsKept ==
    ASSUME TagsTypes, NEW k \in Curators, NEW d \in Chore,
           task' = [task EXCEPT ![k] = d], d.op \in {"merge", "remove"} => d.from \in tag \cup gone,
           d.op = "merge" => d.into \in tag \cup gone,
           tag' \subseteq Labels, gone' \subseteq Labels, tag' \cap gone' = {},
           tag \cup gone \subseteq tag' \cup gone',
           link' \subseteq Tagged \X Labels, wanted' \subseteq Tagged \X Labels,
           raced' \subseteq Tagged \X Labels, stale' \subseteq Tagged, missed' \subseteq Tagged
    PROVE  TagsTypes'
BY DEF TagsTypes

\* The same when only the request changes.
LEMMA TagsKeptQuiet ==
    ASSUME TagsTypes, NEW k \in Curators, NEW d \in Chore,
           task' = [task EXCEPT ![k] = d], d.op \in {"merge", "remove"} => d.from \in tag \cup gone,
           d.op = "merge" => d.into \in tag \cup gone,
           UNCHANGED <<tag, gone, link, wanted, raced>>,
           stale' \subseteq Tagged, missed' \subseteq Tagged
    PROVE  TagsTypes'
BY TagsKept DEF TagsTypes

\* The types are kept by every step.
LEMMA TagsTyped ==
    ASSUME TagsTypes, [TagsNext]_tagsVars
    PROVE  TagsTypes'
<1>1. Rest \in Chore /\ Rest.op = "none"
  BY DEF Rest, Chore
<1>2. \A t : Users(t) \subseteq Tagged
  BY DEF Users
<1>3. ASSUME NEW a \in Tagged, NEW ts \in SUBSET Labels, NEW respelt \in SUBSET ts, SetTags(a, ts, respelt)
      PROVE  TagsTypes'
  <2>1. tag' \subseteq Labels /\ UNCHANGED <<gone, task>> /\ tag' \cap gone' = {} /\ tag \subseteq tag'
    BY <1>3 DEF SetTags, TagsTypes
  <2>2. link' \subseteq Tagged \X Labels /\ wanted' \subseteq Tagged \X Labels
    BY <1>3 DEF SetTags, TagsTypes
  <2>3. raced' \subseteq Tagged \X Labels
    <3> DEFINE old == {t \in Labels : <<a, t>> \in link}
               hit == {x \in ts \cup old : Taking(x) # {}}
    <3>1. raced' = {l \in raced : l[1] # a \/ Taking(l[2]) # {}} \cup {<<a, t>> : t \in hit}
      BY <1>3 DEF SetTags
    <3>2. hit \subseteq Labels
      OBVIOUS
    <3> HIDE DEF hit
    <3> QED BY <3>1, <3>2 DEF TagsTypes
  <2>4. UNION {Users(t) : t \in respelt} \subseteq Tagged
    BY <1>2
  <2>5. stale' \subseteq Tagged /\ missed' \subseteq Tagged
    BY <1>3, <2>4 DEF SetTags, TagsTypes
  <2> QED BY <2>1, <2>2, <2>3, <2>5 DEF TagsTypes
<1>4. ASSUME NEW k \in Curators, NEW s \in Labels, NEW d \in Labels, FindMerge(k, s, d)
      PROVE  TagsTypes'
  <2>1. PICK e \in Chore : task' = [task EXCEPT ![k] = e] /\ e.from = s /\ e.into = d
    <3>1. [Rest EXCEPT !.op = "merge", !.step = "move", !.from = s, !.into = d, !.touched = Users(s)] \in Chore
      <4>1. s # d
        BY <1>4 DEF FindMerge
      <4> QED BY <1>2, <4>1 DEF Rest, Chore
    <3>2. LET e == [Rest EXCEPT !.op = "merge", !.step = "move", !.from = s, !.into = d, !.touched = Users(s)]
          IN e.from = s /\ e.into = d
      BY DEF Rest
    <3> QED BY <1>4, <3>1, <3>2 DEF FindMerge
  <2> QED BY <1>4, <2>1, TagsKeptQuiet DEF FindMerge, TagsTypes
<1>5. ASSUME NEW k \in Curators, Over(k), UNCHANGED <<tag, gone, link, wanted, raced>>,
             stale' \subseteq Tagged, missed' \subseteq Tagged
      PROVE  TagsTypes'
  BY <1>1, <1>5, TagsKeptQuiet DEF Over
<1>6. ASSUME NEW k \in Curators, MoveLinks(k)
      PROVE  TagsTypes'
  <2>1. UNCHANGED <<tag, gone, link, wanted, raced, stale, missed>>
    BY <1>6 DEF MoveLinks
  <2>2. CASE Over(k)
    BY <1>5, <2>1, <2>2 DEF TagsTypes
  <2>3. CASE ~Over(k)
    <3> DEFINE all == Users(task[k].from)
               missing == all \ Users(task[k].into)
               e == [task[k] EXCEPT !.step = "delete", !.moved = all, !.added = missing]
    <3>1. task' = [task EXCEPT ![k].step = "delete", ![k].moved = all, ![k].added = missing] /\ task[k].op = "merge"
      BY <1>6, <2>3 DEF MoveLinks, On
    <3>2. task' = [task EXCEPT ![k] = e]
      BY <3>1
    <3>3. e \in Chore /\ e.from = task[k].from /\ e.into = task[k].into
      <4>1. task[k] \in Chore /\ all \subseteq Tagged /\ missing \subseteq all
        BY <1>2 DEF TagsTypes
      <4> HIDE DEF all, missing
      <4> QED BY <3>1, <4>1 DEF Chore
    <3>4. task[k].from \in tag \cup gone /\ task[k].into \in tag \cup gone
      BY <3>1 DEF TagsTypes
    <3> HIDE DEF e
    <3> QED BY <2>1, <3>2, <3>3, <3>4, TagsKeptQuiet DEF TagsTypes
  <2> QED BY <2>2, <2>3
<1>7. ASSUME NEW k \in Curators, DeleteMerged(k)
      PROVE  TagsTypes'
  <2> DEFINE s == task[k].from
             d == task[k].into
             new == {<<a, d>> : a \in task[k].added}
             put == {<<a, d>> : a \in task[k].moved}
             changed == Users(s) \cup {a \in task[k].added : <<a, d>> \notin link}
  <2>1. /\ task[k] \in Chore /\ task[k].op = "merge" /\ s \in Labels /\ d \in Labels
        /\ task[k].moved \subseteq Tagged /\ task[k].added \subseteq Tagged
    BY <1>7 DEF DeleteMerged, On, TagsTypes, Chore
  <2>2. CASE s \notin tag
    BY <1>5, <1>7, <2>2 DEF DeleteMerged, TagsTypes
  <2>3. CASE s \in tag
    <3>1. /\ tag' = tag \ {s} /\ gone' = gone \cup {s}
          /\ link' = {l \in link : l[2] # s} \cup new
          /\ wanted' = Renamed(s, d)
          /\ raced' = {<<l[1], IF l[2] = s THEN d ELSE l[2]>> : l \in raced}
                 \cup IF Taking(d) \ {k} # {} \/ d \notin tag THEN put ELSE {}
          /\ stale' = stale \cup changed /\ missed' = missed \cup (changed \ task[k].touched)
          /\ task' = [task EXCEPT ![k].step = "mark"]
      BY <1>7, <2>3 DEF DeleteMerged, Next_
    <3>2. new \subseteq Tagged \X Labels /\ put \subseteq Tagged \X Labels /\ changed \subseteq Tagged
      BY <1>2, <2>1
    <3>3. link' \subseteq Tagged \X Labels
      BY <3>1, <3>2 DEF TagsTypes
    <3>4. wanted' \subseteq Tagged \X Labels
      BY <2>1, <3>1 DEF TagsTypes, Renamed
    <3>5. {<<l[1], IF l[2] = s THEN d ELSE l[2]>> : l \in raced} \subseteq Tagged \X Labels
      BY <2>1 DEF TagsTypes
    <3>6. raced' \subseteq Tagged \X Labels
      BY <3>1, <3>2, <3>5
    <3>7. LET e == [task[k] EXCEPT !.step = "mark"] IN e \in Chore /\ e.from = s /\ e.into = d
      BY <2>1 DEF Chore
    <3>8. task' = [task EXCEPT ![k] = [task[k] EXCEPT !.step = "mark"]]
      BY <3>1
    <3>9. stale' \subseteq Tagged /\ missed' \subseteq Tagged
      BY <3>1, <3>2 DEF TagsTypes
    <3>10. /\ tag' \subseteq Labels /\ gone' \subseteq Labels /\ tag' \cap gone' = {}
           /\ tag \cup gone \subseteq tag' \cup gone'
      BY <2>1, <3>1 DEF TagsTypes
    <3>11. d \in tag \cup gone
      BY <2>1 DEF TagsTypes
    <3> HIDE DEF s, d
    <3> QED BY <2>3, <3>3, <3>4, <3>6, <3>7, <3>8, <3>9, <3>10, <3>11, TagsKept
  <2> QED BY <2>2, <2>3
<1>8. ASSUME NEW k \in Curators, BreakDeadlock(k) \/ Abort(k)
      PROVE  TagsTypes'
  <2>1. /\ Over(k) /\ UNCHANGED <<tag, gone, link, wanted, raced>>
        /\ stale' = stale /\ missed' \subseteq missed \cup stale
    BY <1>8 DEF BreakDeadlock, Abort
  <2> QED BY <1>5, <2>1 DEF TagsTypes
<1>9. ASSUME NEW k \in Curators, NEW t \in Labels, Rename(k, t)
      PROVE  TagsTypes'
  <2>1. PICK e \in Chore : task' = [task EXCEPT ![k] = e] /\ e.op = "rename"
    <3>1. [Rest EXCEPT !.op = "rename", !.step = "users", !.from = t] \in Chore
      BY DEF Rest, Chore
    <3>2. [Rest EXCEPT !.op = "rename", !.step = "users", !.from = t].op = "rename"
      BY DEF Rest
    <3> QED BY <1>9, <3>1, <3>2 DEF Rename
  <2>2. stale' \subseteq Tagged /\ missed' \subseteq Tagged
    BY <1>2, <1>9 DEF Rename, TagsTypes
  <2> QED BY <1>9, <2>1, <2>2, TagsKeptQuiet DEF Rename
<1>10. ASSUME NEW k \in Curators, NEW t \in Labels, CountUses(k, t)
       PROVE  TagsTypes'
  <2>1. PICK e \in Chore : task' = [task EXCEPT ![k] = e] /\ e.from = t /\ e.op = "remove"
    <3>1. [Rest EXCEPT !.op = "remove", !.step = "delete", !.from = t] \in Chore
      BY DEF Rest, Chore
    <3>2. LET e == [Rest EXCEPT !.op = "remove", !.step = "delete", !.from = t] IN e.from = t /\ e.op = "remove"
      BY DEF Rest
    <3> QED BY <1>10, <3>1, <3>2 DEF CountUses
  <2> QED BY <1>10, <2>1, TagsKeptQuiet DEF CountUses, TagsTypes
<1>11. ASSUME NEW k \in Curators, ReadUsers(k)
       PROVE  TagsTypes'
  <2>1. /\ task' = [task EXCEPT ![k] = [task[k] EXCEPT !.step = "mark", !.touched = Users(task[k].from)]]
        /\ task[k].op = "rename"
    BY <1>11 DEF ReadUsers, On
  <2>2. /\ [task[k] EXCEPT !.step = "mark", !.touched = Users(task[k].from)] \in Chore
        /\ [task[k] EXCEPT !.step = "mark", !.touched = Users(task[k].from)].op = "rename"
    <3>1. task[k] \in Chore /\ Users(task[k].from) \subseteq Tagged
      BY <1>2 DEF TagsTypes
    <3> QED BY <2>1, <3>1 DEF Chore
  <2> QED BY <1>11, <2>1, <2>2, TagsKeptQuiet DEF ReadUsers, TagsTypes
<1>12. ASSUME NEW k \in Curators, MarkTouched(k)
       PROVE  TagsTypes'
  <2>1. stale' \subseteq Tagged /\ missed' \subseteq Tagged
    BY <1>12 DEF MarkTouched, TagsTypes
  <2> QED BY <1>5, <1>12, <2>1 DEF MarkTouched
<1>13. ASSUME NEW k \in Curators, DeleteTag(k)
       PROVE  TagsTypes'
  <2> DEFINE t == task[k].from
  <2>1. /\ tag' = tag \ {t} /\ gone' = gone \cup (tag \cap {t})
        /\ link' = {l \in link : l[2] # t} /\ UNCHANGED <<wanted, raced>>
        /\ stale' = stale \cup Users(t) /\ missed' = missed \cup Users(t)
        /\ Over(k)
    BY <1>13 DEF DeleteTag
  <2>2. /\ tag' \subseteq Labels /\ gone' \subseteq Labels /\ tag' \cap gone' = {}
        /\ tag \cup gone \subseteq tag' \cup gone'
    BY <2>1 DEF TagsTypes
  <2>3. link' \subseteq Tagged \X Labels /\ stale' \subseteq Tagged /\ missed' \subseteq Tagged
    BY <1>2, <2>1 DEF TagsTypes
  <2>4. task' = [task EXCEPT ![k] = Rest]
    BY <2>1 DEF Over
  <2>5. wanted' \subseteq Tagged \X Labels /\ raced' \subseteq Tagged \X Labels
    BY <2>1 DEF TagsTypes
  <2> QED BY <1>1, <2>2, <2>3, <2>4, <2>5, TagsKept
<1>14. CASE UNCHANGED tagsVars
  BY <1>14 DEF tagsVars, TagsTypes
<1> QED BY <1>3, <1>4, <1>6, <1>7, <1>8, <1>9, <1>10, <1>11, <1>12, <1>13, <1>14 DEF TagsNext

-----------------------------------------------------------------------------
(* The links.                                                              *)

\* Only present tags are linked, and a merge that has inserted links to a tag
\* keeps it present.
LinksLive == \A a \in Tagged, t \in Labels : <<a, t>> \in link => t \in tag
TargetHeld ==
    \A k \in Curators : On(k, "merge", "delete") /\ task[k].added # {} => task[k].into \in tag

\* Where the links differ from those the authors made, and where they differ from
\* those a request that is about to delete the tag has read, a race is recorded.
WantedKept ==
    \A a \in Tagged, t \in Labels :
        ~(<<a, t>> \in wanted <=> <<a, t>> \in link) => <<a, t>> \in raced
MovedKept ==
    \A k \in Curators :
        task[k].step = "delete" /\ task[k].from \in tag =>
            \A a \in Tagged :
                ~(a \in task[k].moved <=> <<a, task[k].from>> \in link) => <<a, task[k].from>> \in raced

\* A link that a merge skipped is there still, unless its tag is gone or a race is
\* recorded.
SkippedKept ==
    \A k \in Curators :
        On(k, "merge", "delete") /\ task[k].from \in tag /\ task[k].into \in tag =>
            \A a \in task[k].moved \ task[k].added :
                <<a, task[k].into>> \notin link => <<a, task[k].from>> \in raced

\* What is true of the links between assets and tags.
LinksInv == LinksLive /\ TargetHeld /\ WantedKept /\ MovedKept /\ SkippedKept

\* A step that changes nothing but a request, and does not bring it to the
\* deletion, keeps them.
LEMMA LinksKept ==
    ASSUME TagsTypes, LinksInv, NEW k \in Curators, UNCHANGED <<tag, link, wanted, raced>>,
           \A j \in Curators \ {k} : task'[j] = task[j], task'[k].step # "delete"
    PROVE  LinksInv'
<1>1. LinksLive' /\ WantedKept'
  BY DEF LinksInv, LinksLive, WantedKept
<1>2. TargetHeld'
  BY DEF LinksInv, TargetHeld, On
<1>3. MovedKept'
  BY DEF LinksInv, MovedKept
<1>4. SkippedKept'
  BY DEF LinksInv, SkippedKept, On
<1> QED BY <1>1, <1>2, <1>3, <1>4 DEF LinksInv

\* An author's edit keeps them: whoever is about to delete a tag that it sets or
\* drops is seen.
LEMMA LinksSet ==
    ASSUME TagsTypes, LinksInv, NEW b \in Tagged, NEW ts \in SUBSET Labels,
           NEW respelt \in SUBSET ts, SetTags(b, ts, respelt)
    PROVE  LinksInv'
<1> DEFINE old == {t \in Labels : <<b, t>> \in link}
<1>1. /\ tag' = tag \cup ts /\ task' = task
      /\ link' = {l \in link : l[1] # b} \cup {<<b, t>> : t \in ts}
      /\ wanted' = {l \in wanted : l[1] # b} \cup {<<b, t>> : t \in ts}
      /\ raced' = {l \in raced : l[1] # b \/ Taking(l[2]) # {}}
             \cup {<<b, t>> : t \in {x \in ts \cup old : Taking(x) # {}}}
  BY DEF SetTags
<1>2. ASSUME NEW a \in Tagged \ {b}, NEW t \in Labels
      PROVE  /\ <<a, t>> \in link' <=> <<a, t>> \in link
             /\ <<a, t>> \in wanted' <=> <<a, t>> \in wanted
             /\ <<a, t>> \in raced => <<a, t>> \in raced'
  BY <1>1
<1>3. ASSUME NEW t \in Labels
      PROVE  /\ <<b, t>> \in link' <=> t \in ts
             /\ <<b, t>> \in wanted' <=> t \in ts
             /\ Taking(t) # {} /\ (<<b, t>> \in raced \/ t \in ts \cup old) => <<b, t>> \in raced'
  BY <1>1
<1> HIDE DEF old
<1>4. LinksLive'
  <2> SUFFICES ASSUME NEW a \in Tagged, NEW t \in Labels, <<a, t>> \in link'
               PROVE  t \in tag'
    BY DEF LinksLive
  <2>1. CASE a = b
    BY <1>1, <1>3, <2>1
  <2>2. CASE a # b
    BY <1>1, <1>2, <2>2 DEF LinksInv, LinksLive
  <2> QED BY <2>1, <2>2
<1>5. TargetHeld'
  BY <1>1 DEF LinksInv, TargetHeld, On
<1>6. WantedKept'
  <2> SUFFICES ASSUME NEW a \in Tagged, NEW t \in Labels, ~(<<a, t>> \in wanted' <=> <<a, t>> \in link')
               PROVE  <<a, t>> \in raced'
    BY DEF WantedKept
  <2>1. a # b
    BY <1>3
  <2> QED BY <1>2, <2>1 DEF LinksInv, WantedKept
<1>7. MovedKept'
  <2> SUFFICES ASSUME NEW k \in Curators, task[k].step = "delete", task[k].from \in tag', NEW a \in Tagged,
                      ~(a \in task[k].moved <=> <<a, task[k].from>> \in link')
               PROVE  <<a, task[k].from>> \in raced'
    BY <1>1 DEF MovedKept
  <2>1. task[k].from \in Labels /\ Taking(task[k].from) # {}
    BY DEF TagsTypes, Chore, Taking
  <2>2. task[k].from \in tag
    BY <1>1, <2>1 DEF SetTags, TagsTypes, Chore
  <2>3. CASE a # b
    BY <1>2, <2>1, <2>2, <2>3 DEF LinksInv, MovedKept
  <2>4. CASE a = b
    <3>1. <<b, task[k].from>> \in link <=> task[k].from \in old
      BY <2>1 DEF old
    <3>2. CASE <<b, task[k].from>> \in link <=> <<b, task[k].from>> \in link'
      BY <1>3, <2>1, <2>2, <2>4, <3>2 DEF LinksInv, MovedKept
    <3>3. CASE ~(<<b, task[k].from>> \in link <=> <<b, task[k].from>> \in link')
      BY <1>3, <2>1, <2>4, <3>1, <3>3
    <3> QED BY <3>2, <3>3
  <2> QED BY <2>3, <2>4
<1>8. SkippedKept'
  <2> SUFFICES ASSUME NEW k \in Curators, On(k, "merge", "delete"), task[k].from \in tag', task[k].into \in tag',
                      NEW a \in task[k].moved \ task[k].added, <<a, task[k].into>> \notin link'
               PROVE  <<a, task[k].from>> \in raced'
    BY <1>1 DEF SkippedKept, On
  <2>1. /\ a \in Tagged /\ task[k].from \in Labels /\ task[k].into \in Labels /\ Taking(task[k].from) # {}
        /\ task[k].from \in tag /\ task[k].into \in tag
    BY <1>1 DEF On, TagsTypes, Chore, Taking, SetTags
  <2>2. CASE a # b
    BY <1>2, <2>1, <2>2 DEF LinksInv, SkippedKept
  <2>3. CASE a = b
    <3>1. CASE <<b, task[k].from>> \in link
      <4>1. task[k].from \in old
        BY <2>1, <3>1 DEF old
      <4> QED BY <1>3, <2>1, <2>3, <4>1
    <3>2. CASE <<b, task[k].from>> \notin link
      <4>1. <<b, task[k].from>> \in raced
        BY <2>1, <2>3, <3>2 DEF LinksInv, MovedKept, On
      <4> QED BY <1>3, <2>1, <2>3, <4>1
    <3> QED BY <3>1, <3>2
  <2> QED BY <2>2, <2>3
<1> QED BY <1>4, <1>5, <1>6, <1>7, <1>8 DEF LinksInv

\* The end of a merge keeps them: the links it inserts are those it read, and its
\* source goes with those it did not.
LEMMA LinksMerged ==
    ASSUME TagsTypes, LinksInv, NEW k \in Curators, DeleteMerged(k), task[k].from \in tag
    PROVE  LinksInv'
<1> DEFINE s == task[k].from
           d == task[k].into
           new == {<<a, d>> : a \in task[k].added}
           put == {<<a, d>> : a \in task[k].moved}
<1>1. /\ tag' = tag \ {s}
      /\ link' = {l \in link : l[2] # s} \cup new
      /\ wanted' = {<<l[1], IF l[2] = s THEN d ELSE l[2]>> : l \in wanted}
      /\ raced' = {<<l[1], IF l[2] = s THEN d ELSE l[2]>> : l \in raced}
             \cup IF Taking(d) \ {k} # {} \/ d \notin tag THEN put ELSE {}
      /\ task' = [task EXCEPT ![k].step = "mark"]
      /\ ~Held(s, k) /\ On(k, "merge", "delete")
  BY DEF DeleteMerged, Renamed, Next_
<1>2. /\ s \in Labels /\ d \in Labels /\ s # d /\ task[k].moved \subseteq Tagged
      /\ task[k].added \subseteq task[k].moved
      /\ \A j \in Curators \ {k} : task'[j] = task[j]
      /\ task'[k].step = "mark"
  BY <1>1 DEF On, TagsTypes, Chore
<1>3. \A a \in Tagged, t \in Labels :
          /\ t # s => (<<a, t>> \in wanted => <<a, t>> \in wanted') /\ (<<a, t>> \in raced => <<a, t>> \in raced')
          /\ <<a, s>> \in wanted => <<a, d>> \in wanted'
          /\ <<a, s>> \in raced => <<a, d>> \in raced'
  <2>1. ASSUME NEW a \in Tagged, NEW t \in Labels, NEW S \in SUBSET (Tagged \X Labels), <<a, t>> \in S
        PROVE  <<a, IF t = s THEN d ELSE t>> \in {<<l[1], IF l[2] = s THEN d ELSE l[2]>> : l \in S}
    <3> DEFINE w == <<a, t>>
    <3>1. <<a, IF t = s THEN d ELSE t>> = <<w[1], IF w[2] = s THEN d ELSE w[2]>>
      OBVIOUS
    <3> HIDE DEF w, s, d
    <3>2. w \in S
      BY <2>1 DEF w
    <3> QED BY <3>1, <3>2
  <2>2. \A a \in Tagged, t \in Labels :
            /\ <<a, t>> \in wanted => <<a, IF t = s THEN d ELSE t>> \in wanted'
            /\ <<a, t>> \in raced => <<a, IF t = s THEN d ELSE t>> \in raced'
    BY <1>1, <2>1 DEF TagsTypes
  <2> HIDE DEF s, d
  <2> QED BY <1>2, <2>2
<1>4. ASSUME NEW a \in Tagged, NEW t \in Labels, <<a, t>> \in wanted'
      PROVE  (t # s /\ <<a, t>> \in wanted) \/ (t = d /\ <<a, s>> \in wanted)
  <2>1. PICK l \in wanted : <<a, t>> = <<l[1], IF l[2] = s THEN d ELSE l[2]>>
    BY <1>1, <1>4
  <2>2. l = <<l[1], l[2]>> /\ l[1] = a
    BY <2>1 DEF TagsTypes
  <2> QED BY <1>2, <2>1, <2>2
<1>5. ASSUME NEW a \in Tagged, NEW t \in Labels
      PROVE  <<a, t>> \in link' <=> (t # s /\ <<a, t>> \in link) \/ (t = d /\ a \in task[k].added)
  BY <1>1
<1>6. \A a \in Tagged : ~(a \in task[k].moved <=> <<a, s>> \in link) => <<a, s>> \in raced
  BY <1>1 DEF LinksInv, MovedKept, On
<1>11. \A a \in task[k].moved \ task[k].added : d \in tag /\ <<a, d>> \notin link => <<a, s>> \in raced
  BY <1>1 DEF LinksInv, SkippedKept, On
<1>12. d \notin tag => \A a \in task[k].moved : <<a, d>> \in raced'
  BY <1>1
<1> HIDE DEF s, d
<1>7. LinksLive'
  <2>1. task[k].added # {} => d \in tag
    BY <1>1 DEF LinksInv, TargetHeld, d
  <2> QED BY <1>1, <1>2, <1>5, <2>1 DEF LinksInv, LinksLive
<1>8. TargetHeld'
  <2> SUFFICES ASSUME NEW j \in Curators, On(j, "merge", "delete")', task'[j].added # {}
               PROVE  task'[j].into \in tag'
    BY DEF TargetHeld
  <2>1. j # k /\ task'[j] = task[j]
    BY <1>2 DEF On
  <2>2. On(j, "merge", "delete") /\ task[j].added # {}
    BY <2>1 DEF On
  <2>3. task[j].into \in tag /\ task[j].into # s
    BY <1>1, <2>1, <2>2 DEF LinksInv, TargetHeld, Held
  <2> QED BY <1>1, <2>1, <2>3
<1>9. WantedKept'
  <2> SUFFICES ASSUME NEW a \in Tagged, NEW t \in Labels, ~(<<a, t>> \in wanted' <=> <<a, t>> \in link')
               PROVE  <<a, t>> \in raced'
    BY DEF WantedKept
  <2>1. ~(<<a, t>> \in wanted <=> <<a, t>> \in link) => <<a, t>> \in raced
    BY DEF LinksInv, WantedKept
  <2>2. ~(<<a, s>> \in wanted <=> <<a, s>> \in link) => <<a, s>> \in raced
    BY <1>2 DEF LinksInv, WantedKept
  <2>3. CASE t # s /\ t # d
    BY <1>2, <1>3, <1>4, <1>5, <2>1, <2>3
  <2>4. CASE t = s
    BY <1>2, <1>4, <1>5, <2>4
  <2>5. CASE t = d
    <3>1. CASE <<a, d>> \in link
      BY <1>2, <1>3, <1>4, <1>5, <1>6, <2>1, <2>2, <2>5, <3>1
    <3>2. CASE <<a, d>> \notin link /\ a \in task[k].added
      BY <1>2, <1>3, <1>4, <1>5, <1>6, <2>1, <2>2, <2>5, <3>2
    <3>3. CASE <<a, d>> \notin link /\ a \notin task[k].moved
      BY <1>2, <1>3, <1>4, <1>5, <1>6, <2>1, <2>2, <2>5, <3>3
    <3>4. CASE <<a, d>> \notin link /\ a \in task[k].moved \ task[k].added
      <4>1. CASE d \in tag
        BY <1>3, <1>11, <2>5, <3>4, <4>1
      <4>2. CASE d \notin tag
        BY <1>12, <2>5, <3>4, <4>2
      <4> QED BY <4>1, <4>2
    <3> QED BY <3>1, <3>2, <3>3, <3>4
  <2> QED BY <2>3, <2>4, <2>5
<1>10. MovedKept'
  <2> SUFFICES ASSUME NEW j \in Curators, task'[j].step = "delete", task'[j].from \in tag', NEW a \in Tagged,
                      ~(a \in task'[j].moved <=> <<a, task'[j].from>> \in link')
               PROVE  <<a, task'[j].from>> \in raced'
    BY DEF MovedKept
  <2>1. j # k /\ task'[j] = task[j] /\ task[j].from \in Labels /\ task[j].from # s /\ task[j].from \in tag
    BY <1>1, <1>2 DEF TagsTypes, Chore
  <2>2. ~(a \in task[j].moved <=> <<a, task[j].from>> \in link) => <<a, task[j].from>> \in raced
    BY <2>1 DEF LinksInv, MovedKept
  <2>3. CASE <<a, task[j].from>> \in link' <=> <<a, task[j].from>> \in link
    BY <1>3, <2>1, <2>2, <2>3
  <2>4. CASE ~(<<a, task[j].from>> \in link' <=> <<a, task[j].from>> \in link)
    <3>1. task[j].from = d /\ a \in task[k].moved
      BY <1>2, <1>5, <2>1, <2>4
    <3>2. j \in Taking(d) \ {k}
      BY <2>1, <3>1 DEF Taking
    <3>3. put \subseteq raced'
      BY <1>1, <3>2
    <3> QED BY <2>1, <3>1, <3>3
  <2> QED BY <2>3, <2>4
<1>13. SkippedKept'
  <2> SUFFICES ASSUME NEW j \in Curators, On(j, "merge", "delete")', task'[j].from \in tag', task'[j].into \in tag',
                      NEW a \in task'[j].moved \ task'[j].added, <<a, task'[j].into>> \notin link'
               PROVE  <<a, task'[j].from>> \in raced'
    BY DEF SkippedKept
  <2>1. /\ j # k /\ task'[j] = task[j] /\ task[j].from \in Labels /\ task[j].into \in Labels
        /\ task[j].from # s /\ task[j].into # s /\ task[j].from \in tag /\ task[j].into \in tag /\ a \in Tagged
    BY <1>1, <1>2 DEF On, TagsTypes, Chore
  <2>2. <<a, task[j].into>> \notin link
    BY <1>5, <2>1
  <2>3. <<a, task[j].from>> \in raced
    BY <2>1, <2>2 DEF LinksInv, SkippedKept, On
  <2> QED BY <1>3, <2>1, <2>3
<1> QED BY <1>7, <1>8, <1>9, <1>10, <1>13 DEF LinksInv

\* A removal keeps them: it found the tag unused, so that a link it takes along
\* was made since.
LEMMA LinksRemoved ==
    ASSUME TagsTypes, LinksInv, NEW k \in Curators, DeleteTag(k)
    PROVE  LinksInv'
<1> DEFINE s == task[k].from
<1>1. /\ tag' = tag \ {s} /\ link' = {l \in link : l[2] # s} /\ UNCHANGED <<wanted, raced>>
      /\ task' = [task EXCEPT ![k] = Rest] /\ ~Held(s, k)
      /\ task[k].op = "remove" /\ task[k].step = "delete"
  BY DEF DeleteTag, Over, On
<1>2. /\ s \in Labels /\ task[k].moved = {} /\ task'[k] = Rest
      /\ \A j \in Curators \ {k} : task'[j] = task[j]
  BY <1>1 DEF TagsTypes, Chore
<1>3. Rest.step # "delete"
  BY DEF Rest
<1>4. \A a \in Tagged, t \in Labels : <<a, t>> \in link' <=> (t # s /\ <<a, t>> \in link)
  BY <1>1
<1>5. \A a \in Tagged : <<a, s>> \in link => <<a, s>> \in raced
  BY <1>1, <1>2 DEF LinksInv, LinksLive, MovedKept
<1> HIDE DEF s
<1>6. LinksLive'
  BY <1>1, <1>4 DEF LinksInv, LinksLive
<1>7. TargetHeld'
  <2> SUFFICES ASSUME NEW j \in Curators, On(j, "merge", "delete")', task'[j].added # {}
               PROVE  task'[j].into \in tag'
    BY DEF TargetHeld
  <2>1. j # k /\ task'[j] = task[j]
    BY <1>2, <1>3 DEF On
  <2>2. On(j, "merge", "delete") /\ task[j].added # {}
    BY <2>1 DEF On
  <2>3. task[j].into \in tag /\ task[j].into # s
    BY <1>1, <2>1, <2>2 DEF LinksInv, TargetHeld, Held
  <2> QED BY <1>1, <2>1, <2>3
<1>8. WantedKept'
  <2> SUFFICES ASSUME NEW a \in Tagged, NEW t \in Labels, ~(<<a, t>> \in wanted <=> <<a, t>> \in link')
               PROVE  <<a, t>> \in raced
    BY <1>1 DEF WantedKept
  <2>1. ~(<<a, t>> \in wanted <=> <<a, t>> \in link) => <<a, t>> \in raced
    BY DEF LinksInv, WantedKept
  <2> QED BY <1>4, <1>5, <2>1
<1>9. MovedKept'
  <2> SUFFICES ASSUME NEW j \in Curators, task'[j].step = "delete", task'[j].from \in tag', NEW a \in Tagged,
                      ~(a \in task'[j].moved <=> <<a, task'[j].from>> \in link')
               PROVE  <<a, task'[j].from>> \in raced'
    BY DEF MovedKept
  <2>1. j # k /\ task'[j] = task[j] /\ task[j].from \in Labels /\ task[j].from # s /\ task[j].from \in tag
    BY <1>1, <1>2, <1>3 DEF TagsTypes, Chore
  <2>2. ~(a \in task[j].moved <=> <<a, task[j].from>> \in link) => <<a, task[j].from>> \in raced
    BY <2>1 DEF LinksInv, MovedKept
  <2>3. <<a, task[j].from>> \in link' <=> <<a, task[j].from>> \in link
    BY <1>4, <2>1
  <2> QED BY <1>1, <2>1, <2>2, <2>3
<1>10. SkippedKept'
  <2> SUFFICES ASSUME NEW j \in Curators, On(j, "merge", "delete")', task'[j].from \in tag', task'[j].into \in tag',
                      NEW a \in task'[j].moved \ task'[j].added, <<a, task'[j].into>> \notin link'
               PROVE  <<a, task'[j].from>> \in raced'
    BY DEF SkippedKept
  <2>1. /\ j # k /\ task'[j] = task[j] /\ task[j].into \in Labels
        /\ task[j].into # s /\ task[j].from \in tag /\ task[j].into \in tag /\ a \in Tagged
    BY <1>1, <1>2, <1>3 DEF On, TagsTypes, Chore
  <2>2. <<a, task[j].into>> \notin link
    BY <1>4, <2>1
  <2>3. <<a, task[j].from>> \in raced
    BY <2>1, <2>2 DEF LinksInv, SkippedKept, On
  <2> QED BY <1>1, <2>1, <2>3
<1> QED BY <1>6, <1>7, <1>8, <1>9, <1>10 DEF LinksInv

\* Every step keeps them.
LEMMA LinksStep ==
    ASSUME TagsTypes, LinksInv, [TagsNext]_tagsVars
    PROVE  LinksInv'
<1>1. Rest.step = "idle" /\ Rest.added = {}
  BY DEF Rest
<1>2. ASSUME NEW k \in Curators, Over(k), UNCHANGED <<tag, link, wanted, raced>>
      PROVE  LinksInv'
  <2>1. task'[k] = Rest /\ \A j \in Curators \ {k} : task'[j] = task[j]
    BY <1>2 DEF Over, TagsTypes
  <2> QED BY <1>1, <1>2, <2>1, LinksKept
<1>3. ASSUME NEW k \in Curators, NEW s \in Labels, NEW d \in Labels, FindMerge(k, s, d)
      PROVE  LinksInv'
  <2>1. task'[k].step = "move" /\ \A j \in Curators \ {k} : task'[j] = task[j]
    BY <1>3 DEF FindMerge, TagsTypes, Rest
  <2> QED BY <1>3, <2>1, LinksKept DEF FindMerge
<1>4. ASSUME NEW k \in Curators, MoveLinks(k)
      PROVE  LinksInv'
  <2>1. UNCHANGED <<tag, link, wanted, raced>> /\ task[k].op = "merge"
    BY <1>4 DEF MoveLinks, On
  <2>2. CASE Over(k)
    BY <1>2, <2>1, <2>2
  <2>3. CASE ~Over(k)
    <3> DEFINE missing == Users(task[k].from) \ Users(task[k].into)
    <3>1. /\ task' = [task EXCEPT ![k].step = "delete", ![k].moved = Users(task[k].from), ![k].added = missing]
          /\ missing # {} => task[k].into \in tag
      BY <1>4, <2>3 DEF MoveLinks
    <3>2. /\ task'[k].moved = Users(task[k].from) /\ task'[k].added = missing
          /\ task'[k].from = task[k].from /\ task'[k].into = task[k].into
          /\ \A j \in Curators \ {k} : task'[j] = task[j]
      BY <3>1 DEF TagsTypes, Chore
    <3>3. TargetHeld'
      <4> SUFFICES ASSUME NEW j \in Curators, On(j, "merge", "delete")', task'[j].added # {}
                   PROVE  task'[j].into \in tag'
        BY DEF TargetHeld
      <4>1. CASE j = k
        <5>1. missing # {}
          BY <3>2, <4>1
        <5>2. task[k].into \in tag'
          BY <2>1, <3>1, <5>1
        <5> QED BY <3>2, <4>1, <5>2
      <4>2. CASE j # k
        <5>1. task'[j] = task[j]
          BY <3>2, <4>2
        <5> QED BY <2>1, <5>1 DEF LinksInv, TargetHeld, On
      <4> QED BY <4>1, <4>2
    <3>4. \A a \in Tagged : a \in task'[k].moved <=> <<a, task'[k].from>> \in link
      BY <3>2 DEF Users
    <3>5. MovedKept'
      BY <2>1, <3>2, <3>4 DEF LinksInv, MovedKept
    <3>6. LinksLive' /\ WantedKept'
      BY <2>1 DEF LinksInv, LinksLive, WantedKept
    <3>7. SkippedKept'
      <4>1. \A a \in task'[k].moved \ task'[k].added : <<a, task'[k].into>> \in link
        BY <3>2 DEF Users
      <4> QED BY <2>1, <3>2, <4>1 DEF LinksInv, SkippedKept, On
    <3> QED BY <3>3, <3>5, <3>6, <3>7 DEF LinksInv
  <2> QED BY <2>2, <2>3
<1>5. ASSUME NEW k \in Curators, DeleteMerged(k)
      PROVE  LinksInv'
  <2>1. CASE task[k].from \in tag
    BY <1>5, <2>1, LinksMerged
  <2>2. CASE task[k].from \notin tag
    BY <1>2, <1>5, <2>2 DEF DeleteMerged
  <2> QED BY <2>1, <2>2
<1>6. ASSUME NEW k \in Curators, BreakDeadlock(k) \/ MarkTouched(k) \/ Abort(k)
      PROVE  LinksInv'
  BY <1>2, <1>6 DEF BreakDeadlock, MarkTouched, Abort
<1>7. ASSUME NEW k \in Curators, NEW t \in Labels, Rename(k, t)
      PROVE  LinksInv'
  <2>1. task'[k].step = "users" /\ \A j \in Curators \ {k} : task'[j] = task[j]
    BY <1>7 DEF Rename, TagsTypes, Rest
  <2> QED BY <1>7, <2>1, LinksKept DEF Rename
<1>8. ASSUME NEW k \in Curators, NEW t \in Labels, CountUses(k, t)
      PROVE  LinksInv'
  <2>1. UNCHANGED <<tag, link, wanted, raced>> /\ Users(t) = {}
    BY <1>8 DEF CountUses
  <2>2. /\ task'[k].op = "remove" /\ task'[k].from = t /\ task'[k].moved = {} /\ task'[k].added = {}
        /\ \A j \in Curators \ {k} : task'[j] = task[j]
    BY <1>8 DEF CountUses, TagsTypes, Rest
  <2>3. TargetHeld'
    BY <2>1, <2>2 DEF LinksInv, TargetHeld, On
  <2>4. \A a \in Tagged : ~(<<a, t>> \in link)
    BY <2>1 DEF Users
  <2>5. MovedKept'
    BY <2>1, <2>2, <2>4 DEF LinksInv, MovedKept
  <2>6. LinksLive' /\ WantedKept'
    BY <2>1 DEF LinksInv, LinksLive, WantedKept
  <2>7. SkippedKept'
    BY <2>1, <2>2 DEF LinksInv, SkippedKept, On
  <2> QED BY <2>3, <2>5, <2>6, <2>7 DEF LinksInv
<1>9. ASSUME NEW k \in Curators, ReadUsers(k)
      PROVE  LinksInv'
  <2>1. task'[k].step = "mark" /\ \A j \in Curators \ {k} : task'[j] = task[j]
    BY <1>9 DEF ReadUsers, TagsTypes, Chore
  <2> QED BY <1>9, <2>1, LinksKept DEF ReadUsers
<1>10. CASE UNCHANGED tagsVars
  BY <1>10 DEF tagsVars, LinksInv, LinksLive, TargetHeld, On, WantedKept, MovedKept, SkippedKept
<1> QED BY <1>3, <1>4, <1>5, <1>6, <1>7, <1>8, <1>9, <1>10, LinksSet, LinksRemoved DEF TagsNext

\* A request that will still mark asset a dirty.
WillMark(a, k) ==
    \/ task[k].step = "mark" /\ a \in task[k].touched
    \/ task[k].step = "users" /\ a \in Users(task[k].from)
MarkInv == \A a \in stale \ missed : \E k \in Curators : WillMark(a, k)

\* A step keeps it that adds nothing to what is to be marked, and whose request was
\* not to mark any of it.
LEMMA MarkKept ==
    ASSUME TagsTypes, MarkInv, NEW k \in Curators, stale' \ missed' \subseteq stale \ missed,
           \A a \in stale' \ missed' : ~WillMark(a, k),
           \A a \in stale' \ missed', t \in Labels \cup {NoLabel} : <<a, t>> \in link => <<a, t>> \in link',
           \A j \in Curators \ {k} : task'[j] = task[j]
    PROVE  MarkInv'
<1> SUFFICES ASSUME NEW a \in stale' \ missed'
             PROVE  \E j \in Curators : WillMark(a, j)'
  BY DEF MarkInv
<1>1. PICK j \in Curators : WillMark(a, j)
  BY DEF MarkInv
<1>2. j # k /\ task'[j] = task[j] /\ task[j].from \in Labels \cup {NoLabel}
  BY <1>1 DEF TagsTypes, Chore
<1>3. a \in Users(task[j].from) => <<a, task[j].from>> \in link'
  BY <1>2 DEF Users
<1>4. a \in Tagged
  BY DEF TagsTypes
<1> QED BY <1>1, <1>2, <1>3, <1>4 DEF WillMark, Users

\* Every step keeps it.
LEMMA MarkStep ==
    ASSUME TagsTypes, MarkInv, [TagsNext]_tagsVars
    PROVE  MarkInv'
<1>1. ASSUME NEW k \in Curators, Over(k), link' = link, task[k].step \notin {"users", "mark"} \/ stale' \ missed' = {},
             stale' \ missed' \subseteq stale \ missed
      PROVE  MarkInv'
  <2>1. \A j \in Curators \ {k} : task'[j] = task[j]
    BY <1>1 DEF Over, TagsTypes
  <2>2. \A a \in stale' \ missed' : ~WillMark(a, k)
    BY <1>1 DEF WillMark
  <2> QED BY <1>1, <2>1, <2>2, MarkKept
<1>2. ASSUME NEW b \in Tagged, NEW ts \in SUBSET Labels, NEW respelt \in SUBSET ts, SetTags(b, ts, respelt)
      PROVE  MarkInv'
  <2>1. stale' \ missed' \subseteq (stale \ missed) \ {b} /\ task' = task
    BY <1>2 DEF SetTags
  <2>2. \A a \in Tagged \ {b} : \A t : <<a, t>> \in link => <<a, t>> \in link'
    BY <1>2 DEF SetTags
  <2> SUFFICES ASSUME NEW a \in stale' \ missed'
               PROVE  \E j \in Curators : WillMark(a, j)'
    BY DEF MarkInv
  <2>3. a \in Tagged \ {b}
    BY <2>1 DEF TagsTypes
  <2>4. PICK j \in Curators : WillMark(a, j)
    BY <2>1 DEF MarkInv
  <2> QED BY <2>1, <2>2, <2>3, <2>4 DEF WillMark, Users
<1>3. ASSUME NEW k \in Curators, NEW s \in Labels, NEW d \in Labels, FindMerge(k, s, d)
      PROVE  MarkInv'
  <2>1. task[k].step = "idle" /\ UNCHANGED <<link, stale, missed>> /\ \A j \in Curators \ {k} : task'[j] = task[j]
    BY <1>3 DEF FindMerge, TagsTypes, Rest
  <2> QED BY <2>1, MarkKept DEF WillMark
<1>4. ASSUME NEW k \in Curators, MoveLinks(k)
      PROVE  MarkInv'
  <2>1. task[k].step = "move" /\ UNCHANGED <<link, stale, missed>>
    BY <1>4 DEF MoveLinks, On
  <2>2. \A j \in Curators \ {k} : task'[j] = task[j]
    BY <1>4 DEF MoveLinks, Over, TagsTypes
  <2> QED BY <2>1, <2>2, MarkKept DEF WillMark
<1>5. ASSUME NEW k \in Curators, DeleteMerged(k)
      PROVE  MarkInv'
  <2> DEFINE s == task[k].from
             d == task[k].into
             changed == Users(s) \cup {a \in task[k].added : <<a, d>> \notin link}
  <2>1. CASE s \notin tag
    BY <1>1, <1>5, <2>1 DEF DeleteMerged, On
  <2>2. CASE s \in tag
    <3>1. /\ stale' = stale \cup changed /\ missed' = missed \cup (changed \ task[k].touched)
          /\ link' = {l \in link : l[2] # s} \cup {<<a, d>> : a \in task[k].added}
          /\ task' = [task EXCEPT ![k].step = "mark"] /\ task[k].step = "delete"
      BY <1>5, <2>2 DEF DeleteMerged, Next_, On
    <3>2. task'[k].step = "mark" /\ task'[k].touched = task[k].touched /\ \A j \in Curators \ {k} : task'[j] = task[j]
      BY <3>1 DEF TagsTypes, Chore
    <3> SUFFICES ASSUME NEW a \in stale' \ missed'
                 PROVE  \E j \in Curators : WillMark(a, j)'
      BY DEF MarkInv
    <3>3. CASE a \in changed
      <4>1. a \in task'[k].touched
        BY <3>1, <3>2, <3>3
      <4> QED BY <3>2, <4>1 DEF WillMark
    <3>4. CASE a \notin changed
      <4>1. a \in stale \ missed
        BY <3>1, <3>4
      <4>2. PICK j \in Curators : WillMark(a, j)
        BY <4>1 DEF MarkInv
      <4>3. j # k /\ task'[j] = task[j]
        BY <3>1, <3>2, <4>2 DEF WillMark
      <4>4. \A t : <<a, t>> \in link /\ t # s => <<a, t>> \in link'
        BY <3>1
      <4>5. a \notin Users(s)
        BY <3>4
      <4> QED BY <4>2, <4>3, <4>4, <4>5 DEF WillMark, Users
    <3> QED BY <3>3, <3>4
  <2> QED BY <2>1, <2>2
<1>6. ASSUME NEW k \in Curators, BreakDeadlock(k)
      PROVE  MarkInv'
  BY <1>1, <1>6 DEF BreakDeadlock, On
<1>7. ASSUME NEW k \in Curators, NEW t \in Labels, Rename(k, t)
      PROVE  MarkInv'
  <2>1. /\ task' = [task EXCEPT ![k] = [Rest EXCEPT !.op = "rename", !.step = "users", !.from = t]]
        /\ stale' = stale \cup Users(t) /\ UNCHANGED <<link, missed>> /\ task[k] = Rest
    BY <1>7 DEF Rename
  <2>2. task'[k].step = "users" /\ task'[k].from = t /\ \A j \in Curators \ {k} : task'[j] = task[j]
    BY <2>1 DEF TagsTypes, Rest
  <2> SUFFICES ASSUME NEW a \in stale' \ missed'
               PROVE  \E j \in Curators : WillMark(a, j)'
    BY DEF MarkInv
  <2>3. CASE a \in Users(t)
    BY <2>1, <2>2, <2>3 DEF WillMark, Users
  <2>4. CASE a \notin Users(t)
    <3>1. PICK j \in Curators : WillMark(a, j)
      BY <2>1, <2>4 DEF MarkInv
    <3>2. task'[j] = task[j] /\ link' = link
      BY <2>1, <2>2, <3>1 DEF WillMark, Rest
    <3> QED BY <3>1, <3>2 DEF WillMark, Users
  <2> QED BY <2>3, <2>4
<1>8. ASSUME NEW k \in Curators, NEW t \in Labels, CountUses(k, t)
      PROVE  MarkInv'
  <2>1. task[k].step = "idle" /\ UNCHANGED <<link, stale, missed>> /\ \A j \in Curators \ {k} : task'[j] = task[j]
    BY <1>8 DEF CountUses, TagsTypes, Rest
  <2> QED BY <2>1, MarkKept DEF WillMark
<1>9. ASSUME NEW k \in Curators, ReadUsers(k)
      PROVE  MarkInv'
  <2>1. /\ task' = [task EXCEPT ![k].step = "mark", ![k].touched = Users(task[k].from)]
        /\ task[k].step = "users" /\ UNCHANGED <<link, stale, missed>>
    BY <1>9 DEF ReadUsers, On
  <2>2. /\ task'[k].step = "mark" /\ task'[k].touched = Users(task[k].from)
        /\ \A j \in Curators \ {k} : task'[j] = task[j]
    BY <2>1 DEF TagsTypes, Chore
  <2>3. ASSUME NEW a \in stale' \ missed', NEW j \in Curators, WillMark(a, j)
        PROVE  WillMark(a, j)'
    <3>1. CASE j = k
      BY <2>1, <2>2, <2>3, <3>1 DEF WillMark
    <3>2. CASE j # k
      <4>1. task'[j] = task[j] /\ link' = link
        BY <2>1, <2>2, <3>2
      <4> QED BY <2>3, <4>1 DEF WillMark, Users
    <3> QED BY <3>1, <3>2
  <2> QED BY <2>1, <2>3 DEF MarkInv
<1>10. ASSUME NEW k \in Curators, MarkTouched(k)
       PROVE  MarkInv'
  <2>1. /\ stale' = stale \ task[k].touched /\ missed' = missed \ task[k].touched
        /\ task[k].step = "mark" /\ link' = link
    BY <1>10 DEF MarkTouched
  <2>2. \A j \in Curators \ {k} : task'[j] = task[j]
    BY <1>10 DEF MarkTouched, Over, TagsTypes
  <2>3. \A a \in stale' \ missed' : ~WillMark(a, k)
    BY <2>1 DEF WillMark
  <2> QED BY <2>1, <2>2, <2>3, MarkKept
<1>11. ASSUME NEW k \in Curators, DeleteTag(k)
       PROVE  MarkInv'
  <2> DEFINE t == task[k].from
  <2>1. /\ link' = {l \in link : l[2] # t} /\ task[k].step = "delete"
        /\ stale' = stale \cup Users(t) /\ missed' = missed \cup Users(t)
    BY <1>11 DEF DeleteTag, On
  <2>2. \A j \in Curators \ {k} : task'[j] = task[j]
    BY <1>11 DEF DeleteTag, Over, TagsTypes
  <2>3. \A a \in stale' \ missed' : ~WillMark(a, k)
    BY <2>1 DEF WillMark
  <2>4. \A a \in stale' \ missed' : a \in Tagged /\ a \notin Users(t)
    BY <2>1 DEF TagsTypes
  <2>5. \A a \in stale' \ missed', u \in Labels \cup {NoLabel} : <<a, u>> \in link => <<a, u>> \in link'
    BY <2>1, <2>4 DEF Users
  <2>6. stale' \ missed' \subseteq stale \ missed
    BY <2>1
  <2> QED BY <2>2, <2>3, <2>5, <2>6, MarkKept
<1>12. ASSUME NEW k \in Curators, Abort(k)
       PROVE  MarkInv'
  <2>1. /\ Over(k) /\ stale' = stale /\ link' = link
        /\ missed' = missed \cup (IF task[k].step \in {"users", "mark"} THEN stale ELSE {})
    BY <1>12 DEF Abort
  <2>2. CASE task[k].step \in {"users", "mark"}
    <3>1. stale' \ missed' = {}
      BY <2>1, <2>2
    <3> QED BY <1>1, <2>1, <3>1
  <2>3. CASE task[k].step \notin {"users", "mark"}
    <3>1. stale' \ missed' = stale \ missed
      BY <2>1, <2>3
    <3> QED BY <1>1, <2>1, <2>3, <3>1
  <2> QED BY <2>2, <2>3
<1>13. CASE UNCHANGED tagsVars
  BY <1>13 DEF tagsVars, MarkInv, WillMark, Users
<1> QED BY <1>2, <1>3, <1>4, <1>5, <1>6, <1>7, <1>8, <1>9, <1>10, <1>11, <1>12, <1>13 DEF TagsNext

\* An asset carries the tags its authors gave it, as merges renamed them, but for
\* the links that a request raced with; what changed is to be marked for reindexing,
\* but for what that request did not read, or died before.
THEOREM TagsAreExplained == TagsSpec => []TagsExplained
<1> DEFINE Inv == TagsTypes /\ LinksInv /\ MarkInv
<1>1. TagsInit => Inv
  <2> SUFFICES ASSUME TagsInit PROVE Inv
    OBVIOUS
  <2>1. \A k \in Curators : task[k].step = "idle"
    BY DEF TagsInit, Rest
  <2>2. LinksInv
    BY <2>1 DEF TagsInit, LinksInv, LinksLive, TargetHeld, On, WantedKept, MovedKept, SkippedKept
  <2>3. MarkInv
    BY DEF TagsInit, MarkInv
  <2> QED BY <2>2, <2>3, TagsInitTypes
<1>2. Inv /\ [TagsNext]_tagsVars => Inv'
  BY TagsTyped, LinksStep, MarkStep
<1>3. Inv => TagsExplained
  <2> SUFFICES ASSUME Inv PROVE TagsExplained
    OBVIOUS
  <2>1. wanted \ link \subseteq raced /\ link \ wanted \subseteq raced
    <3>1. ASSUME NEW l \in Tagged \X Labels, ~(l \in wanted <=> l \in link)
          PROVE  l \in raced
      <4>1. PICK a \in Tagged, t \in Labels : l = <<a, t>>
        OBVIOUS
      <4> QED BY <3>1, <4>1 DEF LinksInv, WantedKept
    <3> QED BY <3>1 DEF TagsTypes
  <2> QED BY <2>1 DEF TagsExplained, MarkInv, WillMark
<1> QED BY <1>1, <1>2, <1>3, PTL DEF TagsSpec
=============================================================================
