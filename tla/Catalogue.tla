------------------------------- MODULE Catalogue -------------------------------
(***************************************************************************)
(* Categories and licenses: what admins make of them, and the lists of them  *)
(* that are cached in Redis, one per locale (admin-categories.service.ts,    *)
(* admin-licenses.service.ts, categories.service.ts, licenses.service.ts,    *)
(* cached.service.ts).  A category's list also counts its published assets,  *)
(* and its name is part of their search documents.                           *)
(*                                                                         *)
(* An update reads the whole row first and writes all of it.  A list is read *)
(* through the cache: a reader that misses reads the rows, then the counts,  *)
(* and sets the key whatever happened meanwhile.  Slugs are left out: the    *)
(* lookup before an insert only words the error of the unique index.  The    *)
(* seed script (scripts/seed.ts) writes the default rows again at any time   *)
(* and knows neither the cache nor the index.                                *)
(***************************************************************************)
EXTENDS Naturals, FiniteSets

CONSTANTS
    Rows,           \* rows of the table
    Fields,         \* their fields: isActive, sortOrder, others
    Goods,          \* assets
    Clerks,         \* requests that write, in flight
    Fillers,        \* requests for the list, in flight
    Locales,
    NoRow,
    ReindexLimit,   \* assets that one update of a category enqueues (5000 in the code)
    MaxLapses       \* bound: failures of Redis or of the database, deaths

ASSUME CatalogueAssumption ==
    /\ NoRow \notin Rows /\ MaxLapses \in Nat /\ ReindexLimit \in Nat /\ {"isActive", "sortOrder"} \subseteq Fields

VARIABLES
    shelf,          \* which table: "categories" or "licenses"
    row,            \* each row's fields, or NoRow
    home, public,   \* each asset's row, NoRow before it exists; those that are published
    desk,           \* each writing request: op, step, row, the
                    \* fields it will write and those asked for; or its asset
    fill,           \* each list request: step, locale, rows, counts
    copy,           \* the cached list of each locale, or NoRow
    given,          \* history: each field as it was last asked for
    undone,         \* history: fields put back by a request that did not ask for them, or by the seed
    tainted,        \* history: locales whose copy was wrong when it was set, or not dropped
    owed, lost,     \* published assets that were published or moved, or whose category
                    \* changed, since they were last enqueued; history: those of them
                    \* nobody will enqueue
    lapses

catalogueVars == <<shelf, row, home, public, desk, fill, copy, given, undone, tainted, owed, lost, lapses>>

Values == [Fields -> {0, 1}]
Blank == [f \in Fields |-> 1]
Away == [op |-> "none", step |-> "idle", row |-> NoRow, now |-> NoRow, only |-> {}]
NoFill == [step |-> "idle", locale |-> "none", rows |-> NoRow, counts |-> NoRow]

There == {r \in Rows : row[r] # NoRow}
Homed(r) == {a \in Goods : home[a] = r}
Named(r) == \E k \in Clerks : desk[k].row = r

CatalogueInit ==
    /\ shelf \in {"categories", "licenses"}
    /\ row = [r \in Rows |-> Blank] /\ given = row
    /\ home = [a \in Goods |-> NoRow]
    /\ public = {}
    /\ desk = [k \in Clerks |-> Away] /\ fill = [q \in Fillers |-> NoFill]
    /\ copy = [l \in Locales |-> NoRow]
    /\ undone = {} /\ tainted = {} /\ owed = {} /\ lost = {} /\ lapses = 0

Step(k, op, step, r) == desk' = [desk EXCEPT ![k] = [Away EXCEPT !.op = op, !.step = step, !.row = r]]
Close(k) == desk' = [desk EXCEPT ![k] = Away]

-----------------------------------------------------------------------------
(* The list                                                                *)

\* What computeList returns: the active rows, and how many published assets each has.
ActiveRows == [r \in {x \in There : row[x]["isActive"] = 1} |-> row[r]]
Counts == IF shelf = "licenses" THEN NoRow ELSE [r \in Rows |-> Cardinality(Homed(r) \cap public)]
Shown(rows, counts) ==
    [r \in DOMAIN rows |-> <<rows[r], IF shelf = "licenses" THEN 0 ELSE counts[r]>>]
List == Shown(ActiveRows, Counts)

\* getOrFetch: a hit is answered; a miss, or a failed GET, goes on to the fetcher.
ReadRows(q, l) ==
    /\ fill[q] = NoFill /\ copy[l] = NoRow
    /\ fill' = [fill EXCEPT ![q] = [step |-> "counts", locale |-> l, rows |-> ActiveRows, counts |-> NoRow]]
    /\ UNCHANGED <<shelf, row, home, public, desk, copy, given, undone, tainted, owed, lost, lapses>>

ReadCounts(q) ==
    /\ fill[q].step = "counts"
    /\ fill' = [fill EXCEPT ![q].step = "set", ![q].counts = Counts]
    /\ UNCHANGED <<shelf, row, home, public, desk, copy, given, undone, tainted, owed, lost, lapses>>

\* SET EX, not awaited and never refused: a slower request's copy replaces any.
SetCopy(q) ==
    /\ fill[q].step = "set"
    /\ LET l == fill[q].locale
           list == Shown(fill[q].rows, fill[q].counts)
       IN /\ copy' = [copy EXCEPT ![l] = list]
          /\ tainted' = IF list = List THEN tainted \ {l} ELSE tainted \cup {l}
    /\ fill' = [fill EXCEPT ![q] = NoFill]
    /\ UNCHANGED <<shelf, row, home, public, desk, given, undone, owed, lost, lapses>>

\* The SET fails, or the key's time is over.
LoseCopy(l) ==
    /\ copy[l] # NoRow
    /\ copy' = [copy EXCEPT ![l] = NoRow] /\ tainted' = tainted \ {l}
    /\ UNCHANGED <<shelf, row, home, public, desk, fill, given, undone, owed, lost, lapses>>

-----------------------------------------------------------------------------
(* Requests that write                                                     *)

\* A new row has an id that no request knows.
CreateRow(k, v) ==
    /\ desk[k] = Away
    /\ \E r \in Rows \ There : /\ ~Named(r)
                               /\ row' = [row EXCEPT ![r] = v] /\ given' = [given EXCEPT ![r] = v]
                               /\ Step(k, "create", "drop", r)
    /\ UNCHANGED <<shelf, home, public, fill, copy, undone, tainted, owed, lost, lapses>>

\* update: the row is read; a locale of the name or of the texts is merged into
\* those it has, as any field that is not given is kept.
ReadRow(k, r, v, only) ==
    /\ desk[k] = Away /\ r \in There
    /\ desk' = [desk EXCEPT ![k] = [op |-> "update", step |-> "write", row |-> r, only |-> only,
                                    now |-> [f \in Fields |-> IF f \in only THEN v[f] ELSE row[r][f]]]]
    /\ UNCHANGED <<shelf, row, home, public, fill, copy, given, undone, tainted, owed, lost, lapses>>

\* Every field is written: the row's update fails if it is gone.
WriteRow(k) ==
    /\ desk[k].step = "write"
    /\ LET r == desk[k].row
           now == desk[k].now
           back == {<<r, f>> : f \in {x \in Fields \ desk[k].only : now[x] # row[r][x]}}
       IN IF r \notin There THEN Close(k) /\ UNCHANGED <<row, given, undone, owed>>
          ELSE /\ row' = [row EXCEPT ![r] = now]
               /\ given' = [given EXCEPT ![r] = [f \in Fields |-> IF f \in desk[k].only THEN now[f] ELSE @[f]]]
               /\ undone' = (undone \cup back) \ {<<r, f>> : f \in desk[k].only}
               /\ owed' = IF shelf = "licenses" THEN owed ELSE owed \cup (Homed(r) \cap public)
               /\ Step(k, "update", "drop", r)
    /\ UNCHANGED <<shelf, home, public, fill, copy, tainted, lost, lapses>>

\* reorder: each row's place is written, without reading the rest.
ReorderRows(k, v) ==
    /\ desk[k] = Away /\ shelf = "categories"
    /\ row' = [r \in Rows |-> IF r \in There THEN [row[r] EXCEPT !["sortOrder"] = v[r]] ELSE NoRow]
    /\ given' = [r \in Rows |-> [given[r] EXCEPT !["sortOrder"] = v[r]]]
    /\ undone' = {x \in undone : x[2] # "sortOrder"}
    /\ Step(k, "reorder", "drop", NoRow)
    /\ UNCHANGED <<shelf, home, public, fill, copy, tainted, owed, lost, lapses>>

\* remove: the assets are counted first.
CountGoods(k, r) ==
    /\ desk[k] = Away /\ r \in There /\ Homed(r) = {}
    /\ Step(k, "remove", "delete", r)
    /\ UNCHANGED <<shelf, row, home, public, fill, copy, given, undone, tainted, owed, lost, lapses>>

\* The foreign key keeps a row that got an asset meanwhile.
DeleteRow(k) ==
    /\ desk[k].step = "delete"
    /\ LET r == desk[k].row
       IN IF r \notin There \/ Homed(r) # {} THEN Close(k) /\ UNCHANGED <<row, undone>>
          ELSE /\ row' = [row EXCEPT ![r] = NoRow]
               /\ undone' = {x \in undone : x[1] # r}
               /\ Step(k, "remove", "drop", r)
    /\ UNCHANGED <<shelf, home, public, fill, copy, given, tainted, owed, lost, lapses>>

\* The seed script's upsert of one of the default rows: it writes the defaults
\* over what an admin chose, or the row anew, drops no key and enqueues nothing.
SeedRow(r) ==
    /\ row[r] # Blank /\ (r \notin There => ~Named(r))
    /\ row' = [row EXCEPT ![r] = [f \in Fields |-> IF f = "iconKey" /\ r \in There THEN @[f] ELSE 1]]
    /\ given' = IF r \in There THEN given ELSE [given EXCEPT ![r] = Blank]
    /\ undone' = undone \cup IF r \in There THEN {<<r, f>> : f \in {x \in Fields \ {"iconKey"} : row[r][x] # 1}}
                           ELSE {}
    /\ tainted' = tainted \cup {l \in Locales : copy[l] # NoRow}
    /\ LET missed == IF shelf = "licenses" THEN {} ELSE Homed(r) \cap public
       IN owed' = owed \cup missed /\ lost' = lost \cup missed
    /\ UNCHANGED <<shelf, home, public, desk, fill, copy, lapses>>

\* An asset's own requests.  One that creates or edits it finds it first, and will
\* enqueue it only if it was published then.
ReadAsset(k, a) ==
    /\ desk[k] = Away
    /\ desk' = [desk EXCEPT ![k] = [Away EXCEPT !.op = IF a \in public THEN "asset" ELSE "draft",
                                               !.step = "edit", !.now = a]]
    /\ UNCHANGED <<shelf, row, home, public, fill, copy, given, undone, tainted, owed, lost, lapses>>

\* Its category is written, under the foreign key.
MoveAsset(k, r) ==
    /\ desk[k].step = "edit"
    /\ LET a == desk[k].now
       IN IF r \notin There THEN Close(k) /\ UNCHANGED <<home, owed, lost>>
          ELSE /\ home' = [home EXCEPT ![a] = r]
               /\ owed' = owed \cup ({a} \cap public)
               /\ lost' = IF desk[k].op = "draft" THEN lost \cup ({a} \cap public) ELSE lost
               /\ desk' = [desk EXCEPT ![k].step = "drop"]
    /\ UNCHANGED <<shelf, row, public, fill, copy, given, undone, tainted, lapses>>

\* publish, archive, restore and softDelete enqueue it whatever its status was;
\* no license's list depends on them.
Flip(k, a, up) ==
    /\ desk[k] = Away /\ home[a] # NoRow /\ shelf = "categories"
    /\ public' = IF up THEN public \cup {a} ELSE public \ {a}
    /\ owed' = IF up THEN owed \cup {a} ELSE owed
    /\ desk' = [desk EXCEPT ![k] = [Away EXCEPT !.op = "asset", !.step = "drop", !.now = a]]
    /\ UNCHANGED <<shelf, row, home, fill, copy, given, undone, tainted, lost, lapses>>

\* Mutant of CopyKeys: one locale's key is forgotten.
CopyKeysShort == {CHOOSE l \in Locales : TRUE}

\* invalidateCache names the keys of all locales.
CopyKeys == Locales

\* invalidateCache: a failed DEL is only logged.
DropCopies(k, ok) ==
    /\ desk[k].step = "drop"
    /\ IF ok THEN /\ copy' = [l \in Locales |-> IF l \in CopyKeys THEN NoRow ELSE copy[l]]
                  /\ tainted' = tainted \ CopyKeys /\ UNCHANGED lapses
       ELSE /\ lapses < MaxLapses /\ lapses' = lapses + 1
            /\ tainted' = tainted \cup CopyKeys /\ UNCHANGED copy
    /\ CASE desk[k].op = "asset" -> desk' = [desk EXCEPT ![k].step = "enqueue"]
         [] desk[k].op = "update" /\ shelf = "categories" -> desk' = [desk EXCEPT ![k].step = "reindex"]
         [] OTHER -> Close(k)
    /\ UNCHANGED <<shelf, row, home, public, fill, given, undone, owed, lost>>

\* reindexCategoryAssets: findMany names no order, and takes so many at most.
Reindex(k) ==
    /\ desk[k].step = "reindex"
    /\ LET all == Homed(desk[k].row) \cap public
       IN \E done \in SUBSET all :
              /\ Cardinality(done) <= ReindexLimit /\ (done # all => Cardinality(done) = ReindexLimit)
              /\ owed' = owed \ done /\ lost' = (lost \ done) \cup (owed \cap (all \ done))
    /\ Close(k)
    /\ UNCHANGED <<shelf, row, home, public, fill, copy, given, undone, tainted, lapses>>

\* enqueueSearchIndex of an asset's own request.
Enqueue(k) ==
    /\ desk[k].step = "enqueue"
    /\ owed' = owed \ {desk[k].now} /\ lost' = lost \ {desk[k].now}
    /\ Close(k)
    /\ UNCHANGED <<shelf, row, home, public, fill, copy, given, undone, tainted, lapses>>

\* Request k will enqueue asset a: its own request, or one that wrote its category.
ByAsset(a, k) == desk[k].op = "asset" /\ desk[k].step # "edit" /\ desk[k].now = a
ByRow(a, k) == desk[k].op = "update" /\ desk[k].step \in {"drop", "reindex"} /\ desk[k].row = home[a]

\* The audit row or a job cannot be written, or the process dies.
Lapse(k) ==
    /\ desk[k] # Away /\ lapses < MaxLapses /\ lapses' = lapses + 1
    /\ tainted' = IF desk[k].step = "drop" THEN tainted \cup CopyKeys ELSE tainted
    /\ lost' = lost \cup {a \in owed : ByAsset(a, k) \/ ByRow(a, k)}
    /\ Close(k)
    /\ UNCHANGED <<shelf, row, home, public, fill, copy, given, undone, owed>>

CatalogueNext ==
    \/ \E q \in Fillers : ReadCounts(q) \/ SetCopy(q) \/ \E l \in Locales : ReadRows(q, l)
    \/ \E l \in Locales : LoseCopy(l)
    \/ \E r \in Rows : SeedRow(r)
    \/ \E k \in Clerks :
           \/ \E v \in Values : CreateRow(k, v)
           \/ \E r \in Rows, v \in Values, only \in SUBSET Fields \ {{}} :
                  (\A f \in Fields \ only : v[f] = 1) /\ ReadRow(k, r, v, only)
           \/ \E v \in [Rows -> {0, 1}] : ReorderRows(k, v)
           \/ \E r \in Rows : CountGoods(k, r) \/ MoveAsset(k, r)
           \/ \E a \in Goods : ReadAsset(k, a) \/ \E up \in BOOLEAN : Flip(k, a, up)
           \/ WriteRow(k) \/ DeleteRow(k) \/ Reindex(k) \/ Enqueue(k) \/ Lapse(k)
           \/ \E ok \in BOOLEAN : DropCopies(k, ok)

CatalogueSpec == CatalogueInit /\ [][CatalogueNext]_catalogueVars

-----------------------------------------------------------------------------
(* Properties.                                                             *)

\* A field has the value an admin gave it last, unless another request had read
\* the row before and wrote it back (AdminCategoriesService.update), or the seed
\* script put the default in its place.
FieldsExplained ==
    \A r \in There, f \in Fields : row[r][f] = given[r][f] \/ <<r, f>> \in undone

\* A cached list is the present one, unless a request that changed it is about to
\* drop it, the drop failed, a reader set what it had read before the change, or the
\* seed script changed a row.
CopyExplained ==
    \A l \in Locales : copy[l] \in {NoRow, List} \/ l \in tainted \/ \E k \in Clerks : desk[k].step = "drop"

\* A published asset is enqueued after it was published or moved or its category
\* changed, unless the request failed before, an edit had found it not yet published,
\* its category has more assets than an update enqueues, or the seed changed it.
CategoryReachesIndex ==
    \A a \in owed \ lost : \E k \in Clerks : ByAsset(a, k) \/ ByRow(a, k)

\* What admins make of categories and licenses reaches the rows, the cached lists
\* and the search index; what does not is explained.
CatalogueExplained == FieldsExplained /\ CopyExplained /\ CategoryReachesIndex
=============================================================================
