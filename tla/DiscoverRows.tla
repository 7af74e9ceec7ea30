----------------------------- MODULE DiscoverRows -----------------------------
(***************************************************************************)
(* The rows of the Discover page: under each category its newest published  *)
(* assets (buildRows, discover.service.ts).  One query ranks ids, a second   *)
(* reads the assets; the cards are made of one flat list and dealt out again *)
(* by their position in it.  Between the two queries assets are archived,    *)
(* restored, moved to another category, or deleted.                         *)
(*                                                                         *)
(* The carousel above the rows and the cached page are in Featured.         *)
(***************************************************************************)
EXTENDS Naturals, FiniteSets, Functions

CONSTANTS
    ShelfCount,     \* active categories, in their order: 1 .. ShelfCount
    Works,          \* assets that have been published, as numbers: a later one is newer
    AssetsPerRow

ASSUME RowsAssumption ==
    ShelfCount \in Nat /\ Works \subseteq Nat /\ IsFiniteSet(Works) /\ AssetsPerRow \in Nat \ {0}

Shelves == 1 .. ShelfCount

VARIABLES
    shelf,      \* each asset's category
    state,      \* each asset's status, or "gone"
    ranked,     \* what the first query found under each category
    filling,    \* whether a request is between its queries
    rows,       \* what was shown last: each row's cards
    owed        \* history: what the first query found when those rows were made, without what the second missed

rowsVars == <<shelf, state, ranked, filling, rows, owed>>

NoRows == [c \in Shelves |-> <<>>]
RowsInit ==
    /\ shelf \in [Works -> Shelves] /\ state = [w \in Works |-> "PUBLISHED"]
    /\ ranked = [c \in Shelves |-> {}] /\ filling = FALSE /\ rows = NoRows
    /\ owed = [c \in Shelves |-> [all |-> {}, read |-> {}]]

Reshelve(w, c) ==
    /\ state[w] # "gone" /\ c # shelf[w] /\ shelf' = [shelf EXCEPT ![w] = c]
    /\ UNCHANGED <<state, ranked, filling, rows, owed>>

SetStatus(w, s) ==
    /\ state[w] \notin {"gone", s} /\ state' = [state EXCEPT ![w] = s]
    /\ UNCHANGED <<shelf, ranked, filling, rows, owed>>

-----------------------------------------------------------------------------
\* WHERE rn <= ASSETS_PER_ROW, PARTITION BY categoryId ORDER BY publishedAt DESC
RankedIn(c) ==
    LET S == {w \in Works : state[w] = "PUBLISHED" /\ shelf[w] = c}
    IN {w \in S : Cardinality({x \in S : x > w}) < AssetsPerRow}

RankRows ==
    /\ ~filling /\ filling' = TRUE
    /\ ranked' = [c \in Shelves |-> RankedIn(c)]
    /\ UNCHANGED <<shelf, state, rows, owed>>

Existing(S) == {w \in S : state[w] # "gone"}

\* Mutant of Orders: ids are dealt out in the order in which they were read.
OrdersUnsorted(S) == Bijection(1 .. Cardinality(S), S)

\* idsByCategory, sorted newest first, unless there is an id that was not read: it compares
\* equal to every other.
Orders(S) ==
    {ids \in Bijection(1 .. Cardinality(S), S) :
        Existing(S) = S => \A i, j \in DOMAIN ids : i < j => ids[i] > ids[j]}

\* The places of the cards, row after row: where each stands among some of them.
Places(order) == UNION {{c} \X DOMAIN order[c] : c \in Shelves}
UpTo(p, q) == q[1] < p[1] \/ (q[1] = p[1] /\ q[2] <= p[2])
Position(p, P) == Cardinality({q \in P : UpTo(p, q)})

\* The k-th card belongs to the k-th id, though ids that were not read make no card.
Deal(order) ==
    LET flat == Places(order)
        cards == {p \in flat : state[order[p[1]][p[2]]] # "gone"}
        Card(p) == CHOOSE q \in cards : Position(q, cards) = Position(p, flat)
        Filled(c) == {i \in DOMAIN order[c] : Position(<<c, i>>, flat) <= Cardinality(cards)}
    IN [c \in Shelves |-> [i \in Filled(c) |-> order[Card(<<c, i>>)[1]][Card(<<c, i>>)[2]]]]

\* findMany, toSummaryMany
FillRows ==
    /\ filling /\ filling' = FALSE
    /\ \E order \in [Shelves -> UNION {Orders(ranked[c]) : c \in Shelves}] :
           /\ \A c \in Shelves : order[c] \in Orders(ranked[c])
           /\ rows' = Deal(order)
    /\ owed' = [c \in Shelves |-> [all |-> ranked[c], read |-> Existing(ranked[c])]]
    /\ ranked' = [c \in Shelves |-> {}]
    /\ UNCHANGED <<shelf, state>>

RowsNext ==
    \/ \E w \in Works :
           \/ \E c \in Shelves : Reshelve(w, c)
           \/ \E s \in {"PUBLISHED", "ARCHIVED", "gone"} : SetStatus(w, s)
    \/ RankRows \/ FillRows

RowsSpec == RowsInit /\ [][RowsNext]_rowsVars

-----------------------------------------------------------------------------
(* Properties.                                                             *)

\* No card is shown twice or lost, but for those of deleted assets.  A row shows what was
\* ranked under its category, newest first, unless an asset of that row or of one above
\* it was deleted between the two queries: from there on the cards move up, into rows of
\* other categories (DiscoverService.buildRows).
RowsExplained ==
    /\ \A c, d \in Shelves : \A i \in DOMAIN rows[c], j \in DOMAIN rows[d] :
           rows[c][i] = rows[d][j] => c = d /\ i = j
    /\ UNION {Range(rows[c]) : c \in Shelves} = UNION {owed[c].read : c \in Shelves}
    /\ \A c \in Shelves :
           (\A d \in 1 .. c : owed[d].all = owed[d].read) =>
               /\ Range(rows[c]) = owed[c].all
               /\ \A i, j \in DOMAIN rows[c] : i < j => rows[c][i] > rows[c][j]
===============================================================================
