--------------------------------- MODULE Reading ---------------------------------
(***************************************************************************)
(* The ways to an asset and what they show: the list of assets and its       *)
(* filters (assets-list.service.ts, assets.service.ts), the search of the    *)
(* index and its documents (search.service.ts, search-index-batch.worker.ts),*)
(* recommendations, the library, the page of an asset with its buttons       *)
(* (asset-mapper.service.ts) and its download (downloads.service.ts).  Each  *)
(* state asks one question about one asset whose documents are up to date.   *)
(*                                                                         *)
(* Engine and category are filtered alike, and stand as one facet; of        *)
(* licenses, a query names the asset's or none.  The words of a search, the  *)
(* order and the pages are left out (module Listing has the pages).  The     *)
(* rows of the Discover page are in DiscoverRows.                           *)
(***************************************************************************)
EXTENDS Naturals, FiniteSets

CONSTANTS
    Pipelines, Targets, Kinds, Tags, Facets,
    None,               \* no filter
    MaxRows             \* bound: rows of compatibility of a version

Statuses == {"DRAFT", "PUBLISHED", "ARCHIVED", "DELETED"}
Locales == {"en", "id"}
Requesters == {"guest", "other", "owner", "admin"}

ASSUME ReadingAssumption == None \notin Facets /\ MaxRows \in Nat

Compatibility == [renderPipelines : SUBSET Pipelines, targets : SUBSET Targets]
Matrices == {C \in SUBSET Compatibility : IsFiniteSet(C) /\ Cardinality(C) <= MaxRows}
Versions == [fileKinds : SUBSET Kinds, compatibility : Matrices]

VARIABLES
    asset,      \* its row, its versions: the last published one and the others
    query,      \* what a client asks for
    requester,  \* who asks
    filterable, \* who last told the index which of a document's fields may be filtered by
    ways        \* the answer: the ways by which the asset is found

readingVars == <<asset, query, requester, filterable, ways>>

AssetRows(statuses, others, names) ==
    [status : statuses, facet : Facets, tags : SUBSET Tags, latest : Versions,
     others : others, names : names, saved : BOOLEAN]
Queries(mine, all) ==
    [facet : Facets \cup {None}, tags : SUBSET Tags, fileKinds : SUBSET Kinds,
     renderPipelines : SUBSET Pipelines, targets : SUBSET Targets, license : BOOLEAN,
     locale : Locales, mine : mine, includeUnpublished : all]

\* What a search takes of a query: not whose assets, nor in which status.
SearchQuery(q) == [f \in DOMAIN q \ {"mine", "includeUnpublished"} |-> q[f]]

\* An empty list of values filters nothing.
AnyOf(wanted, given) == wanted = {} \/ wanted \cap given # {}

-----------------------------------------------------------------------------
(* Lists                                                                   *)

\* Mutant of ListedStatuses: whoever names an owner sees all that he has.
ListedStatusesAll(q, r) ==
    IF r # "guest" /\ q.mine THEN {"DRAFT", "PUBLISHED", "ARCHIVED"}
    ELSE IF q.includeUnpublished /\ r = "admin" THEN {"DRAFT", "PUBLISHED", "ARCHIVED"}
    ELSE {"PUBLISHED"}

\* query.mine: the query names the asset's owner.
ListedStatuses(q, r) ==
    IF (q.includeUnpublished /\ r = "admin") \/ (q.mine /\ r \in {"owner", "admin"})
    THEN {"DRAFT", "PUBLISHED", "ARCHIVED"} ELSE {"PUBLISHED"}

\* One of the versions has a file of a kind wanted and a row of compatibility that is
\* wanted in both respects.
VersionWanted(q, v) ==
    /\ AnyOf(q.fileKinds, v.fileKinds)
    /\ q.renderPipelines \cup q.targets # {} =>
          \E c \in v.compatibility : AnyOf(q.renderPipelines, c.renderPipelines) /\ AnyOf(q.targets, c.targets)

BuildWhere(q, a, statuses) ==
    /\ a.status \in statuses
    /\ q.facet \in {None, a.facet} /\ AnyOf(q.tags, a.tags)
    /\ \E v \in {a.latest} \cup a.others : VersionWanted(q, v)

ListFromPostgres(q, a, r) == BuildWhere(q, a, ListedStatuses(q, r))
Recommended(a) == a.status = "PUBLISHED"
InLibrary(a) == a.saved /\ a.status = "PUBLISHED"

-----------------------------------------------------------------------------
(* Search                                                                  *)

\* jsonb keeps en before id.
\* The category's name in a list: in the locale, else in whichever there is.
ResolveLocalized(names, locale) ==
    IF locale \in names THEN locale ELSE IF names = {} THEN "slug" ELSE CHOOSE l \in names : names = {l}

\* The same in the documents of the index: in the locale, else in English.
PickJsonLocalized(names, locale) ==
    IF locale \in names THEN locale ELSE IF "en" \in names THEN "en" ELSE "slug"

\* What the batch worker writes about an asset for a locale: of the version published
\* last, all rows of compatibility together.
BuildDocs(a, locale) ==
    [facet |-> a.facet, tags |-> a.tags, fileKinds |-> a.latest.fileKinds,
     renderPipelines |-> UNION {c.renderPipelines : c \in a.latest.compatibility},
     targets |-> UNION {c.targets : c \in a.latest.compatibility},
     licenseSlug |-> TRUE, categoryName |-> PickJsonLocalized(a.names, locale)]

\* The two lists of filterable attributes: the API's at its start, the batch worker's at its.
EnsureAssetsIndex == {"facet", "tags", "fileKinds", "renderPipelines", "targets", "licenseId"}
EnsureSettings == {"facet", "tags", "fileKinds", "renderPipelines", "targets", "licenseSlug"}

BuildFilter(q, doc) ==
    /\ q.facet \in {None, doc.facet} /\ AnyOf(q.tags, doc.tags)
    /\ AnyOf(q.fileKinds, doc.fileKinds)
    /\ AnyOf(q.renderPipelines, doc.renderPipelines) /\ AnyOf(q.targets, doc.targets)
    /\ q.license => doc.licenseSlug

\* Meilisearch refuses a search whose filter names a field that is not filterable.
Filterable(q, attributes) == q.license => "licenseSlug" \in attributes

SearchAssets(q, a) ==
    /\ Filterable(q, filterable)
    /\ a.status = "PUBLISHED" /\ BuildFilter(SearchQuery(q), BuildDocs(a, q.locale))

-----------------------------------------------------------------------------
(* The asset's page                                                        *)

IsOwnerOrAdmin(r) == r \in {"owner", "admin"}
AssertCanEdit(r) == r = "admin" \/ r = "owner"
GetDetail(a, r) == a.status = "PUBLISHED" \/ IsOwnerOrAdmin(r)

\* A card of a list, a hit of a search, and the page with its buttons.
ToSummary(a, locale) == [category |-> ResolveLocalized(a.names, locale)]
ToHit(doc, locale) ==
    LET field == IF locale = "id" THEN "categoryName_id" ELSE "categoryName_en"
    IN [category |-> IF field \in DOMAIN doc THEN doc[field] ELSE ""]
ToDetail(a, locale, r) ==
    [category |-> ResolveLocalized(a.names, locale), canEdit |-> IsOwnerOrAdmin(r),
     canArchive |-> IsOwnerOrAdmin(r) /\ a.status = "PUBLISHED"]
AssertDownloadAllowed(a, r) == r # "guest" /\ (a.status = "PUBLISHED" \/ IsOwnerOrAdmin(r))

-----------------------------------------------------------------------------
Unasked == {"none"}
Question(assets, queries, requesters) ==
    /\ asset \in assets /\ query \in queries /\ requester \in requesters
    /\ filterable = EnsureAssetsIndex /\ ways = Unasked
ReadingInit ==
    Question(AssetRows(Statuses, SUBSET Versions, SUBSET Locales), Queries(BOOLEAN, BOOLEAN), Requesters)

\* Another instance of the API, or a batch worker, starts.
StartIndexer ==
    /\ ways = Unasked /\ filterable' \in {EnsureAssetsIndex, EnsureSettings}
    /\ UNCHANGED <<asset, query, requester, ways>>

Ways(q, a, r) ==
    {w \in {"list", "search", "recommended", "library", "detail", "download"} :
        CASE w = "list" -> ListFromPostgres(q, a, r)
          [] w = "search" -> SearchAssets(q, a)
          [] w = "recommended" -> Recommended(a)
          [] w = "library" -> r # "guest" /\ InLibrary(a)
          [] w = "detail" -> GetDetail(a, r)
          [] w = "download" -> AssertDownloadAllowed(a, r)}

Read == ways = Unasked /\ ways' = Ways(query, asset, requester) /\ UNCHANGED <<asset, query, requester, filterable>>

ReadingNext == StartIndexer \/ Read

ReadingSpec == ReadingInit /\ [][ReadingNext]_readingVars

-----------------------------------------------------------------------------
(* Properties.                                                             *)

\* Whatever way an asset is found by, its page opens, and who is signed in may download it.
FoundOpens ==
    /\ ways \cap {"list", "search", "recommended", "library"} # {} => "detail" \in ways
    /\ "detail" \in ways /\ requester # "guest" => "download" \in ways

\* Search and list differ on a published asset only where a list finds an older version
\* or a draft, a search finds two rows of compatibility that each meet one half, or an
\* instance of the API that started after the batch worker made licenses unfilterable.
SearchIsList ==
    asset.status = "PUBLISHED" /\ ~query.mine /\ ways # Unasked =>
        /\ "search" \in ways /\ "list" \notin ways => Cardinality(asset.latest.compatibility) > 1
        /\ "list" \in ways /\ "search" \notin ways =>
            \/ \E v \in asset.others : VersionWanted(query, v)
            \/ query.license /\ filterable = EnsureAssetsIndex

\* Card, document and page call its category by the same name, unless there is but an
\* Indonesian one and an English one is asked for; a hit shows the document's name, or
\* none (it reads fields of a form of document that only SearchService.buildDocument,
\* which nothing calls, would make); a button on the page is not refused.
CardsAgree ==
    LET page == ToDetail(asset, query.locale, requester)
        doc == BuildDocs(asset, query.locale)
    IN /\ page.category = ToSummary(asset, query.locale).category
       /\ page.category = doc.categoryName \/ (asset.names = {"id"} /\ query.locale = "en")
       /\ ToHit(doc, query.locale).category \in {"", doc.categoryName}
       /\ page.canEdit \/ page.canArchive => AssertCanEdit(requester) /\ GetDetail(asset, requester)

\* What visitors are shown of an asset, however they look for it.
AnswersAgree == FoundOpens /\ SearchIsList /\ CardsAgree
=============================================================================
