-------------------------------- MODULE Community --------------------------------
(***************************************************************************)
(* Comments and issues on assets (comments.service.ts), the requests for new *)
(* assets that admins review (requests.service.ts), and the reports about    *)
(* assets as they are filed (reports.service.ts; AssetLifecycle has what     *)
(* admins do with them).                                                     *)
(*                                                                         *)
(* A comment answers an asset or another comment; a top one may be an issue, *)
(* whose status the owner or an admin sets.  Deletion keeps the row; the     *)
(* removal of an asset takes its comments along (ON DELETE CASCADE).  Every  *)
(* handler writes first and tells the person concerned afterwards.  Bodies   *)
(* and their editing, mentions of names and audit rows are left out.         *)
(***************************************************************************)
EXTENDS Naturals, FiniteSets

CONSTANTS
    Threads,        \* requests in flight at a time
    Grounds,        \* assets
    People,
    Owner, Admin,   \* who owns every asset; one admin
    Rows,           \* bound: comments
    MaxDepth,       \* MAX_DEPTH of comments.service.ts
    NoOne,
    MaxDeaths       \* bound: processes that die

Wish == "wish"
Complaint == "complaint"
Subjects == Rows \cup {Wish}
Statuses == {"OPEN", "RESOLVED"}
Reviews == {"PENDING", "REJECTED"}
Reasons == {"reason", NoOne}

\* What rows may be.
Comments ==
    [asset : Grounds, parent : Rows \cup {NoOne}, depth : 0 .. MaxDepth, author : People,
     status : Statuses \cup {NoOne}, deleted : BOOLEAN]
Wishes == [status : Reviews \cup {"SENT"}, comment : Reasons]
Complaints == [asset : Grounds, by : People]

ASSUME CommunityAssumption ==
    /\ Owner \in People /\ Admin \in People /\ NoOne \notin Grounds \cup People \cup Rows
    /\ NoOne \notin Comments /\ NoOne \notin Wishes /\ NoOne \notin Complaints
    /\ Wish \notin Rows /\ Complaint \notin Rows
    /\ MaxDepth \in Nat \ {0} /\ MaxDeaths \in Nat

VARIABLES
    standing,   \* the assets that exist
    comment,    \* Comment rows, or NoOne
    wish,       \* the AssetRequest row, or NoOne
    complaint,  \* the Report row, or NoOne
    errand,     \* each request in flight: what, at which step, with what
    notices,    \* enqueued notices: <<what they are about, recipient>>
    told,       \* status (and comment) the author heard last, per issue and wish
    unheard,    \* history: what a process died before telling
    muddled,    \* history: subjects of two changes told out of turn, or not told
    deaths

communityVars == <<standing, comment, wish, complaint, errand, notices, told, unheard, muddled, deaths>>

Free == [op |-> "none", step |-> "idle", asset |-> NoOne, on |-> NoOne, by |-> NoOne,
         status |-> NoOne, reason |-> NoOne, depth |-> 0]

CommunityInit ==
    /\ standing = Grounds /\ comment = [c \in Rows |-> NoOne] /\ wish = NoOne /\ complaint = NoOne
    /\ errand = [t \in Threads |-> Free]
    /\ notices = {} /\ told = [s \in Subjects |-> NoOne]
    /\ unheard = {} /\ muddled = {} /\ deaths = 0

posted == {c \in Rows : comment[c] # NoOne}
Is(t, op, step) == errand[t].op = op /\ errand[t].step = step
Step(t, step) == errand' = [errand EXCEPT ![t].step = step]
Done(t) == errand' = [errand EXCEPT ![t] = Free]
Begun(t, j) == errand[t] = Free /\ errand' = [errand EXCEPT ![t] = j]
tellingVars == <<notices, told, unheard, muddled, deaths>>

-----------------------------------------------------------------------------
(* Writing a comment.                                                      *)

\* The asset is found; a reply has its parent to look at, an issue has none.
PostComment(t, a, on, by, status) ==
    /\ a \in standing
    /\ on # NoOne => status = NoOne
    /\ Begun(t, [Free EXCEPT !.op = "post", !.step = IF on = NoOne THEN "insert" ELSE "parent",
                 !.asset = a, !.on = on, !.by = by, !.status = status])
    /\ UNCHANGED <<standing, comment, wish, complaint, tellingVars>>

\* A parent of this asset, deleted or not, that is not too deep already.
FindParent(t) ==
    /\ Is(t, "post", "parent")
    /\ LET p == errand[t].on
       IN IF p \in posted /\ comment[p].asset = errand[t].asset /\ comment[p].depth + 1 < MaxDepth
          THEN errand' = [errand EXCEPT ![t].step = "insert", ![t].depth = comment[p].depth + 1]
          ELSE Done(t)
    /\ UNCHANGED <<standing, comment, wish, complaint, tellingVars>>

\* Rejected by a foreign key if the asset or the parent has gone.
Insert(t) ==
    /\ Is(t, "post", "insert")
    /\ IF errand[t].asset \in standing /\ errand[t].on \in posted \cup {NoOne}
       THEN \E c \in Rows \ posted :
              /\ comment' = [comment EXCEPT ![c] =
                   [asset |-> errand[t].asset, parent |-> errand[t].on, depth |-> errand[t].depth,
                    author |-> errand[t].by, status |-> errand[t].status, deleted |-> FALSE]]
              /\ told' = [told EXCEPT ![c] = errand[t].status]
              /\ errand' = [errand EXCEPT ![t].step = "tell", ![t].on = c]
       ELSE Done(t) /\ UNCHANGED <<comment, told>>
    /\ UNCHANGED <<standing, wish, complaint, notices, unheard, muddled, deaths>>

\* A reply is answered to the author of its parent, a top comment to the owner.
Addressee(c) ==
    IF comment[c].parent = NoOne THEN Owner ELSE comment[comment[c].parent].author

\* Mutant of Announce: a reply is announced to the owner.
AnnounceToOwner(t) ==
    /\ Is(t, "post", "tell")
    /\ notices' = IF errand[t].on \in posted /\ Owner # errand[t].by
                  THEN notices \cup {<<errand[t].on, Owner>>} ELSE notices
    /\ Done(t)
    /\ UNCHANGED <<standing, comment, wish, complaint, told, unheard, muddled, deaths>>

\* The parent is read again; nobody hears of a comment of his own.
Announce(t) ==
    /\ Is(t, "post", "tell")
    /\ notices' = IF errand[t].on \in posted /\ Addressee(errand[t].on) # errand[t].by
                  THEN notices \cup {<<errand[t].on, Addressee(errand[t].on)>>} ELSE notices
    /\ Done(t)
    /\ UNCHANGED <<standing, comment, wish, complaint, told, unheard, muddled, deaths>>

DeleteComment(c) ==
    /\ c \in posted
    /\ comment' = [comment EXCEPT ![c].deleted = TRUE]
    /\ UNCHANGED <<standing, wish, complaint, errand, tellingVars>>

\* The purge or an admin removes the asset's row; a report about it forbids that.
RemoveAsset(a) ==
    /\ a \in standing /\ (complaint # NoOne => complaint.asset # a)
    /\ standing' = standing \ {a}
    /\ LET gone == {c \in posted : comment[c].asset = a}
       IN /\ comment' = [c \in Rows |-> IF c \in gone THEN NoOne ELSE comment[c]]
          /\ told' = [s \in Subjects |-> IF s \in gone THEN NoOne ELSE told[s]]
          /\ notices' = {n \in notices : n[1] \notin gone}
          /\ unheard' = unheard \ gone /\ muddled' = muddled \ gone
          /\ errand' = [t \in Threads |-> IF errand[t].on \in gone THEN Free ELSE errand[t]]
    /\ UNCHANGED <<wish, complaint, deaths>>

-----------------------------------------------------------------------------
(* The page of an asset: its live top comments and, from a recursive query   *)
(* that walks at most MaxDepth hops, the live replies under them.            *)

\* Mutant of Children: deleted replies are walked too.
ChildrenAll(S) == {c \in posted : comment[c].parent \in S}

Children(S) == {c \in posted : comment[c].parent \in S /\ ~comment[c].deleted}

TopRows(a) ==
    {c \in posted : comment[c].asset = a /\ comment[c].parent = NoOne /\ ~comment[c].deleted}

\* The rows of each asset within that many hops.
Thread[hop \in 0 .. MaxDepth] ==
    IF hop = 0 THEN [a \in Grounds |-> TopRows(a)]
    ELSE LET found == Thread[hop - 1] IN [a \in Grounds |-> found[a] \cup Children(found[a])]

Listed(a) == Thread[MaxDepth][a]

-----------------------------------------------------------------------------
(* Changes of status that are told afterwards.                             *)

\* Another change of the subject that was written and is still to be told.
Pending(s, t) == \E q \in Threads \ {t} : errand[q].step = "report" /\ errand[q].on = s

Changed(t, s) ==
    muddled' = IF Pending(s, t) THEN muddled \cup {s}
               ELSE IF errand[t].by = NoOne THEN muddled ELSE muddled \ {s}

\* Only top issues have a status, for the owner and admins to set.
FindIssue(t, c, by, status) ==
    /\ c \in posted /\ comment[c].status # NoOne /\ by \in {Owner, Admin}
    /\ Begun(t, [Free EXCEPT !.op = "issue", !.step = "write", !.on = c, !.by = by, !.status = status])
    /\ UNCHANGED <<standing, comment, wish, complaint, tellingVars>>

\* The author is told of what another one changed.
SetIssueStatus(t) ==
    /\ Is(t, "issue", "write")
    /\ LET c == errand[t].on
       IN /\ comment' = [comment EXCEPT ![c].status = errand[t].status]
          /\ Changed(t, c)
          /\ IF comment[c].author = errand[t].by
             THEN told' = [told EXCEPT ![c] = errand[t].status] /\ Done(t)
             ELSE Step(t, "report") /\ UNCHANGED told
    /\ UNCHANGED <<standing, wish, complaint, notices, unheard, deaths>>

\* A request for an asset; every admin is told of it.
SubmitWish(t) ==
    /\ wish = NoOne
    /\ Begun(t, [Free EXCEPT !.op = "wish", !.step = "tell", !.on = Wish])
    /\ wish' = [status |-> "SENT", comment |-> NoOne]
    /\ told' = [told EXCEPT ![Wish] = wish']
    /\ UNCHANGED <<standing, comment, complaint, notices, unheard, muddled, deaths>>

AnnounceWish(t) ==
    /\ Is(t, "wish", "tell")
    /\ notices' = notices \cup {<<Wish, Admin>>}
    /\ Done(t)
    /\ UNCHANGED <<standing, comment, wish, complaint, told, unheard, muddled, deaths>>

\* adminUpdate: a rejection gives a reason; others may leave the comment as read.
FindWish(t, status, reason) ==
    /\ wish # NoOne
    /\ status = "REJECTED" => reason # NoOne
    /\ Begun(t, [Free EXCEPT !.op = "review", !.step = "write", !.on = Wish, !.by = Admin,
                 !.status = status, !.reason = IF reason # NoOne THEN reason ELSE wish.comment])
    /\ UNCHANGED <<standing, comment, wish, complaint, tellingVars>>

ReviewWish(t) ==
    /\ Is(t, "review", "write")
    /\ wish' = [status |-> errand[t].status, comment |-> errand[t].reason]
    /\ Changed(t, Wish)
    /\ Step(t, "report")
    /\ UNCHANGED <<standing, comment, complaint, notices, told, unheard, deaths>>

-----------------------------------------------------------------------------
(* Filing a report.                                                        *)

\* The asset is found, in whatever status.
CreateReport(t, a, by) ==
    /\ a \in standing /\ complaint = NoOne /\ \A q \in Threads : errand[q].op # "complain"
    /\ Begun(t, [Free EXCEPT !.op = "complain", !.step = "insert", !.asset = a, !.on = Complaint, !.by = by])
    /\ UNCHANGED <<standing, comment, wish, complaint, tellingVars>>

InsertReport(t) ==
    /\ Is(t, "complain", "insert")
    /\ IF errand[t].asset \in standing
       THEN complaint' = [asset |-> errand[t].asset, by |-> errand[t].by] /\ Step(t, "tell")
       ELSE Done(t) /\ UNCHANGED complaint
    /\ UNCHANGED <<standing, comment, wish, tellingVars>>

\* The owner, unless he is the reporter, and every admin.
Concerned(by) == ({Owner} \ {by}) \cup {Admin}

\* All at once; some of the jobs may not be taken, and then the request fails.
AnnounceReport(t) ==
    /\ Is(t, "complain", "tell")
    /\ \E S \in SUBSET Concerned(errand[t].by) :
           /\ notices' = notices \cup {<<Complaint, p>> : p \in S}
           /\ unheard' = IF S = Concerned(errand[t].by) THEN unheard ELSE unheard \cup {Complaint}
    /\ Done(t)
    /\ UNCHANGED <<standing, comment, wish, complaint, told, muddled, deaths>>

-----------------------------------------------------------------------------
\* The author of an issue or a request is told.
Report(t) ==
    /\ errand[t].step = "report"
    /\ told' = [told EXCEPT ![errand[t].on] =
           IF errand[t].op = "review"
           THEN [status |-> errand[t].status, comment |-> errand[t].reason] ELSE errand[t].status]
    /\ Done(t)
    /\ UNCHANGED <<standing, comment, wish, complaint, notices, unheard, muddled, deaths>>

Die(t) ==
    /\ errand[t] # Free
    /\ deaths < MaxDeaths /\ deaths' = deaths + 1
    /\ unheard' = IF errand[t].step = "tell" THEN unheard \cup {errand[t].on} ELSE unheard
    /\ muddled' = IF errand[t].step = "report" THEN muddled \cup {errand[t].on} ELSE muddled
    /\ Done(t)
    /\ UNCHANGED <<standing, comment, wish, complaint, notices, told>>

CommentNext ==
    \/ \E t \in Threads :
           \/ \E a \in Grounds, on \in Rows \cup {NoOne}, by \in People, s \in {"OPEN", NoOne} :
                  PostComment(t, a, on, by, s)
           \/ FindParent(t) \/ Insert(t) \/ Announce(t)
           \/ \E c \in Rows, by \in People, s \in Statuses : FindIssue(t, c, by, s)
           \/ SetIssueStatus(t) \/ Report(t) \/ Die(t)
    \/ \E c \in Rows : DeleteComment(c)
    \/ \E a \in Grounds : RemoveAsset(a)

WishNext ==
    \E t \in Threads :
        \/ SubmitWish(t) \/ AnnounceWish(t)
        \/ \E s \in Reviews, reason \in Reasons : FindWish(t, s, reason)
        \/ ReviewWish(t) \/ Report(t) \/ Die(t)

ReportNext ==
    \/ \E t \in Threads :
           \/ \E a \in Grounds, by \in People : CreateReport(t, a, by)
           \/ InsertReport(t) \/ AnnounceReport(t) \/ Die(t)
    \/ \E a \in Grounds : RemoveAsset(a)

CommunityNext == CommentNext \/ WishNext \/ ReportNext

CommunitySpec == CommunityInit /\ [][CommunityNext]_communityVars

-----------------------------------------------------------------------------
(* Properties.                                                             *)

\* c and every comment above it is live (the depth bounds the length of the chain).
Shown[c \in Rows] ==
    /\ c \in posted /\ ~comment[c].deleted
    /\ comment[c].parent # NoOne => Shown[comment[c].parent]

\* The replies of an asset form a tree, one level deeper each and of the asset of
\* their parent, whose row stays as long as theirs (CommentsService.create, the
\* cascade of the asset's removal).
RepliesFormTree ==
    \A c \in posted :
        LET p == comment[c].parent
        IN /\ comment[c].asset \in standing
           /\ p # NoOne => /\ p \in posted /\ comment[p].asset = comment[c].asset
                           /\ comment[c].depth = comment[p].depth + 1

\* The replies of an asset form a tree and its page has every live comment whose
\* ancestors are all live, and nothing else: the cap on the depth of replies and that
\* of the recursive query agree (CommentsService.create, fetchSubtree).
ThreadsComplete ==
    /\ RepliesFormTree
    /\ \A a \in Grounds : Listed(a) = {c \in posted : comment[c].asset = a /\ Shown[c]}

Busy(s) == \E t \in Threads : errand[t].on = s /\ errand[t].step \in {"tell", "report"}

Current(s) == IF s = Wish THEN wish ELSE IF s \in posted THEN comment[s].status ELSE NoOne

\* Whoever is concerned has heard: each comment was announced to the author of
\* what it answers or to the owner, and to nobody else, unless a process died;
\* and what the author of an issue or a request heard last is how it stands,
\* unless two changes were told out of turn or a process died between the two.
\* A report that stands was announced to the owner, unless it is his, and to the admin,
\* unless a job was lost (ReportsService.create).
NoticesExplained ==
    /\ \A n \in notices : n[1] \in Rows => n[2] = Addressee(n[1]) /\ n[2] # comment[n[1]].author
    /\ \A c \in posted : ~Busy(c) /\ c \notin unheard /\ Addressee(c) # comment[c].author =>
           <<c, Addressee(c)>> \in notices
    /\ complaint # NoOne /\ ~Busy(Complaint) /\ Complaint \notin unheard =>
           {n[2] : n \in {m \in notices : m[1] = Complaint}} = Concerned(complaint.by)
    /\ \A s \in Subjects : ~Busy(s) /\ s \notin muddled => told[s] = Current(s)
=============================================================================
