---------------------------------- MODULE Tags ----------------------------------
(***************************************************************************)
(* Tags and the assets that carry them: authors tag their assets             *)
(* (assets.service.ts, tags.service.ts) while admins merge, rename and       *)
(* remove tags (admin-tags.service.ts).                                      *)
(*                                                                         *)
(* A merge is one transaction at READ COMMITTED: each of its statements sees *)
(* what is committed when it starts, and its own effects show at the end.    *)
(* The rows it inserts keep their target from being deleted until then; the  *)
(* rows it skips, for assets that carry the target already, do not.          *)
(* An author's edit locks the tags it upserts, so that it is one step.       *)
(* Slugs, audit rows and the cached list of popular tags are left out: no    *)
(* code writes the usage counts that this list and the tags index are made   *)
(* from.                                                                     *)
(***************************************************************************)
EXTENDS FiniteSets, Naturals

CONSTANTS
    Curators,       \* requests of admins in flight
    Tagged,         \* assets
    Labels,         \* rows of tags: one written anew after its removal is another
    NoLabel,
    MaxAborts       \* bound: processes that die

ASSUME TagsAssumption == NoLabel \notin Labels /\ MaxAborts \in Nat

VARIABLES
    tag,        \* Tag rows
    gone,       \* those deleted
    link,       \* AssetTag rows: <<asset, tag>>
    task,       \* each admin's request: op, step, tags, what it has read
    wanted,     \* history: the links authors made, as merges renamed them
    raced,      \* history: links made or dropped while a merge or removal was under way
    stale,      \* assets whose labels changed since they were last marked dirty
    missed,     \* history: those among them that nobody will mark
    aborts

tagsVars == <<tag, gone, link, task, wanted, raced, stale, missed, aborts>>

Rest == [op |-> "none", step |-> "idle", from |-> NoLabel, into |-> NoLabel, touched |-> {}, moved |-> {}, added |-> {}]

TagsInit ==
    /\ tag = {} /\ gone = {} /\ link = {} /\ wanted = {}
    /\ task = [k \in Curators |-> Rest]
    /\ raced = {} /\ stale = {} /\ missed = {} /\ aborts = 0

Users(t) == {a \in Tagged : <<a, t>> \in link}
On(k, op, step) == task[k].op = op /\ task[k].step = step
Next_(k, step) == task' = [task EXCEPT ![k].step = step]
Over(k) == task' = [task EXCEPT ![k] = Rest]

\* Requests that will delete tag t with whatever carries it by then, having
\* looked at its links already.
Taking(t) == {k \in Curators : task[k].from = t /\ task[k].step = "delete"}

\* A merge that inserted links to t and has not committed holds its row.
Held(t, k) ==
    \E q \in Curators \ {k} : On(q, "merge", "delete") /\ task[q].into = t /\ task[q].added # {}

-----------------------------------------------------------------------------
\* The author's edit: upsertMany, deleteMany and createMany in one transaction.
\* Its spelling of a label becomes that of the tag, for all who carry it.
SetTags(a, ts, respelt) ==
    LET old == {t \in Labels : <<a, t>> \in link}
        others == UNION {Users(t) : t \in respelt} \ {a}
        keep == {l \in link : l[1] # a} \cup {<<a, t>> : t \in ts}
    IN /\ respelt \subseteq ts /\ ts # old /\ ts \cap gone = {}
       /\ tag' = tag \cup ts /\ link' = keep
       /\ wanted' = {l \in wanted : l[1] # a} \cup {<<a, t>> : t \in ts}
       /\ raced' = {l \in raced : l[1] # a \/ Taking(l[2]) # {}}
              \cup {<<a, t>> : t \in {x \in ts \cup old : Taking(x) # {}}}
       /\ stale' = (stale \cup others) \ {a} /\ missed' = (missed \cup others) \ {a}
       /\ UNCHANGED <<gone, task, aborts>>

-----------------------------------------------------------------------------
(* merge                                                                   *)

\* Both tags are found, and the assets to be marked dirty are read.
FindMerge(k, s, d) ==
    /\ task[k] = Rest /\ s # d /\ {s, d} \subseteq tag
    /\ task' = [task EXCEPT ![k] = [Rest EXCEPT !.op = "merge", !.step = "move",
                                    !.from = s, !.into = d, !.touched = Users(s)]]
    /\ UNCHANGED <<tag, gone, link, wanted, raced, stale, missed, aborts>>

\* INSERT ... SELECT ... ON CONFLICT DO NOTHING: the links it inserts (added) are
\* under the target's foreign key, those it finds there already are left alone.
MoveLinks(k) ==
    /\ On(k, "merge", "move")
    /\ LET missing == Users(task[k].from) \ Users(task[k].into)
       IN IF missing # {} /\ task[k].into \notin tag THEN Over(k)
          ELSE task' = [task EXCEPT ![k].step = "delete", ![k].moved = Users(task[k].from), ![k].added = missing]
    /\ UNCHANGED <<tag, gone, link, wanted, raced, stale, missed, aborts>>

Renamed(s, d) ==
    {<<l[1], IF l[2] = s THEN d ELSE l[2]>> : l \in wanted}

\* Mutant of DeleteMerged: the links of the source are not moved, they go with its row.
DeleteMergedOnly(k) ==
    /\ On(k, "merge", "delete") /\ ~Held(task[k].from, k)
    /\ LET s == task[k].from
       IN IF s \notin tag THEN Over(k) /\ UNCHANGED <<tag, gone, link, wanted, raced, stale, missed>>
          ELSE /\ tag' = tag \ {s} /\ gone' = gone \cup {s}
               /\ link' = {l \in link : l[2] # s}
               /\ wanted' = Renamed(s, task[k].into)
               /\ stale' = stale \cup task[k].touched
               /\ UNCHANGED <<raced, missed>>
               /\ Next_(k, "mark")
    /\ UNCHANGED aborts

\* The source goes with every link it has by now; the transaction commits,
\* unless another one deleted the source.
DeleteMerged(k) ==
    /\ On(k, "merge", "delete") /\ ~Held(task[k].from, k)
    /\ LET s == task[k].from
           d == task[k].into
           new == {<<a, d>> : a \in task[k].added}
           changed == Users(s) \cup {a \in task[k].added : <<a, d>> \notin link}
       IN IF s \notin tag THEN Over(k) /\ UNCHANGED <<tag, gone, link, wanted, raced, stale, missed>>
          ELSE /\ tag' = tag \ {s} /\ gone' = gone \cup {s}
               /\ link' = {l \in link : l[2] # s} \cup new
               /\ wanted' = Renamed(s, d)
               /\ raced' = {<<l[1], IF l[2] = s THEN d ELSE l[2]>> : l \in raced}
                      \cup IF Taking(d) \ {k} # {} \/ d \notin tag THEN {<<a, d>> : a \in task[k].moved} ELSE {}
               /\ stale' = stale \cup changed
               /\ missed' = missed \cup (changed \ task[k].touched)
               /\ Next_(k, "mark")
    /\ UNCHANGED aborts

\* Two merges that hold each other's source: Postgres ends one of them.
BreakDeadlock(k) ==
    /\ On(k, "merge", "delete")
    /\ \E q \in Curators \ {k} :
           /\ On(q, "merge", "delete") /\ task[q].into = task[k].from /\ task[k].into = task[q].from
           /\ task[q].added # {} /\ task[k].added # {}
    /\ Over(k)
    /\ UNCHANGED <<tag, gone, link, wanted, raced, stale, missed, aborts>>

-----------------------------------------------------------------------------
(* update and remove                                                       *)

\* The tag is found and its row written; then who carries it is read.
Rename(k, t) ==
    /\ task[k] = Rest /\ t \in tag
    /\ task' = [task EXCEPT ![k] = [Rest EXCEPT !.op = "rename", !.step = "users", !.from = t]]
    /\ stale' = stale \cup Users(t)
    /\ UNCHANGED <<tag, gone, link, wanted, raced, missed, aborts>>

ReadUsers(k) ==
    /\ On(k, "rename", "users")
    /\ task' = [task EXCEPT ![k].step = "mark", ![k].touched = Users(task[k].from)]
    /\ UNCHANGED <<tag, gone, link, wanted, raced, stale, missed, aborts>>

\* enqueueSearchIndex for each asset that was read.
MarkTouched(k) ==
    /\ task[k].step = "mark"
    /\ stale' = stale \ task[k].touched /\ missed' = missed \ task[k].touched
    /\ Over(k)
    /\ UNCHANGED <<tag, gone, link, wanted, raced, aborts>>

\* Only an unused tag is removed: the count comes first.
CountUses(k, t) ==
    /\ task[k] = Rest /\ t \in tag /\ Users(t) = {}
    /\ task' = [task EXCEPT ![k] = [Rest EXCEPT !.op = "remove", !.step = "delete", !.from = t]]
    /\ UNCHANGED <<tag, gone, link, wanted, raced, stale, missed, aborts>>

\* The links made since go along (ON DELETE CASCADE); nobody marks their assets.
DeleteTag(k) ==
    /\ On(k, "remove", "delete") /\ ~Held(task[k].from, k)
    /\ LET t == task[k].from
       IN /\ tag' = tag \ {t} /\ gone' = gone \cup (tag \cap {t})
          /\ link' = {l \in link : l[2] # t}
          /\ stale' = stale \cup Users(t) /\ missed' = missed \cup Users(t)
    /\ Over(k)
    /\ UNCHANGED <<wanted, raced, aborts>>

\* An open transaction is rolled back; what is committed and not marked stays so.
Abort(k) ==
    /\ task[k] # Rest
    /\ aborts < MaxAborts /\ aborts' = aborts + 1
    /\ missed' = missed \cup (IF task[k].step \in {"users", "mark"} THEN stale ELSE {})
    /\ Over(k)
    /\ UNCHANGED <<tag, gone, link, wanted, raced, stale>>

TagsNext ==
    \/ \E a \in Tagged, ts \in SUBSET Labels : \E respelt \in SUBSET ts : SetTags(a, ts, respelt)
    \/ \E k \in Curators :
           \/ \E s, d \in Labels : FindMerge(k, s, d)
           \/ MoveLinks(k) \/ DeleteMerged(k) \/ BreakDeadlock(k)
           \/ \E t \in Labels : Rename(k, t) \/ CountUses(k, t)
           \/ ReadUsers(k) \/ MarkTouched(k) \/ DeleteTag(k) \/ Abort(k)

TagsSpec == TagsInit /\ [][TagsNext]_tagsVars

-----------------------------------------------------------------------------
(* Properties.                                                             *)

\* An asset carries the tags its author gave it, as merges renamed them
\* (AdminTagsService.merge, remove): it loses one, or keeps one it was relieved
\* of, only if the author's edit or another merge fell between a statement that
\* read the links and the end of the merge or removal.  (Two opposite merges over
\* an asset that carries both tags may both commit, and both tags go.)  And an
\* asset whose labels changed will be marked for reindexing, unless it was not among those read, the
\* process died, or another author's spelling was adopted.
TagsExplained ==
    /\ wanted \ link \subseteq raced /\ link \ wanted \subseteq raced
    /\ \A a \in stale \ missed :
           \E k \in Curators : \/ task[k].step = "mark" /\ a \in task[k].touched
                               \/ task[k].step = "users" /\ a \in Users(task[k].from)
=============================================================================
