------------------------------- MODULE Versions -------------------------------
(***************************************************************************)
(* The versions of ONE asset and their files: which version is the latest   *)
(* and what the denormalised totals say.  The order in which the files are   *)
(* shown (nextSortOrder, reorderFiles) touches neither and is left out.      *)
(*                                                                         *)
(* A request is a list of steps, one per database call.  A version is        *)
(* identified with its semver: the unique index makes a second row with the  *)
(* same semver impossible.                                                  *)
(*                                                                         *)
(* Postgres runs at READ COMMITTED.  Of the transaction that publishes a     *)
(* version, updateMany selects the rows to clear from the rows committed     *)
(* when it starts, waits for those another transaction has locked and then   *)
(* looks at them again; rows that came to match meanwhile are not seen.      *)
(***************************************************************************)
EXTENDS Naturals, FiniteSets, Sequences

CONSTANTS
    Semvers,        \* the versions the asset can have
    First,          \* the one the asset is created with
    Files,          \* ids of the AssetFile rows
    Home,           \* the version each file is uploaded to
    Requests,       \* requests, and rollup jobs, in flight at a time
    Ops,            \* the operations of the run: a subset of DOMAIN Plan
    None,
    MaxCrashes      \* bound

ASSUME VersionsAssumption ==
    /\ IsFiniteSet(Files) /\ IsFiniteSet(Requests)
    /\ First \in Semvers /\ Home \in [Files -> Semvers]
    /\ None \notin Semvers \cup Files
    /\ Ops \subseteq {"initiate", "complete", "abort", "delete", "rollup", "publish"}
    /\ MaxCrashes \in Nat

VARIABLES
    versions,   \* AssetVersion rows
    latest,     \* those with isLatest
    row,        \* AssetFile row: "new", "present", "deleted"
    handle,     \* files with an upload handle in Redis
    total,      \* AssetVersion.fileCount; bytesTotal comes from the same aggregate
    todo, ver, file,    \* each request: steps left, its version, its file
    seen,       \* each request: what its last read returned
    lock,       \* each publish transaction: the version rows it has updated
    crashes,
    clean,      \* history: the publish transaction has met no other one
    overlapped, \* history: the last publish to commit was not clean
    slipped     \* history: versions whose totals were lost or overwritten

relVars == <<versions, latest, lock, clean, overlapped>>
fileVars == <<row, handle>>
reqVars == <<todo, ver, file, seen>>
vars == <<relVars, fileVars, total, reqVars, crashes, slipped>>

FilesOf(v) == {f \in Files : Home[f] = v /\ row[f] = "present"}
Actual(v) == Cardinality(FilesOf(v))

\* Mutant of Plan: deleteFile does not recount.
PlanWithoutRecount == [
    initiate |-> <<"create">>,
    complete |-> <<"measure", "tally", "total", "drop">>,
    abort    |-> <<"discard", "tally", "total", "drop">>,
    delete   |-> <<"remove">>,
    rollup   |-> <<"tally", "total">>,
    publish  |-> <<"select", "clear", "flip">>]

\* The steps of each operation after the checks it starts with.
Plan == [
    initiate |-> <<"create">>,
    complete |-> <<"measure", "tally", "total", "drop">>,
    abort    |-> <<"discard", "tally", "total", "drop">>,
    delete   |-> <<"remove", "tally", "total">>,
    rollup   |-> <<"tally", "total">>,
    publish  |-> <<"select", "clear", "flip">>]

Init ==
    /\ versions = {First} /\ latest = {First}
    /\ row = [f \in Files |-> "new"] /\ handle = {}
    /\ total = [v \in Semvers |-> 0]
    /\ todo = [r \in Requests |-> <<>>] /\ ver = [r \in Requests |-> None]
    /\ file = [r \in Requests |-> None] /\ seen = [r \in Requests |-> None]
    /\ lock = [r \in Requests |-> {}]
    /\ crashes = 0
    /\ clean = {} /\ overlapped = FALSE /\ slipped = {}

-----------------------------------------------------------------------------
(* Beginning and ending a request.                                         *)

CreateVersion(v) ==
    /\ v \notin versions
    /\ versions' = versions \cup {v}
    /\ UNCHANGED <<latest, lock, clean, overlapped, fileVars, total, reqVars,
                   crashes, slipped>>

\* publish refuses a version without files; the file operations start from a
\* handle or from a row.
Admits(op, v, f) ==
    CASE op = "initiate" -> f # None /\ row[f] = "new" /\ Home[f] = v
      [] op \in {"complete", "abort"} -> f \in handle /\ Home[f] = v
      [] op = "delete" -> f \in FilesOf(v)
      [] op = "publish" -> f = None /\ FilesOf(v) # {}
      [] OTHER -> f = None

Begin(r, op, v, f) ==
    /\ todo[r] = <<>> /\ v \in versions /\ Admits(op, v, f)
    /\ op = "initiate" => \A q \in Requests : file[q] # f
    /\ todo' = [todo EXCEPT ![r] = Plan[op]]
    /\ ver' = [ver EXCEPT ![r] = v] /\ file' = [file EXCEPT ![r] = f]
    /\ UNCHANGED <<relVars, fileVars, total, seen, crashes, slipped>>

At(r, s) == todo[r] # <<>> /\ Head(todo[r]) = s
Leave(r) ==
    /\ todo' = [todo EXCEPT ![r] = <<>>] /\ ver' = [ver EXCEPT ![r] = None]
    /\ file' = [file EXCEPT ![r] = None] /\ seen' = [seen EXCEPT ![r] = None]
Advance(r, read) ==
    IF Len(todo[r]) = 1 THEN Leave(r)
    ELSE /\ todo' = [todo EXCEPT ![r] = Tail(@)] /\ seen' = [seen EXCEPT ![r] = read]
         /\ UNCHANGED <<ver, file>>

\* A recount still to come will read the rows.
Owes(r) == \E i \in DOMAIN todo[r] : todo[r][i] = "tally"

\* The process dies, or S3 throws; a transaction rolls back.
Crash(r) ==
    /\ todo[r] # <<>> /\ crashes < MaxCrashes
    /\ crashes' = crashes + 1
    /\ Leave(r)
    /\ lock' = [lock EXCEPT ![r] = {}] /\ clean' = clean \ {r}
    /\ slipped' = slipped \cup IF total[ver[r]] # Actual(ver[r]) THEN {ver[r]} ELSE {}
    /\ UNCHANGED <<versions, latest, overlapped, fileVars, total>>

-----------------------------------------------------------------------------
(* Files.                                                                  *)

CreateFile(r) ==
    LET f == file[r] IN
    /\ At(r, "create")
    /\ row' = [row EXCEPT ![f] = "present"]
    /\ handle' = handle \cup {f}
    /\ Advance(r, None)
    /\ UNCHANGED <<relVars, total, crashes, slipped>>

\* The object's size goes into the row, which may be gone.
MeasureFile(r) ==
    /\ At(r, "measure")
    /\ IF row[file[r]] = "present" THEN Advance(r, None) ELSE Leave(r)
    /\ UNCHANGED <<relVars, fileVars, total, crashes, slipped>>

DropHandle(r) ==
    /\ At(r, "drop")
    /\ handle' = handle \ {file[r]}
    /\ Advance(r, None)
    /\ UNCHANGED <<relVars, row, total, crashes, slipped>>

\* abortMultipart swallows a missing row, deleteFile throws.
RemoveFile(r) ==
    LET f == file[r] IN
    /\ At(r, "discard") \/ At(r, "remove")
    /\ IF At(r, "remove") /\ row[f] # "present"
       THEN Leave(r) /\ UNCHANGED row
       ELSE row' = [row EXCEPT ![f] = "deleted"] /\ Advance(r, None)
    /\ UNCHANGED <<relVars, handle, total, crashes, slipped>>

\* The handle outlives its TTL: nobody can complete or abort the upload.
ExpireHandle(f) ==
    /\ f \in handle
    /\ handle' = handle \ {f}
    /\ slipped' = slipped \cup IF total[Home[f]] # Actual(Home[f]) THEN {Home[f]} ELSE {}
    /\ UNCHANGED <<relVars, row, total, reqVars, crashes>>

\* recountVersion, and the rollup that reads the files with their version.
Tally(r) ==
    /\ At(r, "tally")
    /\ Advance(r, Actual(ver[r]))
    /\ UNCHANGED <<relVars, fileVars, total, crashes, slipped>>

WriteTotals(r) ==
    LET v == ver[r] IN
    /\ At(r, "total")
    /\ total' = [total EXCEPT ![v] = seen[r]]
    /\ slipped' = IF seen[r] = Actual(v) THEN slipped \ {v} ELSE slipped \cup {v}
    /\ Advance(r, None)
    /\ UNCHANGED <<relVars, fileVars, crashes>>

-----------------------------------------------------------------------------
(* Publishing a version: updateMany (select, clear) and update (flip).      *)

Publishing == {r \in Requests : \E i \in DOMAIN todo[r] : todo[r][i] = "flip"} \
              {r \in Requests : At(r, "select")}

SelectLatest(r) ==
    /\ At(r, "select")
    /\ clean' = IF Publishing = {} THEN clean \cup {r} ELSE clean \ Publishing
    /\ Advance(r, latest \ {ver[r]})
    /\ UNCHANGED <<versions, latest, lock, overlapped, fileVars, total, crashes,
                   slipped>>

Blocked(r, rows) == \E q \in Requests \ {r} : rows \cap lock[q] # {}

\* Rows that no longer match once their lock is free are left alone.
ClearLatest(r) ==
    /\ At(r, "clear") /\ ~Blocked(r, seen[r])
    /\ lock' = [lock EXCEPT ![r] = seen[r] \cap latest]
    /\ Advance(r, None)
    /\ UNCHANGED <<versions, latest, clean, overlapped, fileVars, total, crashes,
                   slipped>>

\* Mutant of Flip: the flag of the previous winner stays.
FlipOnly(r) ==
    /\ At(r, "flip") /\ ~Blocked(r, {ver[r]})
    /\ latest' = latest \cup {ver[r]}
    /\ lock' = [lock EXCEPT ![r] = {}]
    /\ overlapped' = (r \notin clean) /\ clean' = clean \ {r}
    /\ Advance(r, None)
    /\ UNCHANGED <<versions, fileVars, total, crashes, slipped>>

\* The second update and the commit.
Flip(r) ==
    /\ At(r, "flip") /\ ~Blocked(r, {ver[r]})
    /\ latest' = (latest \ lock[r]) \cup {ver[r]}
    /\ lock' = [lock EXCEPT ![r] = {}]
    /\ overlapped' = (r \notin clean) /\ clean' = clean \ {r}
    /\ Advance(r, None)
    /\ UNCHANGED <<versions, fileVars, total, crashes, slipped>>

\* Two publishes wait for each other's row; Postgres aborts one.
DeadlockAbort(r) ==
    /\ At(r, "flip")
    /\ \E q \in Requests \ {r} : At(q, "flip") /\ ver[r] \in lock[q] /\ ver[q] \in lock[r]
    /\ Leave(r)
    /\ lock' = [lock EXCEPT ![r] = {}] /\ clean' = clean \ {r}
    /\ UNCHANGED <<versions, latest, overlapped, fileVars, total, crashes, slipped>>

-----------------------------------------------------------------------------
Step(r) ==
    \/ CreateFile(r) \/ MeasureFile(r) \/ RemoveFile(r) \/ DropHandle(r)
    \/ Tally(r) \/ WriteTotals(r)
    \/ SelectLatest(r) \/ ClearLatest(r) \/ Flip(r) \/ DeadlockAbort(r)

Next ==
    \/ \E v \in Semvers : CreateVersion(v)
    \/ \E f \in Files : ExpireHandle(f)
    \/ \E r \in Requests : Step(r) \/ Crash(r)
    \/ \E r \in Requests, op \in Ops, v \in Semvers, f \in Files \cup {None} : Begin(r, op, v, f)

Spec == Init /\ [][Next]_vars

-----------------------------------------------------------------------------
(* Properties.                                                             *)

\* Types of the variables; row locks last until the second update commits.
TypeOK ==
    /\ First \in versions /\ versions \subseteq Semvers
    /\ latest \subseteq versions
    /\ row \in [Files -> {"new", "present", "deleted"}]
    /\ handle \subseteq Files
    /\ total \in [Semvers -> 0 .. Cardinality(Files)]
    /\ ver \in [Requests -> Semvers \cup {None}] /\ file \in [Requests -> Files \cup {None}]
    /\ lock \in [Requests -> SUBSET versions]
    /\ \A r \in Requests : lock[r] # {} => At(r, "flip")
    /\ crashes \in 0 .. MaxCrashes
    /\ clean \subseteq Requests /\ slipped \subseteq versions

\* There is always a latest version, and only one unless the last publish to
\* commit had run alongside another: the transaction protects against a crash
\* between its updates, not against a second transaction.
OneLatest ==
    /\ latest # {}
    /\ Cardinality(latest) > 1 => overlapped

\* The totals of a version are those of its files, or will be put right by an
\* upload that is still open or a recount still to come, unless a recount was
\* overtaken, lost in a crash, or its upload abandoned.  No operation that adds,
\* measures or removes a file fails to recount.
TotalsExplained ==
    \A v \in versions :
        \/ total[v] = Actual(v) \/ v \in slipped
        \/ \E f \in handle : f \in FilesOf(v)
        \/ \E r \in Requests : ver[r] = v /\ (Owes(r) \/ At(r, "total"))
=============================================================================
