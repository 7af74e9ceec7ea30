---------------------------- MODULE VersionsProofs ----------------------------
(***************************************************************************)
(* The latest version and the denormalised totals of an asset (Versions), its *)
(* compatibility (Compatibility), its files and their objects (FileStore), an *)
(* upload in parts (Multipart) and the order of the files (FileOrder), for any *)
(* number of versions, files, parts, requests and crashes.                  *)
(***************************************************************************)
EXTENDS Versions, Compatibility, FileStore, Multipart, FileOrder, FiniteSetTheorems, WellFoundedInduction, TLAPS

-----------------------------------------------------------------------------
(* The step lists: the operations of Plan and what is left of them.         *)

\* Those of requests about a file.
FileLists ==
    {<<"create">>,
     <<"measure", "tally", "total", "drop">>, <<"discard", "tally", "total", "drop">>,
     <<"tally", "total", "drop">>, <<"total", "drop">>, <<"drop">>,
     <<"remove", "tally", "total">>}

\* Those of rollups and of what recounts on its own.
RecountLists == {<<"tally", "total">>, <<"total">>}

\* Those of a publication.
PublishLists == {<<"select", "clear", "flip">>, <<"clear", "flip">>, <<"flip">>}

\* All of them.
Lists == {<<>>} \cup FileLists \cup RecountLists \cup PublishLists

\* What the head of a list says about it.
LEMMA ListAt ==
    ASSUME NEW s \in Lists
    PROVE  /\ s # <<>> /\ Head(s) = "create" <=> s = <<"create">>
           /\ s # <<>> /\ Head(s) = "measure" <=> s = <<"measure", "tally", "total", "drop">>
           /\ s # <<>> /\ Head(s) = "discard" <=> s = <<"discard", "tally", "total", "drop">>
           /\ s # <<>> /\ Head(s) = "remove" <=> s = <<"remove", "tally", "total">>
           /\ s # <<>> /\ Head(s) = "drop" <=> s = <<"drop">>
           /\ s # <<>> /\ Head(s) = "tally" <=> s = <<"tally", "total", "drop">> \/ s = <<"tally", "total">>
           /\ s # <<>> /\ Head(s) = "total" <=> s = <<"total", "drop">> \/ s = <<"total">>
           /\ s # <<>> /\ Head(s) = "select" <=> s = <<"select", "clear", "flip">>
           /\ s # <<>> /\ Head(s) = "clear" <=> s = <<"clear", "flip">>
           /\ s # <<>> /\ Head(s) = "flip" <=> s = <<"flip">>
           /\ s # <<>> /\ Head(s) = "tally" => \E i \in DOMAIN s : s[i] = "tally"
           /\ (\E i \in DOMAIN s : s[i] = "flip") <=> s \in PublishLists
<1>1. CASE s = <<>>
  BY <1>1 DEF PublishLists
<1>2. CASE s \in FileLists
  BY <1>2 DEF FileLists, PublishLists
<1>3. CASE s \in RecountLists
  BY <1>3 DEF RecountLists, PublishLists
<1>4. CASE s \in PublishLists
  BY <1>4 DEF PublishLists
<1> QED BY <1>1, <1>2, <1>3, <1>4 DEF Lists

\* What is left of a list is a list again: that of an operation on a file until
\* its end or the recount that a delete ends with.
LEMMA ListTail ==
    ASSUME NEW s \in Lists, s # <<>>
    PROVE  /\ Tail(s) \in Lists
           /\ (Len(s) = 1) <=> (Tail(s) = <<>>)
           /\ Tail(s) \in FileLists => s \in FileLists
           /\ Tail(s) \notin {<<"tally", "total", "drop">>, <<"tally", "total">>}
                  => Head(s) \notin {"measure", "discard", "remove"}
           /\ Head(s) = "tally" => Tail(s) = <<"total", "drop">> \/ Tail(s) = <<"total">>
           /\ Head(s) = "total" => Tail(s) = <<"drop">> \/ Tail(s) = <<>>
           /\ Head(s) \in {"create", "drop", "flip"} => Tail(s) = <<>>
           /\ Head(s) = "select" => Tail(s) = <<"clear", "flip">>
           /\ Head(s) = "clear" => Tail(s) = <<"flip">>
           /\ Tail(s) \in {<<"total", "drop">>, <<"total">>} => Head(s) = "tally"
           /\ Tail(s) = <<"drop">> => Head(s) = "total"
           /\ Tail(s) = <<"clear", "flip">> => Head(s) = "select"
           /\ Tail(s) = <<"flip">> => Head(s) = "clear"
           /\ Tail(s) \notin {<<"create">>, <<"select", "clear", "flip">>}
<1> USE DEF Lists, FileLists, RecountLists, PublishLists
<1>1. CASE s = <<"create">>
  BY <1>1
<1>2. CASE s = <<"measure", "tally", "total", "drop">>
  BY <1>2
<1>3. CASE s = <<"discard", "tally", "total", "drop">>
  BY <1>3
<1>4. CASE s = <<"tally", "total", "drop">>
  BY <1>4
<1>5. CASE s = <<"total", "drop">>
  BY <1>5
<1>6. CASE s = <<"drop">>
  BY <1>6
<1>7. CASE s = <<"remove", "tally", "total">>
  BY <1>7
<1>8. CASE s = <<"tally", "total">>
  BY <1>8
<1>9. CASE s = <<"total">>
  BY <1>9
<1>10. CASE s = <<"select", "clear", "flip">>
  BY <1>10
<1>11. CASE s = <<"clear", "flip">>
  BY <1>11
<1>12. CASE s = <<"flip">>
  BY <1>12
<1> QED BY <1>1, <1>2, <1>3, <1>4, <1>5, <1>6, <1>7, <1>8, <1>9, <1>10, <1>11, <1>12

\* The requests: what each holds while it has steps left.
Requested ==
    /\ todo \in [Requests -> Lists]
    /\ ver \in [Requests -> Semvers \cup {None}] /\ file \in [Requests -> Files \cup {None}]
    /\ seen \in [Requests -> {None} \cup Nat \cup SUBSET Semvers]
    /\ \A r \in Requests :
           /\ todo[r] # <<>> => ver[r] \in versions
           /\ todo[r] \in FileLists => file[r] \in Files /\ Home[file[r]] = ver[r]
           /\ At(r, "total") => seen[r] \in 0 .. Cardinality(Files)
           /\ At(r, "clear") => seen[r] \in SUBSET versions

\* Versions, files and totals, apart from the requests.
Stored ==
    /\ First \in versions /\ versions \subseteq Semvers /\ latest \subseteq versions
    /\ row \in [Files -> {"new", "present", "deleted"}] /\ handle \subseteq Files
    /\ total \in [Semvers -> 0 .. Cardinality(Files)]
    /\ lock \in [Requests -> SUBSET versions]
    /\ crashes \in 0 .. MaxCrashes
    /\ clean \subseteq Requests /\ slipped \subseteq versions
    /\ \A f \in Files : f \in handle \/ row[f] = "present" => Home[f] \in versions
    /\ \A v \in Semvers \ versions : total[v] = 0

\* A publish transaction holds row locks only between its two updates.
Locking == \A r \in Requests : lock[r] # {} => At(r, "flip")

\* The types, with what the code makes of them.
VersionsInv == Requested /\ Stored /\ Locking

\* A request that takes a step.
Moved(r, read) ==
    /\ todo' = [todo EXCEPT ![r] = Tail(todo[r])]
    /\ ver' = [ver EXCEPT ![r] = IF Tail(todo[r]) = <<>> THEN None ELSE ver[r]]
    /\ file' = [file EXCEPT ![r] = IF Tail(todo[r]) = <<>> THEN None ELSE file[r]]
    /\ seen' = [seen EXCEPT ![r] = IF Tail(todo[r]) = <<>> THEN None ELSE read]

\* Advance is such a step.
LEMMA AdvanceMoves ==
    ASSUME Requested, NEW r \in Requests, NEW read, todo[r] # <<>>, Advance(r, read)
    PROVE  Moved(r, read)
<1>1. /\ todo[r] \in Lists
      /\ (Len(todo[r]) = 1) <=> (Tail(todo[r]) = <<>>)
  BY ListTail DEF Requested
<1>2. CASE Len(todo[r]) = 1
  BY <1>1, <1>2 DEF Requested, Advance, Leave, Moved
<1>3. CASE Len(todo[r]) # 1
  BY <1>1, <1>3 DEF Requested, Advance, Moved
<1> QED BY <1>2, <1>3

\* Such a step keeps what the requests hold, if what it read has the type that
\* its next step expects.
LEMMA MoveRequested ==
    ASSUME Requested, versions \subseteq versions', NEW r \in Requests, todo[r] # <<>>,
           NEW read \in {None} \cup Nat \cup SUBSET Semvers, Moved(r, read),
           At(r, "tally") => read \in 0 .. Cardinality(Files),
           At(r, "select") => read \in SUBSET versions
    PROVE  Requested'
<1>1. todo[r] \in Lists /\ Tail(todo[r]) \in Lists
  BY ListTail DEF Requested
<1>2. todo' \in [Requests -> Lists]
  BY <1>1 DEF Requested, Moved
<1>3. /\ ver' \in [Requests -> Semvers \cup {None}] /\ file' \in [Requests -> Files \cup {None}]
      /\ seen' \in [Requests -> {None} \cup Nat \cup SUBSET Semvers]
  BY DEF Requested, Moved
<1>4. ASSUME NEW q \in Requests
      PROVE  /\ todo'[q] # <<>> => ver'[q] \in versions'
             /\ todo'[q] \in FileLists => file'[q] \in Files /\ Home[file'[q]] = ver'[q]
             /\ At(q, "total")' => seen'[q] \in 0 .. Cardinality(Files)
             /\ At(q, "clear")' => seen'[q] \in SUBSET versions'
  <2>1. CASE q # r
    BY <2>1 DEF Requested, Moved, At
  <2>2. CASE q = r
    <3>1. todo'[r] = Tail(todo[r])
      BY DEF Requested, Moved
    <3>2. todo'[r] # <<>> => ver'[r] = ver[r] /\ file'[r] = file[r] /\ seen'[r] = read
      BY <3>1 DEF Requested, Moved
    <3>3. <<>> \notin FileLists
      BY DEF FileLists
    <3>4. todo'[r] \in FileLists => file'[r] \in Files /\ Home[file'[r]] = ver'[r]
      BY <1>1, <3>1, <3>2, <3>3, ListTail DEF Requested
    <3>5. At(r, "total")' => At(r, "tally") /\ todo'[r] # <<>>
      <4>1. At(r, "total")' => todo'[r] \in {<<"total", "drop">>, <<"total">>}
        BY <1>2, ListAt DEF At
      <4> QED BY <1>1, <3>1, <4>1, ListTail DEF At
    <3>6. At(r, "clear")' => At(r, "select") /\ todo'[r] # <<>>
      <4>1. At(r, "clear")' => todo'[r] = <<"clear", "flip">>
        BY <1>2, ListAt DEF At
      <4> QED BY <1>1, <3>1, <4>1, ListTail DEF At
    <3> QED BY <2>2, <3>2, <3>4, <3>5, <3>6 DEF Requested
  <2> QED BY <2>1, <2>2
<1> QED BY <1>2, <1>3, <1>4 DEF Requested

\* So does the end of a request, wherever it comes.
LEMMA LeaveRequested ==
    ASSUME Requested, versions' = versions, NEW r \in Requests, Leave(r)
    PROVE  Requested'
<1>1. <<>> \notin FileLists /\ <<>> \in Lists
  BY DEF FileLists, Lists
<1>2. /\ todo' \in [Requests -> Lists]
      /\ ver' \in [Requests -> Semvers \cup {None}] /\ file' \in [Requests -> Files \cup {None}]
      /\ seen' \in [Requests -> {None} \cup Nat \cup SUBSET Semvers]
  BY <1>1 DEF Requested, Leave
<1>3. ASSUME NEW q \in Requests
      PROVE  /\ todo'[q] # <<>> => ver'[q] \in versions'
             /\ todo'[q] \in FileLists => file'[q] \in Files /\ Home[file'[q]] = ver'[q]
             /\ At(q, "total")' => seen'[q] \in 0 .. Cardinality(Files)
             /\ At(q, "clear")' => seen'[q] \in SUBSET versions'
  BY <1>1 DEF Requested, Leave, At
<1> QED BY <1>2, <1>3 DEF Requested

\* Nobody counts more files than there are.
LEMMA ActualType ==
    ASSUME NEW v PROVE Actual(v) \in 0 .. Cardinality(Files) /\ Cardinality(Files) \in Nat
<1>1. FilesOf(v) \subseteq Files /\ IsFiniteSet(Files)
  BY VersionsAssumption DEF FilesOf
<1> QED BY <1>1, FS_Subset, FS_CardinalityType DEF Actual

\* The beginning of a request.
LEMMA BeginRequested ==
    ASSUME VersionsInv, NEW r \in Requests, NEW op \in Ops, NEW v \in Semvers,
           NEW f \in Files \cup {None}, Begin(r, op, v, f)
    PROVE  VersionsInv'
<1> USE DEF VersionsInv
<1>1. Plan[op] \in Lists /\ Plan[op] \notin {<<"total", "drop">>, <<"total">>, <<"clear", "flip">>, <<"flip">>}
  BY VersionsAssumption DEF Plan, Lists, FileLists, RecountLists, PublishLists
<1>2. Plan[op] \in FileLists => f \in Files /\ Home[f] = v
  <2>1. CASE op \in {"initiate", "complete", "abort", "delete"}
    BY <2>1 DEF Begin, Admits, FilesOf, Stored
  <2>2. CASE op \in {"rollup", "publish"}
    BY <2>2 DEF Plan, FileLists
  <2> QED BY <2>1, <2>2, VersionsAssumption
<1>3. /\ todo' \in [Requests -> Lists]
      /\ ver' \in [Requests -> Semvers \cup {None}] /\ file' \in [Requests -> Files \cup {None}]
      /\ seen' = seen /\ versions' = versions /\ v \in versions
  BY <1>1 DEF Requested, Begin, relVars
<1>4. ASSUME NEW q \in Requests
      PROVE  /\ todo'[q] # <<>> => ver'[q] \in versions'
             /\ todo'[q] \in FileLists => file'[q] \in Files /\ Home[file'[q]] = ver'[q]
             /\ At(q, "total")' => seen'[q] \in 0 .. Cardinality(Files)
             /\ At(q, "clear")' => seen'[q] \in SUBSET versions'
  <2>1. CASE q # r
    BY <1>3, <2>1 DEF Requested, Begin, At
  <2>2. CASE q = r
    <3>1. todo'[q] = Plan[op] /\ ver'[q] = v /\ file'[q] = f
      BY <2>2 DEF Requested, Begin
    <3>2. ~At(q, "total")' /\ ~At(q, "clear")'
      BY <1>1, <3>1, ListAt DEF At
    <3> QED BY <1>2, <1>3, <3>1, <3>2
  <2> QED BY <2>1, <2>2
<1>5. Requested'
  BY <1>3, <1>4 DEF Requested
<1>6. Stored'
  BY DEF Stored, Begin, relVars, fileVars
<1>7. Locking'
  BY DEF Locking, At, Begin, Requested, relVars
<1> QED BY <1>5, <1>6, <1>7

\* A step that moves one request, and takes or releases no lock.
LEMMA UnlockedMove ==
    ASSUME VersionsInv, versions' = versions, NEW r \in Requests, todo[r] # <<>>, ~At(r, "flip"),
           lock' = lock,
           \/ Leave(r)
           \/ \E read \in {None} \cup Nat \cup SUBSET Semvers :
                  /\ Advance(r, read)
                  /\ At(r, "tally") => read \in 0 .. Cardinality(Files)
                  /\ At(r, "select") => read \in SUBSET versions
    PROVE  Requested' /\ Locking'
<1> USE DEF VersionsInv
<1>1. CASE Leave(r)
  <2>1. Locking'
    BY <1>1 DEF Leave, Locking, At, Requested
  <2> QED BY <1>1, <2>1, LeaveRequested
<1>2. ASSUME NEW read \in {None} \cup Nat \cup SUBSET Semvers, Advance(r, read),
             At(r, "tally") => read \in 0 .. Cardinality(Files),
             At(r, "select") => read \in SUBSET versions
      PROVE  Requested' /\ Locking'
  <2>1. Moved(r, read)
    BY <1>2, AdvanceMoves
  <2>2. Locking'
    BY <2>1 DEF Moved, Locking, At, Requested
  <2> QED BY <1>2, <2>1, <2>2, MoveRequested
<1> QED BY <1>1, <1>2

\* The steps on files.
LEMMA FileStepTypes ==
    ASSUME VersionsInv, NEW r \in Requests,
           CreateFile(r) \/ MeasureFile(r) \/ RemoveFile(r) \/ DropHandle(r)
    PROVE  VersionsInv'
<1> USE DEF VersionsInv, relVars, fileVars
<1>1. todo[r] \in Lists /\ (todo[r] \in FileLists => file[r] \in Files /\ Home[file[r]] \in versions)
  <2>1. <<>> \notin FileLists
    BY DEF FileLists
  <2> QED BY <2>1 DEF Requested
<1>2. \A step \in {"create", "measure", "discard", "remove", "drop"} :
          At(r, step) => todo[r] \in FileLists /\ todo[r] # <<>> /\ ~At(r, "flip")
                         /\ ~At(r, "tally") /\ ~At(r, "select")
  BY <1>1, ListAt DEF At, FileLists
<1>3. ASSUME versions' = versions, lock' = lock, ~At(r, "flip"), todo[r] # <<>>, ~At(r, "tally"),
             ~At(r, "select"), Leave(r) \/ Advance(r, None)
      PROVE  Requested' /\ Locking'
  BY <1>3, UnlockedMove
<1>4. CASE CreateFile(r)
  <2>1. At(r, "create")
    BY <1>4 DEF CreateFile
  <2>2. Requested' /\ Locking'
    BY <1>2, <1>3, <1>4, <2>1 DEF CreateFile
  <2>3. Stored'
    BY <1>1, <1>2, <1>4, <2>1 DEF CreateFile, Stored
  <2> QED BY <2>2, <2>3
<1>5. CASE MeasureFile(r)
  <2>1. At(r, "measure")
    BY <1>5 DEF MeasureFile
  <2>2. Requested' /\ Locking'
    BY <1>2, <1>3, <1>5, <2>1 DEF MeasureFile
  <2>3. Stored'
    BY <1>5 DEF MeasureFile, Stored
  <2> QED BY <2>2, <2>3
<1>6. CASE RemoveFile(r)
  <2>1. At(r, "discard") \/ At(r, "remove")
    BY <1>6 DEF RemoveFile
  <2>2. Requested' /\ Locking'
    BY <1>2, <1>3, <1>6, <2>1 DEF RemoveFile
  <2>3. Stored'
    BY <1>1, <1>2, <1>6, <2>1 DEF RemoveFile, Stored
  <2> QED BY <2>2, <2>3
<1>7. CASE DropHandle(r)
  <2>1. At(r, "drop")
    BY <1>7 DEF DropHandle
  <2>2. Requested' /\ Locking'
    BY <1>2, <1>3, <1>7, <2>1 DEF DropHandle
  <2>3. Stored'
    BY <1>7 DEF DropHandle, Stored
  <2> QED BY <2>2, <2>3
<1> QED BY <1>4, <1>5, <1>6, <1>7

\* Recounting.
LEMMA RecountTypes ==
    ASSUME VersionsInv, NEW r \in Requests, Tally(r) \/ WriteTotals(r)
    PROVE  VersionsInv'
<1> USE DEF VersionsInv, relVars, fileVars
<1>1. CASE Tally(r)
  <2>1. At(r, "tally") /\ todo[r] # <<>> /\ ~At(r, "flip") /\ ~At(r, "select")
    BY <1>1, ListAt DEF Tally, At, Requested
  <2>2. Actual(ver[r]) \in 0 .. Cardinality(Files) /\ Actual(ver[r]) \in Nat
    BY ActualType
  <2>3. Requested' /\ Locking'
    BY <1>1, <2>1, <2>2, UnlockedMove DEF Tally
  <2>4. Stored'
    BY <1>1 DEF Tally, Stored
  <2> QED BY <2>3, <2>4
<1>2. CASE WriteTotals(r)
  <2>1. At(r, "total") /\ todo[r] # <<>> /\ ~At(r, "flip") /\ ~At(r, "tally") /\ ~At(r, "select")
    BY <1>2, ListAt DEF WriteTotals, At, Requested
  <2>2. Requested' /\ Locking'
    BY <1>2, <2>1, UnlockedMove DEF WriteTotals
  <2>3. ver[r] \in versions /\ seen[r] \in 0 .. Cardinality(Files)
    BY <2>1 DEF Requested
  <2>4. Stored'
    BY <1>2, <2>3 DEF WriteTotals, Stored
  <2> QED BY <2>2, <2>4
<1> QED BY <1>1, <1>2

\* Publishing.
LEMMA PublishTypes ==
    ASSUME VersionsInv, NEW r \in Requests,
           SelectLatest(r) \/ ClearLatest(r) \/ Flip(r) \/ DeadlockAbort(r)
    PROVE  VersionsInv'
<1> USE DEF VersionsInv, fileVars
<1>1. CASE SelectLatest(r)
  <2>1. At(r, "select") /\ todo[r] # <<>> /\ ~At(r, "flip") /\ ~At(r, "tally")
    BY <1>1, ListAt DEF SelectLatest, At, Requested
  <2>2. latest \ {ver[r]} \in SUBSET versions /\ latest \ {ver[r]} \in SUBSET Semvers
    BY DEF Stored
  <2>3. Requested' /\ Locking'
    BY <1>1, <2>1, <2>2, UnlockedMove DEF SelectLatest
  <2>4. Stored'
    BY <1>1 DEF SelectLatest, Stored, Publishing
  <2> QED BY <2>3, <2>4
<1>2. CASE ClearLatest(r)
  <2>1. At(r, "clear") /\ todo[r] = <<"clear", "flip">> /\ ~At(r, "tally") /\ ~At(r, "select")
    BY <1>2, ListAt DEF ClearLatest, At, Requested
  <2>2. Moved(r, None) /\ todo[r] # <<>>
    BY <1>2, <2>1, AdvanceMoves DEF ClearLatest, At
  <2>3. Requested'
    BY <1>2, <2>1, <2>2, MoveRequested DEF ClearLatest
  <2>4. todo'[r] = <<"flip">>
    BY <2>1, <2>2 DEF Moved, Requested
  <2>5. ASSUME NEW q \in Requests, lock'[q] # {} PROVE At(q, "flip")'
    <3>1. CASE q = r
      <4>1. <<"flip">> # <<>> /\ Head(<<"flip">>) = "flip"
        OBVIOUS
      <4> QED BY <2>4, <3>1, <4>1 DEF At
    <3>2. CASE q # r
      BY <1>2, <2>2, <2>5, <3>2 DEF ClearLatest, Locking, At, Moved, Requested, Stored
    <3> QED BY <3>1, <3>2
  <2>6. Stored'
    BY <1>2, <2>1 DEF ClearLatest, Stored, Requested
  <2> QED BY <2>3, <2>5, <2>6 DEF Locking
<1>3. CASE Flip(r)
  <2>1. At(r, "flip") /\ todo[r] # <<>> /\ ~At(r, "tally") /\ ~At(r, "select")
    BY <1>3, ListAt DEF Flip, At, Requested
  <2>2. Moved(r, None)
    BY <1>3, <2>1, AdvanceMoves DEF Flip
  <2>3. Requested'
    BY <1>3, <2>1, <2>2, MoveRequested DEF Flip
  <2>4. Locking'
    BY <1>3, <2>2 DEF Flip, Locking, At, Moved, Requested, Stored
  <2>5. Stored'
    BY <1>3, <2>1 DEF Flip, Stored, Requested
  <2> QED BY <2>3, <2>4, <2>5
<1>4. CASE DeadlockAbort(r)
  <2>1. Requested'
    BY <1>4, LeaveRequested DEF DeadlockAbort
  <2>2. Locking'
    BY <1>4 DEF DeadlockAbort, Leave, Locking, At, Requested, Stored
  <2>3. Stored'
    BY <1>4 DEF DeadlockAbort, Stored
  <2> QED BY <2>1, <2>2, <2>3
<1> QED BY <1>1, <1>2, <1>3, <1>4

\* The other steps: versions, handles that expire, crashes.
LEMMA OtherTypes ==
    ASSUME VersionsInv,
           \/ \E v \in Semvers : CreateVersion(v)
           \/ \E f \in Files : ExpireHandle(f)
           \/ \E r \in Requests : Crash(r)
           \/ UNCHANGED vars
    PROVE  VersionsInv'
<1> USE DEF VersionsInv, fileVars
<1>1. ASSUME NEW v \in Semvers, CreateVersion(v) PROVE VersionsInv'
  <2>1. Requested'
    BY <1>1 DEF CreateVersion, Requested, At, reqVars
  <2>2. Stored' /\ Locking'
    BY <1>1 DEF CreateVersion, Stored, Locking, At, reqVars
  <2> QED BY <2>1, <2>2
<1>2. ASSUME NEW f \in Files, ExpireHandle(f) PROVE VersionsInv'
  <2>1. Requested' /\ Locking'
    BY <1>2 DEF ExpireHandle, Requested, Locking, At, reqVars, relVars
  <2>2. Stored'
    BY <1>2 DEF ExpireHandle, Stored, relVars
  <2> QED BY <2>1, <2>2
<1>3. ASSUME NEW r \in Requests, Crash(r) PROVE VersionsInv'
  <2>1. Requested'
    BY <1>3, LeaveRequested DEF Crash
  <2>2. Locking'
    BY <1>3 DEF Crash, Leave, Locking, At, Requested, Stored
  <2>3. ver[r] \in versions
    BY <1>3 DEF Crash, Requested
  <2>4. crashes' \in 0 .. MaxCrashes
    BY <1>3, VersionsAssumption DEF Crash, Stored
  <2>5. Stored'
    BY <1>3, <2>3, <2>4 DEF Crash, Stored
  <2> QED BY <2>1, <2>2, <2>5
<1>4. CASE UNCHANGED vars
  <2>1. Requested' /\ Locking'
    BY <1>4 DEF vars, relVars, reqVars, Requested, Locking, At
  <2>2. Stored'
    BY <1>4 DEF vars, relVars, reqVars, Stored
  <2> QED BY <2>1, <2>2
<1> QED BY <1>1, <1>2, <1>3, <1>4

\* Every step keeps the types.
LEMMA StepTypes == VersionsInv /\ [Next]_vars => VersionsInv'
<1> SUFFICES ASSUME VersionsInv, [Next]_vars PROVE VersionsInv'
  OBVIOUS
<1>1. ASSUME NEW r \in Requests, Step(r) PROVE VersionsInv'
  BY <1>1, FileStepTypes, RecountTypes, PublishTypes DEF Step
<1>2. ASSUME NEW r \in Requests, NEW op \in Ops, NEW v \in Semvers,
             NEW f \in Files \cup {None}, Begin(r, op, v, f)
      PROVE  VersionsInv'
  BY <1>2, BeginRequested
<1> QED BY <1>1, <1>2, OtherTypes DEF Next

\* They hold at first.
LEMMA InitTypes == Init => VersionsInv
<1> SUFFICES ASSUME Init PROVE VersionsInv
  OBVIOUS
<1>1. <<>> \in Lists /\ <<>> \notin FileLists
  BY DEF Lists, FileLists
<1>2. Requested
  BY <1>1 DEF Init, Requested, At
<1>3. Cardinality(Files) \in Nat
  BY ActualType
<1>4. Stored
  BY <1>3, VersionsAssumption DEF Init, Stored
<1> QED BY <1>2, <1>4 DEF VersionsInv, Init, Locking

\* Types are kept by every operation on the versions of an asset, however the
\* requests, rollup jobs, crashes and expiries interleave; a version row is
\* locked only between the two updates of a publish.
THEOREM TypeCorrect == Spec => []TypeOK
<1>1. VersionsInv => TypeOK
  BY DEF VersionsInv, Requested, Stored, Locking, TypeOK
<1> QED BY <1>1, InitTypes, StepTypes, PTL DEF Spec

-----------------------------------------------------------------------------
(* One latest version.                                                     *)

\* A publish transaction that runs alone: it will clear, or has locked, every
\* other row that says latest.
Covered(r) ==
    /\ Publishing = {r}
    /\ At(r, "clear") => latest \ {ver[r]} \subseteq seen[r]
    /\ At(r, "flip") => latest \ {ver[r]} \subseteq lock[r]

\* The inductive invariant of the latest flag.
LatestInv ==
    /\ VersionsInv
    /\ latest # {}
    /\ ~overlapped => \E v \in Semvers : latest = {v}
    /\ \A r \in clean : Covered(r)

\* Who publishes: the transactions past their read.
Publishers == {r \in Requests : todo[r] \in {<<"clear", "flip">>, <<"flip">>}}

\* Publishing picks out just those.
LEMMA PublishingIs == Requested => Publishing = Publishers
<1> SUFFICES ASSUME Requested, NEW r \in Requests
             PROVE  r \in Publishing <=> r \in Publishers
  BY DEF Publishing, Publishers
<1>1. todo[r] \in Lists
  BY DEF Requested
<1>2. /\ (\E i \in DOMAIN todo[r] : todo[r][i] = "flip") <=> todo[r] \in PublishLists
      /\ At(r, "select") <=> todo[r] = <<"select", "clear", "flip">>
  BY <1>1, ListAt DEF At
<1>3. /\ <<"select", "clear", "flip">> # <<"clear", "flip">>
      /\ <<"select", "clear", "flip">> # <<"flip">>
  OBVIOUS
<1> QED BY <1>2, <1>3 DEF Publishing, Publishers, PublishLists

\* So it is after a step.
LEMMA PublishingWillBe == (Requested => Publishing = Publishers)'
BY PublishingIs, PTL

\* A step that leaves the flags and the locks alone, and that no publish
\* transaction takes.
LEMMA OutsideKept ==
    ASSUME LatestInv, VersionsInv', NEW r \in Requests,
           r \notin Publishers, r \notin Publishers',
           \A q \in Requests \ {r} : todo'[q] = todo[q] /\ ver'[q] = ver[q] /\ seen'[q] = seen[q],
           \A q \in Requests \ {r} : lock'[q] = lock[q],
           latest' = latest, overlapped' = overlapped, clean' \subseteq clean
    PROVE  LatestInv'
<1>1. Publishing = Publishers /\ Publishing' = Publishers'
  BY PublishingIs, PublishingWillBe DEF LatestInv, VersionsInv
<1>2. Publishers' = Publishers
  BY DEF Publishers
<1>3. ASSUME NEW q \in clean' PROVE Covered(q)'
  <2>1. Covered(q) /\ q \in Requests /\ q # r
    BY <1>1, <1>3 DEF LatestInv, VersionsInv, Stored, Covered
  <2> QED BY <1>1, <1>2, <2>1 DEF Covered, At
<1> QED BY <1>3 DEF LatestInv

\* When no publish runs alone, nothing is promised of those under way.
LEMMA NoneCovered ==
    ASSUME LatestInv, VersionsInv', latest' = latest, overlapped' = overlapped, clean' = {}
    PROVE  LatestInv'
BY DEF LatestInv

\* The read that a publish transaction starts with.
LEMMA SelectLatestKept ==
    ASSUME LatestInv, VersionsInv', NEW r \in Requests, SelectLatest(r) PROVE LatestInv'
<1> USE DEF LatestInv
<1>1. Publishing = Publishers /\ Publishing' = Publishers'
  BY PublishingIs, PublishingWillBe DEF VersionsInv
<1>2. clean \subseteq Publishing
  BY DEF Covered
<1>3. CASE Publishing # {}
  BY <1>2, <1>3, NoneCovered DEF SelectLatest
<1>4. CASE Publishing = {}
  <2>1. clean' = {r}
    BY <1>2, <1>4 DEF SelectLatest
  <2>2. todo[r] = <<"select", "clear", "flip">> /\ Moved(r, latest \ {ver[r]})
    BY ListAt, AdvanceMoves DEF VersionsInv, Requested, SelectLatest, At
  <2>3. Tail(<<"select", "clear", "flip">>) = <<"clear", "flip">> /\ <<"clear", "flip">> # <<>>
        /\ Head(<<"clear", "flip">>) = "clear" /\ "clear" # "flip"
    OBVIOUS
  <2>4. todo'[r] = <<"clear", "flip">> /\ seen'[r] = latest \ {ver[r]} /\ ver'[r] = ver[r]
    BY <2>2, <2>3 DEF Moved, VersionsInv, Requested
  <2>5. Publishers' = {r}
    <3>1. \A q \in Requests \ {r} : todo'[q] = todo[q]
      BY <2>2 DEF Moved, VersionsInv, Requested
    <3> QED BY <1>1, <1>4, <2>4, <3>1 DEF Publishers
  <2>6. Covered(r)'
    BY <1>1, <2>3, <2>4, <2>5 DEF Covered, At, SelectLatest
  <2> QED BY <2>1, <2>6 DEF SelectLatest
<1> QED BY <1>3, <1>4

\* The update that clears the flags.
LEMMA ClearLatestKept ==
    ASSUME LatestInv, VersionsInv', NEW r \in Requests, ClearLatest(r) PROVE LatestInv'
<1> USE DEF LatestInv
<1>1. Publishing = Publishers /\ Publishing' = Publishers'
  BY PublishingIs, PublishingWillBe DEF VersionsInv
<1>2. todo[r] = <<"clear", "flip">> /\ Moved(r, None)
  BY ListAt, AdvanceMoves DEF VersionsInv, Requested, ClearLatest, At
<1>3. Tail(<<"clear", "flip">>) = <<"flip">> /\ <<"flip">> # <<>>
      /\ Head(<<"flip">>) = "flip" /\ "clear" # "flip"
  OBVIOUS
<1>4. todo'[r] = <<"flip">> /\ ver'[r] = ver[r]
      /\ \A q \in Requests \ {r} : todo'[q] = todo[q]
  BY <1>2, <1>3 DEF Moved, VersionsInv, Requested
<1>5. Publishers' = Publishers /\ r \in Publishers
  BY <1>2, <1>4 DEF Publishers
<1>6. clean \subseteq {r} /\ clean' = clean
  BY <1>1, <1>5 DEF Covered, ClearLatest
<1>7. ASSUME r \in clean PROVE Covered(r)'
  <2>1. Publishing' = {r}
    BY <1>1, <1>5, <1>7 DEF Covered
  <2>2. latest \ {ver[r]} \subseteq seen[r]
    BY <1>7 DEF Covered, ClearLatest
  <2>3. lock'[r] = seen[r] \cap latest
    BY DEF ClearLatest, VersionsInv, Stored
  <2>4. latest' = latest
    BY DEF ClearLatest
  <2> QED BY <1>3, <1>4, <2>1, <2>2, <2>3, <2>4 DEF Covered, At
<1> QED BY <1>6, <1>7 DEF ClearLatest

\* The update that sets the flag, and the commit.
LEMMA FlipKept ==
    ASSUME LatestInv, VersionsInv', NEW r \in Requests, Flip(r) PROVE LatestInv'
<1> USE DEF LatestInv
<1>1. Publishing = Publishers
  BY PublishingIs DEF VersionsInv
<1>2. todo[r] = <<"flip">> /\ ver[r] \in Semvers
  BY ListAt DEF VersionsInv, Requested, Stored, Flip, At
<1>3. r \in Publishers
  BY <1>2 DEF Publishers
<1>4. clean \subseteq {r} /\ clean' = {}
  BY <1>1, <1>3 DEF Covered, Flip
<1>5. latest' # {}
  BY DEF Flip
<1>6. ~overlapped' => latest' = {ver[r]}
  BY DEF Covered, Flip
<1> QED BY <1>2, <1>4, <1>5, <1>6

\* The end of a transaction, and of any request, without a commit.
LEMMA LeaveKept ==
    ASSUME LatestInv, VersionsInv', NEW r \in Requests, Leave(r),
           lock' = [lock EXCEPT ![r] = {}], clean' = clean \ {r},
           latest' = latest, overlapped' = overlapped
    PROVE  LatestInv'
<1> USE DEF LatestInv
<1>1. Publishing = Publishers
  BY PublishingIs DEF VersionsInv
<1>2. CASE r \in Publishers
  <2>1. clean' = {}
    BY <1>1, <1>2 DEF Covered
  <2> QED BY <2>1, NoneCovered
<1>3. CASE r \notin Publishers
  <2>1. r \notin Publishers'
    BY DEF Publishers, Leave, VersionsInv, Requested
  <2>2. \A q \in Requests \ {r} : todo'[q] = todo[q] /\ ver'[q] = ver[q] /\ seen'[q] = seen[q]
    BY DEF Leave, VersionsInv, Requested
  <2>3. \A q \in Requests \ {r} : lock'[q] = lock[q]
    BY DEF VersionsInv, Stored
  <2> QED BY <1>3, <2>1, <2>2, <2>3, OutsideKept
<1> QED BY <1>2, <1>3

\* The steps of the other operations.
LEMMA OtherStepKept ==
    ASSUME LatestInv, VersionsInv', NEW r \in Requests,
           CreateFile(r) \/ MeasureFile(r) \/ RemoveFile(r) \/ DropHandle(r) \/ Tally(r) \/ WriteTotals(r)
    PROVE  LatestInv'
<1> USE DEF LatestInv
<1>1. /\ todo[r] \in Lists
      /\ \E step \in {"create", "measure", "discard", "remove", "drop", "tally", "total"} : At(r, step)
  BY DEF VersionsInv, Requested, CreateFile, MeasureFile, RemoveFile, DropHandle, Tally, WriteTotals
<1>2. todo[r] \notin PublishLists
  BY <1>1, ListAt DEF At, PublishLists
<1>3. PICK read : Leave(r) \/ Advance(r, read)
  BY DEF CreateFile, MeasureFile, RemoveFile, DropHandle, Tally, WriteTotals
<1>4. Leave(r) \/ Moved(r, read)
  BY <1>1, <1>3, AdvanceMoves DEF At, VersionsInv
<1>5. /\ \A q \in Requests \ {r} : todo'[q] = todo[q] /\ ver'[q] = ver[q] /\ seen'[q] = seen[q]
      /\ todo'[r] = <<>> \/ todo'[r] = Tail(todo[r])
  BY <1>4 DEF Leave, Moved, VersionsInv, Requested
<1>6. todo[r] # <<>>
  BY <1>1 DEF At
<1>7. todo[r] \in Lists \ PublishLists => Tail(todo[r]) \notin {<<"clear", "flip">>, <<"flip">>}
  <2>1. Tail(todo[r]) = <<"clear", "flip">> => Head(todo[r]) = "select"
    BY <1>1, <1>6, ListTail
  <2>2. Tail(todo[r]) = <<"flip">> => Head(todo[r]) = "clear"
    BY <1>1, <1>6, ListTail
  <2>3. Head(todo[r]) = "select" \/ Head(todo[r]) = "clear" => todo[r] \in PublishLists
    BY <1>1, <1>6, ListAt DEF PublishLists
  <2> QED BY <2>1, <2>2, <2>3
<1>8. r \notin Publishers /\ r \notin Publishers'
  <2>1. <<>> # <<"clear", "flip">> /\ <<>> # <<"flip">>
    OBVIOUS
  <2>2. todo[r] \in Lists \ PublishLists
    BY <1>1, <1>2
  <2>3. todo'[r] \notin {<<"clear", "flip">>, <<"flip">>}
    BY <1>5, <1>7, <2>1, <2>2
  <2> QED BY <1>2, <2>3 DEF Publishers, PublishLists
<1>9. latest' = latest /\ overlapped' = overlapped /\ lock' = lock /\ clean' = clean
  BY DEF CreateFile, MeasureFile, RemoveFile, DropHandle, Tally, WriteTotals, relVars
<1> QED BY <1>5, <1>8, <1>9, OutsideKept

\* The beginning of a request.
LEMMA BeginKept ==
    ASSUME LatestInv, VersionsInv', NEW r \in Requests, NEW op \in Ops, NEW v \in Semvers,
           NEW f \in Files \cup {None}, Begin(r, op, v, f)
    PROVE  LatestInv'
<1> USE DEF LatestInv
<1>1. Plan[op] # <<"clear", "flip">> /\ Plan[op] # <<"flip">>
  BY VersionsAssumption DEF Plan
<1>2. /\ \A q \in Requests \ {r} : todo'[q] = todo[q] /\ ver'[q] = ver[q] /\ seen'[q] = seen[q]
      /\ todo[r] = <<>> /\ todo'[r] = Plan[op]
  BY DEF Begin, VersionsInv, Requested
<1>3. r \notin Publishers /\ r \notin Publishers'
  <2>1. todo[r] # <<"clear", "flip">> /\ todo[r] # <<"flip">>
    BY <1>2
  <2>2. todo'[r] # <<"clear", "flip">> /\ todo'[r] # <<"flip">>
    BY <1>1, <1>2
  <2> QED BY <2>1, <2>2 DEF Publishers
<1>4. latest' = latest /\ overlapped' = overlapped /\ lock' = lock /\ clean' = clean
  BY DEF Begin, relVars
<1> QED BY <1>2, <1>3, <1>4, OutsideKept

\* Versions, handles, and steps that change nothing.
LEMMA NoRequestKept ==
    ASSUME LatestInv, VersionsInv', UNCHANGED <<latest, lock, clean, overlapped, reqVars>>
    PROVE  LatestInv'
BY DEF LatestInv, Covered, Publishing, At, reqVars

\* Every step keeps the invariant.
LEMMA StepLatest == LatestInv /\ [Next]_vars => LatestInv'
<1> SUFFICES ASSUME LatestInv, [Next]_vars PROVE LatestInv'
  OBVIOUS
<1>1. VersionsInv'
  BY StepTypes DEF LatestInv
<1>2. CASE \E v \in Semvers : CreateVersion(v)
  BY <1>1, <1>2, NoRequestKept DEF CreateVersion
<1>3. CASE \E f \in Files : ExpireHandle(f)
  BY <1>1, <1>3, NoRequestKept DEF ExpireHandle, relVars
<1>4. CASE UNCHANGED vars
  BY <1>1, <1>4, NoRequestKept DEF vars, relVars
<1>5. ASSUME NEW r \in Requests, Crash(r) PROVE LatestInv'
  BY <1>1, <1>5, LeaveKept DEF Crash
<1>6. ASSUME NEW r \in Requests, Step(r) PROVE LatestInv'
  <2>1. DeadlockAbort(r) => LatestInv'
    BY <1>1, LeaveKept DEF DeadlockAbort
  <2> QED BY <1>1, <1>6, <2>1, OtherStepKept, SelectLatestKept, ClearLatestKept, FlipKept DEF Step
<1>7. ASSUME NEW r \in Requests, NEW op \in Ops, NEW v \in Semvers,
             NEW f \in Files \cup {None}, Begin(r, op, v, f)
      PROVE  LatestInv'
  BY <1>1, <1>7, BeginKept
<1> QED BY <1>2, <1>3, <1>4, <1>5, <1>6, <1>7 DEF Next

\* There is a latest version at any time, and only one unless the last publish
\* to commit ran alongside another: a publish that met no other has cleared
\* every other flag, whatever crashed or was aborted before it.
THEOREM LatestIsOne == Spec => []OneLatest
<1>1. Init => LatestInv
  BY InitTypes, VersionsAssumption DEF Init, LatestInv
<1>2. LatestInv => OneLatest
  <2> SUFFICES ASSUME LatestInv, ~overlapped PROVE ~(Cardinality(latest) > 1)
    BY DEF OneLatest, LatestInv
  <2>1. PICK v \in Semvers : latest = {v}
    BY DEF LatestInv
  <2>2. Cardinality(latest) = 1
    BY <2>1, FS_Singleton
  <2> QED BY <2>2
<1> QED BY <1>1, <1>2, StepLatest, PTL DEF Spec

-----------------------------------------------------------------------------
(* The totals.                                                             *)

\* A recount of v is under way.
Recounting(v) == \E r \in Requests : ver[r] = v /\ (At(r, "tally") \/ At(r, "total"))

\* An upload to v is open, and the recount that ends it is still to come.
OpenUpload(v) ==
    \E f \in handle : f \in FilesOf(v) /\ \A r \in Requests : At(r, "drop") => file[r] # f

\* A version's totals are right, or why they are not.
Explained(v) == total[v] = Actual(v) \/ v \in slipped \/ OpenUpload(v) \/ Recounting(v)

\* Nobody else works on a file that is being created.
Creating ==
    /\ \A f \in handle : row[f] # "new"
    /\ \A r \in Requests : At(r, "create") =>
           row[file[r]] = "new" /\ \A q \in Requests \ {r} : file[q] # file[r]

\* The inductive invariant of the totals.
TotalsInv == VersionsInv /\ Creating /\ \A v \in versions : Explained(v)

\* What one step does to the totals of one version: the other requests stay, and
\* so do its files, its row, the handles of its open uploads and its recounts.
LEMMA ExplainedKept ==
    ASSUME NEW v, Explained(v), NEW r \in Requests,
           \A q \in Requests \ {r} : todo'[q] = todo[q] /\ ver'[q] = ver[q] /\ file'[q] = file[q],
           FilesOf(v)' = FilesOf(v), total'[v] = total[v], v \in slipped => v \in slipped',
           \A f \in handle : f \in FilesOf(v) => f \in handle' \/ (At(r, "drop") /\ f = file[r]),
           ver[r] = v => (~At(r, "tally") /\ ~At(r, "total")) \/ Recounting(v)',
           At(r, "drop")' => file'[r] \notin FilesOf(v)
    PROVE  Explained(v)'
<1>1. Actual(v)' = Actual(v)
  BY DEF Actual
<1>2. CASE total[v] = Actual(v) \/ v \in slipped
  BY <1>1, <1>2 DEF Explained
<1>3. CASE OpenUpload(v)
  <2>1. PICK f \in handle : f \in FilesOf(v) /\ \A q \in Requests : At(q, "drop") => file[q] # f
    BY <1>3 DEF OpenUpload
  <2>2. f \in handle' /\ f \in FilesOf(v)'
    BY <2>1
  <2>3. ASSUME NEW q \in Requests, At(q, "drop")' PROVE file'[q] # f
    BY <2>1, <2>3 DEF At
  <2> QED BY <2>2, <2>3 DEF OpenUpload, Explained
<1>4. CASE Recounting(v)
  <2>1. PICK q \in Requests : ver[q] = v /\ (At(q, "tally") \/ At(q, "total"))
    BY <1>4 DEF Recounting
  <2>2. CASE q = r
    BY <2>1, <2>2 DEF Explained
  <2>3. CASE q # r
    BY <2>1, <2>3 DEF Explained, Recounting, At
  <2> QED BY <2>2, <2>3
<1> QED BY <1>2, <1>3, <1>4 DEF Explained

\* What a step does to the request that takes it, seen from the totals.
LEMMA MovedTotals ==
    ASSUME Requested, NEW r \in Requests, todo[r] # <<>>,
           Leave(r) \/ \E read : Advance(r, read)
    PROVE  /\ \A q \in Requests \ {r} : todo'[q] = todo[q] /\ ver'[q] = ver[q] /\ file'[q] = file[q]
           /\ todo'[r] = <<>> => file'[r] = None
           /\ todo'[r] # <<>> => file'[r] = file[r] /\ ver'[r] = ver[r]
           /\ At(r, "drop")' => At(r, "total") /\ todo'[r] # <<>>
           /\ ~At(r, "create")'
           /\ Leave(r) \/ todo'[r] = Tail(todo[r])
<1>1. CASE Leave(r)
  BY <1>1 DEF Leave, Requested, At
<1>2. ASSUME NEW read, Advance(r, read)
      PROVE  /\ \A q \in Requests \ {r} : todo'[q] = todo[q] /\ ver'[q] = ver[q] /\ file'[q] = file[q]
             /\ todo'[r] = <<>> => file'[r] = None
             /\ todo'[r] # <<>> => file'[r] = file[r] /\ ver'[r] = ver[r]
             /\ At(r, "drop")' => At(r, "total") /\ todo'[r] # <<>>
             /\ ~At(r, "create")'
             /\ todo'[r] = Tail(todo[r])
  <2>1. Moved(r, read)
    BY <1>2, AdvanceMoves
  <2>2. todo[r] \in Lists /\ todo'[r] = Tail(todo[r]) /\ Tail(todo[r]) \in Lists
    BY <2>1, ListTail DEF Moved, Requested
  <2>3. At(r, "drop")' => Tail(todo[r]) = <<"drop">>
    BY <2>2, ListAt DEF At
  <2>4. At(r, "create")' => Tail(todo[r]) = <<"create">>
    BY <2>2, ListAt DEF At
  <2>5. Tail(todo[r]) = <<"drop">> => Head(todo[r]) = "total"
    BY <2>2, ListTail
  <2>6. Tail(todo[r]) # <<"create">>
    BY <2>2, ListTail
  <2>7. At(r, "drop")' => At(r, "total") /\ todo'[r] # <<>>
    BY <2>3, <2>5 DEF At
  <2> QED BY <2>1, <2>2, <2>4, <2>6, <2>7 DEF Moved, Requested
<1> QED BY <1>1, <1>2

\* A request whose next step is this one takes no other.
LEMMA OneStepAtATime ==
    ASSUME Requested, NEW r \in Requests
    PROVE  \A s \in {"create", "measure", "discard", "remove", "drop", "tally", "total",
                     "select", "clear", "flip"} :
               At(r, s) => todo[r] # <<>> /\ Head(todo[r]) = s
BY DEF At

\* Files in creation stay with their request.
LEMMA CreatingKept ==
    ASSUME TotalsInv, VersionsInv', NEW r \in Requests,
           \A q \in Requests \ {r} : todo'[q] = todo[q] /\ file'[q] = file[q],
           At(r, "create")' => FALSE,
           file'[r] = file[r] \/ file'[r] = None,
           \A f \in Files : row'[f] = row[f] \/ (f = file[r] /\ row'[f] # "new"),
           handle' \subseteq handle
    PROVE  Creating'
<1> USE DEF TotalsInv
<1>1. \A f \in handle' : row'[f] # "new"
  BY DEF Creating, VersionsInv, Stored
<1>2. ASSUME NEW q \in Requests, At(q, "create")'
      PROVE  row'[file'[q]] = "new" /\ \A p \in Requests \ {q} : file'[p] # file'[q]
  <2>1. q # r /\ At(q, "create") /\ file'[q] = file[q]
    BY <1>2 DEF At
  <2>2. row[file[q]] = "new" /\ \A p \in Requests \ {q} : file[p] # file[q]
    BY <2>1 DEF Creating
  <2>3. file[q] \in Files
    <3>1. todo[q] \in FileLists
      BY <2>1, ListAt DEF At, VersionsInv, Requested, FileLists
    <3> QED BY <3>1 DEF VersionsInv, Requested
  <2>4. row'[file[q]] = "new"
    BY <2>1, <2>2, <2>3
  <2>5. \A p \in Requests \ {q} : file'[p] # file[q]
    BY <2>2, <2>3, VersionsAssumption
  <2> QED BY <2>1, <2>4, <2>5
<1> QED BY <1>1, <1>2 DEF Creating

\* The steps that leave the rows of the files, the totals and the handles alone.
LEMMA RowsUntouched ==
    ASSUME TotalsInv, VersionsInv', NEW r \in Requests, versions' = versions,
           MeasureFile(r) \/ Tally(r) \/ SelectLatest(r) \/ ClearLatest(r) \/ Flip(r) \/ DeadlockAbort(r)
    PROVE  TotalsInv'
<1> USE DEF TotalsInv
<1>1. /\ UNCHANGED <<row, handle, total, slipped>>
      /\ Leave(r) \/ \E read : Advance(r, read)
      /\ \E s \in {"measure", "tally", "select", "clear", "flip"} : At(r, s)
  BY DEF MeasureFile, Tally, SelectLatest, ClearLatest, Flip, DeadlockAbort, fileVars
<1>2. todo[r] # <<>> /\ ~At(r, "total")
  BY <1>1, OneStepAtATime DEF VersionsInv, At
<1>3. /\ \A q \in Requests \ {r} : todo'[q] = todo[q] /\ ver'[q] = ver[q] /\ file'[q] = file[q]
      /\ file'[r] = file[r] \/ file'[r] = None
      /\ ~At(r, "drop")' /\ ~At(r, "create")'
  BY <1>1, <1>2, MovedTotals DEF VersionsInv
<1>4. Creating'
  BY <1>1, <1>3, CreatingKept
<1>5. ASSUME NEW v, v = ver[r], At(r, "tally") PROVE Recounting(v)'
  <2>2. Tally(r)
    BY <1>2, <1>5, OneStepAtATime
       DEF VersionsInv, MeasureFile, Tally, SelectLatest, ClearLatest, Flip, DeadlockAbort
  <2>3. Moved(r, Actual(ver[r]))
    BY <1>2, <2>2, AdvanceMoves DEF Tally, VersionsInv
  <2>4. Tail(todo[r]) = <<"total", "drop">> \/ Tail(todo[r]) = <<"total">>
    BY <1>2, <1>5, ListTail DEF VersionsInv, Requested, At
  <2>5. /\ <<"total", "drop">> # <<>> /\ Head(<<"total", "drop">>) = "total"
        /\ <<"total">> # <<>> /\ Head(<<"total">>) = "total"
    OBVIOUS
  <2>6. At(r, "total")' /\ ver'[r] = ver[r]
    BY <2>3, <2>4, <2>5 DEF Moved, At, VersionsInv, Requested
  <2> QED BY <1>5, <2>6 DEF Recounting
<1>6. ASSUME NEW v \in versions PROVE Explained(v)'
  <2>1. Explained(v) /\ FilesOf(v)' = FilesOf(v)
    BY <1>1 DEF FilesOf
  <2>2. ver[r] = v => (~At(r, "tally") /\ ~At(r, "total")) \/ Recounting(v)'
    BY <1>2, <1>5
  <2> QED BY <1>1, <1>3, <2>1, <2>2, ExplainedKept
<1> QED BY <1>4, <1>6

\* The row and the handle of a new file.
LEMMA CreateFileTotals ==
    ASSUME TotalsInv, VersionsInv', NEW r \in Requests, CreateFile(r)
    PROVE  TotalsInv'
<1> USE DEF TotalsInv
<1>1. At(r, "create") /\ todo[r] # <<>> /\ ~At(r, "tally") /\ ~At(r, "total") /\ ~At(r, "drop")
  BY OneStepAtATime DEF CreateFile, VersionsInv, At
<1>2. todo[r] \in FileLists
  BY <1>1, ListAt DEF VersionsInv, Requested, At, FileLists
<1>3. file[r] \in Files /\ Home[file[r]] = ver[r]
  BY <1>2 DEF VersionsInv, Requested
<1>4. /\ \A q \in Requests \ {r} : todo'[q] = todo[q] /\ ver'[q] = ver[q] /\ file'[q] = file[q]
      /\ todo'[r] = <<>> /\ file'[r] = None
  <2>1. Tail(todo[r]) = <<>> /\ Moved(r, None)
    BY <1>1, ListTail, AdvanceMoves DEF VersionsInv, Requested, CreateFile, At
  <2> QED BY <2>1 DEF Moved, VersionsInv, Requested
<1>5. row' = [row EXCEPT ![file[r]] = "present"] /\ handle' = handle \cup {file[r]}
      /\ UNCHANGED <<versions, total, slipped>>
  BY DEF CreateFile, relVars
<1>6. \A q \in Requests \ {r} : file[q] # file[r]
  BY <1>1 DEF Creating
<1>7. Creating'
  <2>1. \A f \in handle' : row'[f] # "new"
    BY <1>3, <1>5 DEF Creating, VersionsInv, Stored
  <2>2. ASSUME NEW q \in Requests, At(q, "create")'
        PROVE  row'[file'[q]] = "new" /\ \A p \in Requests \ {q} : file'[p] # file'[q]
    <3>1. q # r /\ At(q, "create") /\ file'[q] = file[q]
      BY <1>4, <2>2 DEF At
    <3>2. row[file[q]] = "new" /\ \A p \in Requests \ {q} : file[p] # file[q]
      BY <3>1 DEF Creating
    <3>3. file[q] \in Files
      <4>1. todo[q] \in FileLists
        BY <3>1, ListAt DEF At, VersionsInv, Requested, FileLists
      <4> QED BY <4>1 DEF VersionsInv, Requested
    <3>4. row'[file[q]] = "new"
      BY <1>5, <1>6, <3>1, <3>2, <3>3 DEF VersionsInv, Stored
    <3>5. \A p \in Requests \ {q} : file'[p] # file[q]
      BY <1>4, <3>2, <3>3, VersionsAssumption
    <3> QED BY <3>1, <3>4, <3>5
  <2> QED BY <2>1, <2>2 DEF Creating
<1>8. ASSUME NEW v \in versions PROVE Explained(v)'
  <2>1. CASE v = ver[r]
    <3>1. file[r] \in FilesOf(v)'
      BY <1>3, <1>5, <2>1 DEF FilesOf, VersionsInv, Stored
    <3>2. ASSUME NEW q \in Requests, At(q, "drop")' PROVE file'[q] # file[r]
      BY <1>4, <1>6, <3>2 DEF At
    <3>3. file[r] \in handle'
      BY <1>5
    <3> QED BY <3>1, <3>2, <3>3 DEF Explained, OpenUpload
  <2>2. CASE v # ver[r]
    <3>1. Explained(v) /\ FilesOf(v)' = FilesOf(v)
      BY <1>3, <1>5, <2>2 DEF FilesOf, VersionsInv, Stored
    <3>2. ~At(r, "drop")'
      BY <1>4 DEF At
    <3> QED BY <1>1, <1>4, <1>5, <3>1, <3>2, ExplainedKept
  <2> QED BY <2>1, <2>2
<1> QED BY <1>5, <1>7, <1>8

\* Removing a row: the recount comes next.
LEMMA RemoveFileTotals ==
    ASSUME TotalsInv, VersionsInv', NEW r \in Requests, RemoveFile(r)
    PROVE  TotalsInv'
<1> USE DEF TotalsInv
<1>1. At(r, "discard") \/ At(r, "remove")
  BY DEF RemoveFile
<1>2. todo[r] # <<>> /\ ~At(r, "tally") /\ ~At(r, "total") /\ ~At(r, "drop")
  BY <1>1, OneStepAtATime DEF VersionsInv, At
<1>3. todo[r] \in FileLists
  BY <1>1, ListAt DEF VersionsInv, Requested, At, FileLists
<1>4. file[r] \in Files /\ Home[file[r]] = ver[r]
  BY <1>3 DEF VersionsInv, Requested
<1>5. /\ UNCHANGED <<versions, handle, total, slipped>>
      /\ Leave(r) \/ \E read : Advance(r, read)
  BY DEF RemoveFile, relVars
<1>6. /\ \A q \in Requests \ {r} : todo'[q] = todo[q] /\ ver'[q] = ver[q] /\ file'[q] = file[q]
      /\ file'[r] = file[r] \/ file'[r] = None
      /\ ~At(r, "drop")' /\ ~At(r, "create")'
  BY <1>2, <1>5, MovedTotals DEF VersionsInv
<1>7. row' = row \/ row' = [row EXCEPT ![file[r]] = "deleted"]
  BY DEF RemoveFile
<1>8. Creating'
  <2>1. \A f \in Files : row'[f] = row[f] \/ (f = file[r] /\ row'[f] # "new")
    BY <1>7 DEF VersionsInv, Stored
  <2> QED BY <1>5, <1>6, <2>1, CreatingKept
<1>9. ASSUME NEW v \in versions PROVE Explained(v)'
  <2>1. Explained(v)
    OBVIOUS
  <2>2. CASE row' = row
    <3>1. FilesOf(v)' = FilesOf(v)
      BY <2>2 DEF FilesOf
    <3> QED BY <1>2, <1>5, <1>6, <2>1, <3>1, ExplainedKept
  <2>3. CASE v # ver[r]
    <3>1. FilesOf(v)' = FilesOf(v)
      BY <1>4, <1>7, <2>3 DEF FilesOf, VersionsInv, Stored
    <3> QED BY <1>2, <1>5, <1>6, <2>1, <2>3, <3>1, ExplainedKept
  <2>4. CASE row' # row /\ v = ver[r]
    <3>1. Moved(r, None)
      BY <1>2, <2>4, AdvanceMoves DEF RemoveFile, VersionsInv
    <3>2. Tail(todo[r]) \in {<<"tally", "total", "drop">>, <<"tally", "total">>}
      BY <1>1, <1>2, ListTail DEF At, VersionsInv, Requested
    <3>3. \A s \in {<<"tally", "total", "drop">>, <<"tally", "total">>} : s # <<>> /\ Head(s) = "tally"
      OBVIOUS
    <3>4. At(r, "tally")' /\ ver'[r] = ver[r]
      BY <3>1, <3>2, <3>3 DEF Moved, At, VersionsInv, Requested
    <3> QED BY <2>4, <3>4 DEF Explained, Recounting
  <2> QED BY <2>2, <2>3, <2>4
<1> QED BY <1>5, <1>8, <1>9

\* The handle goes when the recount of its upload is done.
LEMMA DropHandleTotals ==
    ASSUME TotalsInv, VersionsInv', NEW r \in Requests, DropHandle(r)
    PROVE  TotalsInv'
<1> USE DEF TotalsInv
<1>1. At(r, "drop") /\ todo[r] # <<>> /\ ~At(r, "tally") /\ ~At(r, "total")
  BY OneStepAtATime DEF DropHandle, VersionsInv, At
<1>2. /\ UNCHANGED <<versions, row, total, slipped>>
      /\ handle' = handle \ {file[r]}
      /\ \E read : Advance(r, read)
  BY DEF DropHandle, relVars
<1>3. /\ \A q \in Requests \ {r} : todo'[q] = todo[q] /\ ver'[q] = ver[q] /\ file'[q] = file[q]
      /\ file'[r] = file[r] \/ file'[r] = None
      /\ ~At(r, "drop")' /\ ~At(r, "create")'
  BY <1>1, <1>2, MovedTotals DEF VersionsInv
<1>4. Creating'
  BY <1>2, <1>3, CreatingKept
<1>5. ASSUME NEW v \in versions PROVE Explained(v)'
  <2>1. Explained(v) /\ FilesOf(v)' = FilesOf(v)
    BY <1>2 DEF FilesOf
  <2>2. \A f \in handle : f \in FilesOf(v) => f \in handle' \/ (At(r, "drop") /\ f = file[r])
    BY <1>1, <1>2
  <2> QED BY <1>1, <1>2, <1>3, <2>1, <2>2, ExplainedKept
<1> QED BY <1>2, <1>4, <1>5

\* Writing what a recount has counted.
LEMMA WriteTotalsTotals ==
    ASSUME TotalsInv, VersionsInv', NEW r \in Requests, WriteTotals(r)
    PROVE  TotalsInv'
<1> USE DEF TotalsInv
<1>1. At(r, "total") /\ todo[r] # <<>> /\ ~At(r, "tally") /\ ~At(r, "drop")
  BY OneStepAtATime DEF WriteTotals, VersionsInv, At
<1>2. /\ UNCHANGED <<versions, row, handle>>
      /\ total' = [total EXCEPT ![ver[r]] = seen[r]]
      /\ slipped' = IF seen[r] = Actual(ver[r]) THEN slipped \ {ver[r]} ELSE slipped \cup {ver[r]}
      /\ \E read : Advance(r, read)
  BY DEF WriteTotals, relVars, fileVars
<1>3. /\ \A q \in Requests \ {r} : todo'[q] = todo[q] /\ ver'[q] = ver[q] /\ file'[q] = file[q]
      /\ file'[r] = file[r] \/ file'[r] = None
      /\ ~At(r, "create")'
      /\ At(r, "drop")' => file'[r] = file[r] /\ ver'[r] = ver[r] /\ todo'[r] # <<>>
  BY <1>1, <1>2, MovedTotals DEF VersionsInv
<1>4. Creating'
  BY <1>2, <1>3, CreatingKept
<1>5. At(r, "drop")' => Home[file'[r]] = ver[r]
  <2>1. SUFFICES ASSUME At(r, "drop")' PROVE Home[file'[r]] = ver[r]
    OBVIOUS
  <2>2. todo'[r] \in Lists
    BY DEF VersionsInv, Requested
  <2>3. todo'[r] \in FileLists
    BY <2>1, <2>2, ListAt DEF At, FileLists
  <2> QED BY <1>3, <2>1, <2>3 DEF VersionsInv, Requested
<1>6. ASSUME NEW v \in versions PROVE Explained(v)'
  <2>1. Explained(v) /\ FilesOf(v)' = FilesOf(v) /\ v \in Semvers
    BY <1>2 DEF FilesOf, VersionsInv, Stored
  <2>2. CASE v = ver[r]
    <3>1. total'[v] = seen[r] /\ Actual(v)' = Actual(v)
      BY <1>2, <2>1, <2>2 DEF Actual, VersionsInv, Stored
    <3>2. seen[r] = Actual(v) \/ v \in slipped'
      BY <1>2, <2>2
    <3> QED BY <3>1, <3>2 DEF Explained
  <2>3. CASE v # ver[r]
    <3>1. total'[v] = total[v] /\ (v \in slipped => v \in slipped')
      BY <1>2, <2>1, <2>3 DEF VersionsInv, Stored
    <3>2. At(r, "drop")' => file'[r] \notin FilesOf(v)
      BY <1>5, <2>3 DEF FilesOf
    <3> QED BY <1>1, <1>2, <1>3, <2>1, <2>3, <3>1, <3>2, ExplainedKept
  <2> QED BY <2>2, <2>3
<1> QED BY <1>2, <1>4, <1>6

\* A death, a thrown error, or a lost handle: what it leaves wrong has slipped.
LEMMA CrashTotals ==
    ASSUME TotalsInv, VersionsInv', NEW r \in Requests, Crash(r)
    PROVE  TotalsInv'
<1> USE DEF TotalsInv
<1>1. /\ UNCHANGED <<versions, row, handle, total>> /\ Leave(r) /\ todo[r] # <<>>
      /\ slipped' = slipped \cup IF total[ver[r]] # Actual(ver[r]) THEN {ver[r]} ELSE {}
  BY DEF Crash, fileVars
<1>2. /\ \A q \in Requests \ {r} : todo'[q] = todo[q] /\ ver'[q] = ver[q] /\ file'[q] = file[q]
      /\ file'[r] = None /\ ~At(r, "drop")' /\ ~At(r, "create")'
  BY <1>1 DEF Leave, VersionsInv, Requested, At
<1>3. Creating'
  BY <1>1, <1>2, CreatingKept
<1>4. ASSUME NEW v \in versions PROVE Explained(v)'
  <2>1. Explained(v) /\ FilesOf(v)' = FilesOf(v) /\ Actual(v)' = Actual(v)
    BY <1>1 DEF FilesOf, Actual
  <2>2. CASE v = ver[r]
    BY <1>1, <2>1, <2>2 DEF Explained
  <2>3. CASE v # ver[r]
    BY <1>1, <1>2, <2>1, <2>3, ExplainedKept
  <2> QED BY <2>2, <2>3
<1> QED BY <1>1, <1>3, <1>4

\* So it is with a handle that expires.
LEMMA ExpireTotals ==
    ASSUME TotalsInv, VersionsInv', NEW f \in Files, ExpireHandle(f)
    PROVE  TotalsInv'
<1> USE DEF TotalsInv
<1>1. /\ UNCHANGED <<versions, row, total, todo, ver, file>> /\ handle' = handle \ {f}
      /\ slipped' = slipped \cup IF total[Home[f]] # Actual(Home[f]) THEN {Home[f]} ELSE {}
  BY DEF ExpireHandle, relVars, reqVars
<1>2. Creating'
  BY <1>1 DEF Creating, At
<1>3. ASSUME NEW v \in versions PROVE Explained(v)'
  <2>1. Explained(v) /\ FilesOf(v)' = FilesOf(v) /\ Actual(v)' = Actual(v)
    BY <1>1 DEF FilesOf, Actual
  <2>2. CASE v = Home[f]
    BY <1>1, <2>1, <2>2 DEF Explained
  <2>3. CASE v # Home[f]
    <3>1. OpenUpload(v) => OpenUpload(v)'
      BY <1>1, <2>3 DEF OpenUpload, FilesOf, At
    <3>2. Recounting(v) => Recounting(v)'
      BY <1>1 DEF Recounting, At
    <3> QED BY <1>1, <2>1, <3>1, <3>2 DEF Explained
  <2> QED BY <2>2, <2>3
<1> QED BY <1>1, <1>2, <1>3

\* A new version has no files.
LEMMA CreateVersionTotals ==
    ASSUME TotalsInv, VersionsInv', NEW v \in Semvers, CreateVersion(v)
    PROVE  TotalsInv'
<1> USE DEF TotalsInv
<1>1. /\ v \notin versions /\ versions' = versions \cup {v}
      /\ UNCHANGED <<row, handle, total, todo, ver, file, slipped>>
  BY DEF CreateVersion, fileVars, reqVars
<1>2. Creating'
  BY <1>1 DEF Creating, At
<1>3. ASSUME NEW w \in versions PROVE Explained(w)'
  BY <1>1 DEF Explained, Actual, FilesOf, OpenUpload, Recounting, At
<1>4. Explained(v)'
  <2>1. FilesOf(v)' = {}
    BY <1>1 DEF FilesOf, VersionsInv, Stored
  <2>2. Actual(v)' = 0 /\ total'[v] = 0
    BY <1>1, <2>1, FS_EmptySet DEF Actual, VersionsInv, Stored
  <2> QED BY <2>2 DEF Explained
<1> QED BY <1>1, <1>2, <1>3, <1>4

\* The beginning of a request: an upload that is only beginning is nobody else's.
LEMMA BeginTotals ==
    ASSUME TotalsInv, VersionsInv', NEW r \in Requests, NEW op \in Ops, NEW v \in Semvers,
           NEW f \in Files \cup {None}, Begin(r, op, v, f)
    PROVE  TotalsInv'
<1> USE DEF TotalsInv
<1>1. /\ UNCHANGED <<versions, row, handle, total, slipped>>
      /\ todo[r] = <<>> /\ todo'[r] = Plan[op] /\ file'[r] = f
      /\ \A q \in Requests \ {r} : todo'[q] = todo[q] /\ ver'[q] = ver[q] /\ file'[q] = file[q]
  BY DEF Begin, relVars, fileVars, VersionsInv, Requested
<1>2. /\ Plan[op] \in Lists /\ Plan[op] # <<"drop">>
      /\ op # "initiate" => Plan[op] # <<"create">>
  BY VersionsAssumption DEF Plan, Lists, FileLists, RecountLists, PublishLists
<1>3. ~At(r, "drop")' /\ (At(r, "create")' => op = "initiate")
  BY <1>1, <1>2, ListAt DEF At
<1>4. Creating'
  <2>1. \A g \in handle' : row'[g] # "new"
    BY <1>1 DEF Creating
  <2>2. ASSUME NEW q \in Requests, At(q, "create")'
        PROVE  row'[file'[q]] = "new" /\ \A p \in Requests \ {q} : file'[p] # file'[q]
    <3>1. CASE q = r
      BY <1>1, <1>3, <2>2, <3>1 DEF Begin, Admits
    <3>2. CASE q # r
      <4>1. At(q, "create") /\ file'[q] = file[q]
        BY <1>1, <2>2, <3>2 DEF At
      <4>2. row[file[q]] = "new" /\ \A p \in Requests \ {q} : file[p] # file[q]
        BY <4>1 DEF Creating
      <4>3. file[q] \in Files
        <5>1. todo[q] \in FileLists
          BY <4>1, ListAt DEF At, VersionsInv, Requested, FileLists
        <5> QED BY <5>1 DEF VersionsInv, Requested
      <4>4. f # file[q]
        <5>1. CASE op = "initiate"
          BY <5>1 DEF Begin
        <5>2. CASE op \in {"complete", "abort"}
          BY <4>2, <5>2 DEF Begin, Admits, Creating
        <5>3. CASE op = "delete"
          BY <4>2, <5>3 DEF Begin, Admits, FilesOf
        <5>4. CASE op \in {"rollup", "publish"}
          BY <4>3, <5>4, VersionsAssumption DEF Begin, Admits
        <5> QED BY <5>1, <5>2, <5>3, <5>4, VersionsAssumption
      <4> QED BY <1>1, <4>1, <4>2, <4>4
    <3> QED BY <3>1, <3>2
  <2> QED BY <2>1, <2>2 DEF Creating
<1>5. ASSUME NEW w \in versions PROVE Explained(w)'
  <2>1. Explained(w) /\ FilesOf(w)' = FilesOf(w)
    BY <1>1 DEF FilesOf
  <2>2. ~At(r, "tally") /\ ~At(r, "total")
    BY <1>1 DEF At
  <2> QED BY <1>1, <1>3, <2>1, <2>2, ExplainedKept
<1> QED BY <1>1, <1>4, <1>5

\* Every step keeps the invariant.
LEMMA StepTotals == TotalsInv /\ [Next]_vars => TotalsInv'
<1> SUFFICES ASSUME TotalsInv, [Next]_vars PROVE TotalsInv'
  OBVIOUS
<1>1. VersionsInv'
  BY StepTypes DEF TotalsInv
<1>2. ASSUME NEW r \in Requests, Step(r) PROVE TotalsInv'
  <2>1. CASE MeasureFile(r) \/ Tally(r) \/ SelectLatest(r) \/ ClearLatest(r) \/ Flip(r) \/ DeadlockAbort(r)
    <3>1. versions' = versions
      BY <2>1 DEF MeasureFile, Tally, SelectLatest, ClearLatest, Flip, DeadlockAbort, relVars
    <3> QED BY <1>1, <2>1, <3>1, RowsUntouched
  <2>2. CASE CreateFile(r) \/ RemoveFile(r) \/ DropHandle(r) \/ WriteTotals(r)
    BY <1>1, <2>2, CreateFileTotals, RemoveFileTotals, DropHandleTotals, WriteTotalsTotals
  <2> QED BY <1>2, <2>1, <2>2 DEF Step
<1>3. CASE UNCHANGED vars
  <2>1. UNCHANGED <<versions, row, handle, total, slipped, todo, ver, file>>
    BY <1>3 DEF vars, relVars, fileVars, reqVars
  <2>2. Creating'
    BY <2>1 DEF TotalsInv, Creating, At
  <2>3. ASSUME NEW v \in versions PROVE Explained(v)'
    <3>1. FilesOf(v)' = FilesOf(v) /\ (Recounting(v) => Recounting(v)')
      BY <2>1 DEF FilesOf, Recounting, At
    <3>2. OpenUpload(v) => OpenUpload(v)'
      BY <2>1, <3>1 DEF OpenUpload, At
    <3> QED BY <2>1, <2>3, <3>1, <3>2 DEF TotalsInv, Explained, Actual
  <2> QED BY <1>1, <2>1, <2>2, <2>3 DEF TotalsInv
<1>4. ASSUME NEW r \in Requests, NEW op \in Ops, NEW v \in Semvers,
             NEW f \in Files \cup {None}, Begin(r, op, v, f)
      PROVE  TotalsInv'
  BY <1>1, <1>4, BeginTotals
<1> QED BY <1>1, <1>2, <1>3, <1>4, CrashTotals, ExpireTotals, CreateVersionTotals DEF Next

\* The totals of a version are those of its files, or an open upload or a
\* recount under way will put them right, or they have slipped (a recount that
\* was overtaken, a crash, an abandoned upload): no interleaving of uploads,
\* deletions and rollups leaves them wrong by itself.
THEOREM TotalsAreExplained == Spec => []TotalsExplained
<1>1. Init => TotalsInv
  <2> SUFFICES ASSUME Init PROVE TotalsInv
    OBVIOUS
  <2>1. VersionsInv
    BY InitTypes
  <2>2. Creating
    BY DEF Init, Creating, At
  <2>3. ASSUME NEW v \in versions PROVE Explained(v)
    <3>1. FilesOf(v) = {}
      BY DEF Init, FilesOf
    <3>2. Actual(v) = 0 /\ total[v] = 0
      BY <2>1, <3>1, FS_EmptySet DEF Init, Actual, VersionsInv, Stored
    <3> QED BY <3>2 DEF Explained
  <2> QED BY <2>1, <2>2, <2>3 DEF TotalsInv
<1>2. TotalsInv => TotalsExplained
  <2> SUFFICES ASSUME TotalsInv, NEW v \in versions, Explained(v)
               PROVE  \/ total[v] = Actual(v) \/ v \in slipped
                      \/ \E f \in handle : f \in FilesOf(v)
                      \/ \E r \in Requests : ver[r] = v /\ (Owes(r) \/ At(r, "total"))
    BY DEF TotalsExplained, TotalsInv
  <2>1. ASSUME NEW r \in Requests, At(r, "tally") PROVE Owes(r)
    BY <2>1, ListAt DEF At, Owes, TotalsInv, VersionsInv, Requested
  <2> QED BY <2>1 DEF Explained, OpenUpload, Recounting
<1> QED BY <1>1, <1>2, StepTotals, PTL DEF Spec

-----------------------------------------------------------------------------
(* The compatibility matrix.                                               *)

\* Whose rows there may be.
MatrixRows == Matrices \cup {FirstMatrix}

\* A request's transaction.
Settings == [step : {"idle", "deleting", "deleted"}, sees : SUBSET MatrixRows]

\* A request that no other has overlapped has the table to itself, and its DELETE sees
\* every row there is; so one request's rows are left when it commits.
MatrixInv ==
    /\ matrix \subseteq MatrixRows
    /\ setting \in [Matrices -> Settings]
    /\ alone \subseteq Matrices
    /\ \A m \in alone : /\ \A x \in Matrices \ {m} : ~InTransaction(x)
                        /\ InTransaction(m) => matrix \subseteq setting[m].sees
    /\ mixed \/ \E m \in MatrixRows : matrix \subseteq {m}

\* Every step keeps MatrixInv.
LEMMA MatrixKept == MatrixInv /\ [MatrixNext]_matrixVars => MatrixInv'
<1> SUFFICES ASSUME MatrixInv, [MatrixNext]_matrixVars PROVE MatrixInv'
  OBVIOUS
<1>0. /\ NotSetting \in Settings /\ NotSetting.step = "idle"
      /\ \A m \in Matrices : setting[m] \in Settings
  BY DEF NotSetting, Settings, MatrixInv
<1>a. \A e \in Settings : e.step \in {"idle", "deleting", "deleted"} /\ e.sees \subseteq MatrixRows
  BY DEF Settings
<1>1. ASSUME NEW m \in Matrices, BeginDeleteMany(m)
      PROVE  MatrixInv'
  <2> DEFINE new == [step |-> "deleting", sees |-> matrix]
  <2>1. new \in Settings /\ new.sees = matrix
    BY DEF Settings, MatrixInv
  <2>2. setting' = [setting EXCEPT ![m] = new] /\ matrix' = matrix /\ mixed' = mixed
        /\ alone' = IF \E x \in Matrices : InTransaction(x) THEN {} ELSE {m}
    BY <1>1 DEF BeginDeleteMany
  <2> HIDE DEF new
  <2>3. setting'[m] = new /\ \A x \in Matrices \ {m} : setting'[x] = setting[x]
    BY <2>2 DEF MatrixInv
  <2>4. setting' \in [Matrices -> Settings]
    BY <2>1, <2>2 DEF MatrixInv
  <2>5. \A x \in alone' : /\ \A y \in Matrices \ {x} : ~InTransaction(y)'
                          /\ matrix' \subseteq setting'[x].sees
    BY <2>1, <2>2, <2>3 DEF InTransaction
  <2> QED BY <2>2, <2>4, <2>5 DEF MatrixInv
<1>2. ASSUME NEW m \in Matrices, DeleteMany(m)
      PROVE  MatrixInv'
  <2> DEFINE new == [step |-> "deleted", sees |-> setting[m].sees \cap matrix]
  <2>1. new \in Settings /\ new.sees = setting[m].sees \cap matrix
    BY <1>0, <1>a DEF Settings
  <2>2. setting' = [setting EXCEPT ![m] = new] /\ matrix' = matrix /\ mixed' = mixed /\ alone' = alone
        /\ InTransaction(m)
    BY <1>0, <1>2 DEF DeleteMany, InTransaction, MatrixInv
  <2> HIDE DEF new
  <2>3. setting'[m] = new /\ \A x \in Matrices \ {m} : setting'[x] = setting[x]
    BY <2>2 DEF MatrixInv
  <2>4. setting' \in [Matrices -> Settings]
    BY <2>1, <2>2 DEF MatrixInv
  <2>5. \A x \in alone' : /\ \A y \in Matrices \ {x} : ~InTransaction(y)'
                          /\ InTransaction(x)' => matrix' \subseteq setting'[x].sees
    BY <2>1, <2>2, <2>3 DEF MatrixInv, InTransaction
  <2> QED BY <2>2, <2>4, <2>5 DEF MatrixInv
<1>3. ASSUME NEW m \in Matrices, NEW empty \in BOOLEAN, CreateMany(m, empty)
      PROVE  MatrixInv'
  <2>1. /\ matrix' = (matrix \ setting[m].sees) \cup (IF empty THEN {} ELSE {m})
        /\ setting' = [setting EXCEPT ![m] = NotSetting]
        /\ mixed' = (m \notin alone) /\ alone' = alone /\ InTransaction(m)
    BY <1>0, <1>3 DEF CreateMany, InTransaction, MatrixInv
  <2>2. setting'[m] = NotSetting /\ \A x \in Matrices \ {m} : setting'[x] = setting[x]
    BY <2>1 DEF MatrixInv
  <2>3. setting' \in [Matrices -> Settings] /\ matrix' \subseteq MatrixRows
    BY <1>0, <2>1 DEF MatrixInv, MatrixRows
  <2>4. \A x \in alone' : \A y \in Matrices : ~InTransaction(y)'
    BY <2>1, <2>2 DEF MatrixInv, InTransaction
  <2>5. CASE m \in alone
    <3>1. matrix \subseteq setting[m].sees
      BY <2>1, <2>5 DEF MatrixInv
    <3>2. matrix' \subseteq {m} /\ m \in MatrixRows
      BY <2>1, <3>1 DEF MatrixRows
    <3> QED BY <2>1, <2>3, <2>4, <3>2 DEF MatrixInv
  <2>6. CASE m \notin alone
    BY <2>1, <2>3, <2>4, <2>6 DEF MatrixInv
  <2> QED BY <2>5, <2>6
<1>4. ASSUME NEW m \in Matrices, RollBack(m)
      PROVE  MatrixInv'
  <2>1. setting' = [setting EXCEPT ![m] = NotSetting] /\ matrix' = matrix /\ mixed' = mixed /\ alone' = alone
    BY <1>4 DEF RollBack
  <2>2. setting'[m] = NotSetting /\ \A x \in Matrices \ {m} : setting'[x] = setting[x]
    BY <2>1 DEF MatrixInv
  <2>3. setting' \in [Matrices -> Settings]
    BY <1>0, <2>1 DEF MatrixInv
  <2>4. \A x \in alone' : /\ \A y \in Matrices \ {x} : ~InTransaction(y)'
                          /\ InTransaction(x)' => matrix' \subseteq setting'[x].sees
    BY <2>1, <2>2 DEF MatrixInv, InTransaction
  <2> QED BY <2>1, <2>3, <2>4 DEF MatrixInv
<1>5. CASE UNCHANGED matrixVars
  BY <1>5 DEF matrixVars, MatrixInv, InTransaction
<1> QED BY <1>1, <1>2, <1>3, <1>4, <1>5 DEF MatrixNext

\* One matrix stands, unless requests overlapped (VersionsService.setCompatibility), for any
\* number of requests.
THEOREM MatrixIsExplained == MatrixSpec => []MatrixExplained
<1>1. MatrixInit => MatrixInv
  <2> SUFFICES ASSUME MatrixInit PROVE MatrixInv
    OBVIOUS
  <2>1. NotSetting \in Settings
    BY DEF NotSetting, Settings
  <2>2. setting \in [Matrices -> Settings] /\ alone = {}
    BY <2>1 DEF MatrixInit
  <2>3. matrix \subseteq {FirstMatrix} /\ FirstMatrix \in MatrixRows
    BY DEF MatrixInit, MatrixRows
  <2> QED BY <2>2, <2>3 DEF MatrixInv
<1>2. MatrixInv => MatrixExplained
  <2> SUFFICES ASSUME MatrixInv, NEW m \in MatrixRows, matrix \subseteq {m} PROVE Cardinality(matrix) <= 1
    BY DEF MatrixInv, MatrixExplained
  <2>1. matrix = {} \/ matrix = {m}
    OBVIOUS
  <2> QED BY <2>1, FS_EmptySet, FS_Singleton
<1> QED BY <1>1, <1>2, MatrixKept, PTL DEF MatrixSpec

-----------------------------------------------------------------------------
(* The files and the objects that hold them.                               *)

\* Who may still put, measure or delete an object under his key.
Active(u) == u \in Live \cup url \/ \E t \in Tidiers : tidy[t].file = u

\* The rows of files, and the deletions under way.
AssetFiles == 
    [state : {"none", "pending", "complete", "gone"}, version : Nat,
     key : Keys \cup {NoKey}, bytes : BOOLEAN]
Tidyings ==
    [step : {"idle", "object", "row", "list", "objects", "rows"}, file : Puts \cup {NoKey}, page : SUBSET Keys]

\* The types of the variables of FileStore.
FilesTypes ==
    /\ prefix \in [1 .. Releases -> S3Prefixes \cup {NoKey}]
    /\ asset \in [Puts -> AssetFiles]
    /\ asked \in [Puts -> [version : Nat, prefix : S3Prefixes \cup {NoKey}]]
    /\ object \in [Keys -> Puts \cup {NoKey}]
    /\ url \subseteq Puts
    /\ tidy \in [Tidiers -> Tidyings]

\* An upload that was not initiated has neither row nor URL nor deletion.
Begun ==
    /\ \A u \in Puts : asked[u] # NotAsked => asset[u].state = "none" /\ asked[u].prefix \in S3Prefixes
    /\ \A u \in Puts : asset[u].state # "none" => asset[u].key \in Keys
    /\ \A u \in Puts : Active(u) => asset[u].state # "none"
    /\ \A t \in Tidiers : tidy[t].step \in {"object", "row"} => tidy[t].file \in Puts /\ tidy[t].file \in bared

\* A key that was not shared is that of at most one active upload, which nobody else's
\* object lies in the way of; and a completed file has its object.
Exclusive ==
    \A u \in Puts : Active(u) /\ asset[u].key \notin shared =>
        /\ \A w \in Puts : Active(w) /\ asset[w].key = asset[u].key => w = u
        /\ object[asset[u].key] \in {u, NoKey}
Kept ==
    \A u \in Puts : asset[u].state = "complete" /\ asset[u].bytes =>
        object[asset[u].key] = u \/ asset[u].key \in shared \/ u \in bared

\* The inductive invariant of FileStore.
FilesInv == FilesTypes /\ Begun /\ Exclusive /\ Kept

\* It holds at first.
LEMMA FilesStart == FilesInit => FilesInv
<1> SUFFICES ASSUME FilesInit PROVE FilesInv
  OBVIOUS
<1>1. /\ NoAssetFile \in AssetFiles /\ NoAssetFile.state = "none"
      /\ NoTidy \in Tidyings /\ NoTidy.step = "idle" /\ NoTidy.file = NoKey
      /\ NotAsked \in [version : Nat, prefix : S3Prefixes \cup {NoKey}]
  BY DEF NoAssetFile, AssetFiles, NoTidy, Tidyings, NotAsked
<1>2. FilesTypes
  BY <1>1 DEF FilesInit, FilesTypes
<1>3. \A u \in Puts : asset[u].state = "none" /\ asked[u] = NotAsked /\ ~Active(u)
  BY <1>1, FileStoreAssumption DEF FilesInit, Active, Live, FileStoreAssumption
<1> QED BY <1>1, <1>2, <1>3 DEF FilesInit, FilesInv, Begun, Exclusive, Kept

\* A step after which fewer uploads are active, and no file's key or object has changed.
LEMMA QuietFiles ==
    ASSUME FilesInv, object' = object, shared' = shared, bared \subseteq bared',
           \A u \in Puts : /\ asset'[u].key = asset[u].key
                           /\ Active(u)' => Active(u)
                           /\ asset'[u].state = "complete" /\ asset'[u].bytes =>
                                 asset[u].state = "complete" /\ asset[u].bytes
    PROVE  Exclusive' /\ Kept'
<1>1. Exclusive /\ Kept
  BY DEF FilesInv
<1>2. Exclusive'
  BY <1>1 DEF Exclusive
<1>3. Kept'
  BY <1>1, Zenon DEF Kept
<1> QED BY <1>2, <1>3

\* Every step keeps it.
LEMMA FilesKept == FilesInv /\ [FilesNext]_filesVars => FilesInv'
<1> SUFFICES ASSUME FilesInv, [FilesNext]_filesVars PROVE FilesInv'
  OBVIOUS
<1>0. FilesTypes /\ Begun /\ Exclusive /\ Kept
  BY DEF FilesInv
<1> USE FileStoreAssumption DEF FileStoreAssumption, FilesTypes
<1>a. \A u \in Puts : asset[u] \in AssetFiles
  BY <1>0
<1>b. /\ NoTidy \in Tidyings
      /\ NotAsked \in [version : Nat, prefix : S3Prefixes \cup {NoKey}]
  BY DEF NoTidy, Tidyings, NotAsked
<1>c. \A q \in Tidiers : tidy[q] \in Tidyings
  BY <1>0
<1>d. ASSUME NEW e \in AssetFiles
      PROVE  e.state \in {"none", "pending", "complete", "gone"} /\ e.version \in Nat /\ e.bytes \in BOOLEAN
  BY DEF AssetFiles
<1>1. ASSUME \/ \E v \in 1 .. Releases, p \in S3Prefixes : AddVersion(v, p)
             \/ \E v \in 1 .. Releases : PublishVersion(v)
             \/ FindLatest
             \/ \E p \in S3Prefixes : SetPrefix(p)
      PROVE  FilesInv'
  <2>1. /\ prefix' = prefix \/ \E x, p : p \in S3Prefixes /\ prefix' = [prefix EXCEPT ![x] = p]
        /\ asset' = asset /\ asked' = asked /\ object' = object /\ url' = url /\ tidy' = tidy
        /\ shared' = shared /\ bared' = bared
    BY <1>1 DEF AddVersion, PublishVersion, FindLatest, SetPrefix
  <2>2. prefix' \in [1 .. Releases -> S3Prefixes \cup {NoKey}]
    BY <1>0, <2>1
  <2>3. FilesTypes' /\ Begun'
    BY <1>0, <2>1, <2>2 DEF Begun, Active, Live
  <2>4. Exclusive' /\ Kept'
    BY <2>1, QuietFiles DEF Active, Live
  <2> QED BY <2>3, <2>4 DEF FilesInv
<1>2. ASSUME NEW u \in Puts, NEW v \in 1 .. Releases, AskUpload(u, v)
      PROVE  FilesInv'
  <2>1. FilesTypes' /\ Begun'
    BY <1>0, <1>2 DEF AskUpload, Begun, Active, Live
  <2>2. Exclusive' /\ Kept'
    BY <1>2, QuietFiles DEF AskUpload, Active, Live
  <2> QED BY <2>1, <2>2 DEF FilesInv
<1>3. ASSUME NEW u \in Puts, NEW path \in Paths, InitiateUpload(u, path)
      PROVE  FilesInv'
  <2> DEFINE k == <<asked[u].prefix, path>>
  <2>x. CASE prefix[asked[u].version] = NoKey
    <3>1. /\ asked' = [asked EXCEPT ![u] = NotAsked] /\ asset' = asset /\ url' = url /\ shared' = shared
          /\ prefix' = prefix /\ object' = object /\ tidy' = tidy /\ bared' = bared
      BY <1>3, <2>x DEF InitiateUpload
    <3>2. FilesTypes' /\ Begun'
      BY <1>0, <1>b, <3>1 DEF Begun, Active, Live, NotAsked
    <3>3. Exclusive' /\ Kept'
      BY <3>1, QuietFiles DEF Active, Live
    <3> QED BY <3>2, <3>3 DEF FilesInv
  <2>y. SUFFICES ASSUME prefix[asked[u].version] # NoKey PROVE FilesInv'
    BY <2>x
  <2>1. /\ asset' = [asset EXCEPT ![u] =
                       [state |-> "pending", version |-> asked[u].version, key |-> k, bytes |-> FALSE]]
        /\ shared' = IF InUse(k, u) THEN shared \cup {k} ELSE shared
        /\ asked' = [asked EXCEPT ![u] = NotAsked] /\ url' = url \cup {u}
        /\ prefix' = prefix /\ object' = object /\ tidy' = tidy /\ bared' = bared
    BY <1>3, <2>y DEF InitiateUpload
  <2>2. k \in Keys /\ asset[u].state = "none" /\ ~Active(u)
    BY <1>0, <1>3 DEF InitiateUpload, Begun, Keys
  <2> HIDE DEF k
  <2>3. asset'[u] = [state |-> "pending", version |-> asked[u].version, key |-> k, bytes |-> FALSE]
        /\ \A w \in Puts : w # u => asset'[w] = asset[w]
    BY <1>0, <2>1
  <2>a. asked[u].version \in Nat
    BY <1>0
  <2>b. [state |-> "pending", version |-> asked[u].version, key |-> k, bytes |-> FALSE] \in AssetFiles
    BY <2>2, <2>a DEF AssetFiles
  <2>4. FilesTypes'
    BY <1>0, <1>b, <2>1, <2>b
  <2>5. \A w \in Puts : w # u => (Active(w)' <=> Active(w))
    BY <2>1, <2>3 DEF Active, Live
  <2>6. Begun'
    BY <1>0, <2>1, <2>2, <2>3, <2>5 DEF Begun, NotAsked
  <2>7. ASSUME NEW x \in Puts, Active(x)', asset'[x].key \notin shared'
        PROVE  /\ \A w \in Puts : Active(w)' /\ asset'[w].key = asset'[x].key => w = x
               /\ object'[asset'[x].key] \in {x, NoKey}
    <3>1. CASE x = u
      <4>1. asset'[x].key = k /\ ~InUse(k, u)
        BY <2>1, <2>3, <2>7, <3>1
      <4>2. object[k] = NoKey /\ \A w \in Puts \ {u} : asset[w].key = k => ~Active(w)
        BY <4>1 DEF InUse, Active
      <4> QED BY <2>1, <2>3, <2>5, <3>1, <4>1, <4>2
    <3>2. CASE x # u
      <4>1. Active(x) /\ asset'[x].key = asset[x].key /\ asset[x].key \notin shared
        BY <2>1, <2>3, <2>5, <2>7, <3>2
      <4>2. asset[x].key # k
        <5>1. SUFFICES ASSUME asset[x].key = k PROVE FALSE
          OBVIOUS
        <5>2. InUse(k, u)
          BY <3>2, <4>1, <5>1 DEF InUse, Active
        <5> QED BY <2>1, <2>7, <4>1, <5>1, <5>2
      <4> QED BY <1>0, <2>1, <2>3, <2>5, <4>1, <4>2 DEF Exclusive
    <3> QED BY <3>1, <3>2
  <2>8. Exclusive'
    BY <2>7 DEF Exclusive
  <2>9. Kept'
    BY <1>0, <2>1, <2>3 DEF Kept
  <2> QED BY <2>4, <2>6, <2>8, <2>9 DEF FilesInv
<1>4. ASSUME NEW u \in Puts, PutObject(u)
      PROVE  FilesInv'
  <2>1. Active(u) /\ asset[u].key \in Keys
    BY <1>0, <1>4 DEF PutObject, Begun, Active
  <2>2. /\ object' = [object EXCEPT ![asset[u].key] = u]
        /\ prefix' = prefix /\ asset' = asset /\ asked' = asked /\ url' = url /\ tidy' = tidy
        /\ shared' = shared /\ bared' = bared
    BY <1>4 DEF PutObject
  <2>3. FilesTypes' /\ Begun'
    BY <1>0, <2>1, <2>2 DEF Begun, Active, Live
  <2>4. \A w \in Puts : Active(w)' <=> Active(w)
    BY <2>2 DEF Active, Live
  <2>5. Exclusive'
    BY <1>0, <2>1, <2>2, <2>4 DEF Exclusive, Begun
  <2>6. ASSUME NEW w \in Puts, asset[w].state = "complete", asset[w].bytes
        PROVE  object'[asset[w].key] = w \/ asset[w].key \in shared \/ w \in bared
    <3>1. Active(w) /\ asset[w].key \in Keys
      BY <1>0, <2>6 DEF Active, Live, Begun
    <3> QED BY <1>0, <2>1, <2>2, <2>6, <3>1 DEF Exclusive, Kept
  <2> QED BY <2>2, <2>3, <2>5, <2>6 DEF FilesInv, Kept
<1>5. ASSUME NEW u \in Puts, ExpireUrl(u)
      PROVE  FilesInv'
  <2>1. FilesTypes' /\ Begun'
    BY <1>0, <1>5 DEF ExpireUrl, Begun, Active, Live
  <2>2. Exclusive' /\ Kept'
    BY <1>5, QuietFiles DEF ExpireUrl, Active, Live
  <2> QED BY <2>1, <2>2 DEF FilesInv
<1>6. ASSUME NEW u \in Puts, CompleteUpload(u)
      PROVE  FilesInv'
  <2>1. /\ asset[u].state = "pending"
        /\ asset' = [asset EXCEPT ![u].state = "complete", ![u].bytes = object[asset[u].key] # NoKey]
        /\ prefix' = prefix /\ object' = object /\ asked' = asked /\ url' = url /\ tidy' = tidy
        /\ shared' = shared /\ bared' = bared
    BY <1>6 DEF CompleteUpload
  <2>2. Active(u)
    BY <2>1 DEF Active, Live
  <2>3. /\ asset'[u] = [asset[u] EXCEPT !.state = "complete", !.bytes = object[asset[u].key] # NoKey]
        /\ \A w \in Puts : w # u => asset'[w] = asset[w]
    BY <1>0, <2>1
  <2>a. PICK b \in BOOLEAN : b = (object[asset[u].key] # NoKey)
    OBVIOUS
  <2>b. asset'[u] = [asset[u] EXCEPT !.state = "complete", !.bytes = b]
    BY <2>3, <2>a
  <2>c. asset'[u].state = "complete" /\ asset'[u].key = asset[u].key /\ asset'[u].bytes = b
    BY <1>0, <2>b
  <2>4. /\ asset'[u].state = "complete" /\ asset'[u].key = asset[u].key
        /\ asset'[u].bytes <=> object[asset[u].key] # NoKey
    BY <2>a, <2>c, Zenon
  <2>d. asset' = [asset EXCEPT ![u] = [asset[u] EXCEPT !.state = "complete", !.bytes = b]]
    BY <2>1, <2>a
  <2>e. [asset[u] EXCEPT !.state = "complete", !.bytes = b] \in AssetFiles
    BY <1>a DEF AssetFiles
  <2>f. asset' \in [Puts -> AssetFiles]
    BY <1>0, <2>d, <2>e
  <2>5. FilesTypes'
    BY <1>0, <2>1, <2>f
  <2>6. \A w \in Puts : (Active(w)' <=> Active(w)) /\ asset'[w].key = asset[w].key
    BY <2>1, <2>2, <2>3, <2>4 DEF Active, Live
  <2>7. Begun'
    BY <1>0, <2>1, <2>3, <2>4, <2>6 DEF Begun
  <2>8. Exclusive'
    BY <1>0, <2>1, <2>6 DEF Exclusive
  <2>9. Kept'
    BY <1>0, <2>1, <2>2, <2>3, <2>4, <2>6 DEF Exclusive, Kept
  <2> QED BY <2>5, <2>7, <2>8, <2>9 DEF FilesInv
<1>7. ASSUME NEW u \in Puts, AbortUpload(u)
      PROVE  FilesInv'
  <2>1. /\ asset'[u] = [asset[u] EXCEPT !.state = "gone"] /\ \A w \in Puts : w # u => asset'[w] = asset[w]
        /\ asset[u].state = "pending"
    BY <1>0, <1>7 DEF AbortUpload
  <2>2. asset'[u].state = "gone" /\ asset'[u].key = asset[u].key /\ asset'[u].bytes = asset[u].bytes
    BY <1>0, <2>1
  <2>a. [asset[u] EXCEPT !.state = "gone"] \in AssetFiles
    BY <1>a DEF AssetFiles
  <2>b. asset' = [asset EXCEPT ![u] = [asset[u] EXCEPT !.state = "gone"]]
    BY <1>7 DEF AbortUpload
  <2>3. FilesTypes'
    BY <1>0, <1>7, <2>a, <2>b DEF AbortUpload
  <2>4. \A w \in Puts : Active(w)' => Active(w)
    BY <1>7, <2>1, <2>2 DEF AbortUpload, Active, Live
  <2>5. Begun'
    BY <1>0, <1>7, <2>1, <2>2, <2>4 DEF AbortUpload, Begun
  <2>6. Exclusive' /\ Kept'
    BY <1>7, <2>1, <2>2, <2>4, QuietFiles DEF AbortUpload
  <2> QED BY <2>3, <2>5, <2>6 DEF FilesInv
<1>8. ASSUME NEW t \in Tidiers, NEW u \in Puts, FindFile(t, u)
      PROVE  FilesInv'
  <2> DEFINE new == [NoTidy EXCEPT !.step = "object", !.file = u]
  <2>1. /\ u \in Live /\ tidy' = [tidy EXCEPT ![t] = new] /\ bared' = bared \cup {u}
        /\ prefix' = prefix /\ asset' = asset /\ asked' = asked /\ object' = object /\ url' = url /\ shared' = shared
    BY <1>8 DEF FindFile
  <2>2. new \in Tidyings /\ new.step = "object" /\ new.file = u
    BY DEF NoTidy, Tidyings
  <2> HIDE DEF new
  <2>3. FilesTypes'
    BY <1>0, <2>1, <2>2
  <2>4. \A w \in Puts : Active(w)' => Active(w)
    BY <1>0, <2>1, <2>2 DEF Active, Live
  <2>5. Begun'
    BY <1>0, <2>1, <2>2, <2>4 DEF Begun
  <2>6. Exclusive' /\ Kept'
    BY <2>1, <2>4, QuietFiles
  <2> QED BY <2>3, <2>5, <2>6 DEF FilesInv
<1>9. ASSUME NEW t \in Tidiers, NEW ok \in BOOLEAN, DeleteObject(t, ok)
      PROVE  FilesInv'
  <2>1. PICK f \in Puts : f = tidy[t].file /\ f \in bared /\ Active(f) /\ asset[f].key \in Keys
    BY <1>0, <1>9 DEF DeleteObject, Begun, Active
  <2>2. /\ object' = IF ok THEN [object EXCEPT ![asset[f].key] = NoKey] ELSE object
        /\ tidy' = [tidy EXCEPT ![t].step = "row"] /\ tidy[t].step = "object"
        /\ prefix' = prefix /\ asset' = asset /\ asked' = asked /\ url' = url /\ shared' = shared /\ bared' = bared
    BY <1>9, <2>1 DEF DeleteObject
  <2>3. \A q \in Tidiers : /\ tidy'[q].file = tidy[q].file
                           /\ tidy'[q].step \in {"object", "row"} => tidy[q].step \in {"object", "row"}
    BY <1>0, <2>2
  <2>a. [tidy[t] EXCEPT !.step = "row"] \in Tidyings
    BY <1>c DEF Tidyings
  <2>b. tidy' = [tidy EXCEPT ![t] = [tidy[t] EXCEPT !.step = "row"]]
    BY <2>2
  <2>4. FilesTypes'
    BY <1>0, <2>1, <2>2, <2>a, <2>b
  <2>5. \A w \in Puts : Active(w)' <=> Active(w)
    BY <2>2, <2>3 DEF Active, Live
  <2>6. Begun'
    BY <1>0, <2>2, <2>3, <2>5 DEF Begun
  <2>7. Exclusive'
    BY <1>0, <2>1, <2>2, <2>5 DEF Exclusive, Begun
  <2>8. ASSUME NEW w \in Puts, asset[w].state = "complete", asset[w].bytes
        PROVE  object'[asset[w].key] = w \/ asset[w].key \in shared \/ w \in bared
    <3>1. Active(w) /\ asset[w].key \in Keys
      BY <1>0, <2>8 DEF Active, Live, Begun
    <3> QED BY <1>0, <2>1, <2>2, <2>8, <3>1 DEF Exclusive, Kept
  <2> QED BY <2>2, <2>4, <2>6, <2>7, <2>8 DEF FilesInv, Kept
<1>10. ASSUME NEW t \in Tidiers, DeleteFileRow(t)
      PROVE  FilesInv'
  <2>1. PICK f \in Puts : f = tidy[t].file /\ asset[f].state # "none"
    BY <1>0, <1>10 DEF DeleteFileRow, Begun, Active
  <2>2. /\ asset' = [asset EXCEPT ![f].state = "gone"] /\ tidy' = [tidy EXCEPT ![t] = NoTidy]
        /\ prefix' = prefix /\ object' = object /\ asked' = asked /\ url' = url /\ shared' = shared /\ bared' = bared
    BY <1>10, <2>1 DEF DeleteFileRow
  <2>3. /\ asset'[f] = [asset[f] EXCEPT !.state = "gone"] /\ \A w \in Puts : w # f => asset'[w] = asset[w]
    BY <1>0, <2>2
  <2>4. asset'[f].state = "gone" /\ asset'[f].key = asset[f].key /\ asset'[f].bytes = asset[f].bytes
    BY <1>0, <2>3
  <2>a. [asset[f] EXCEPT !.state = "gone"] \in AssetFiles
    BY <1>a DEF AssetFiles
  <2>b. asset' = [asset EXCEPT ![f] = [asset[f] EXCEPT !.state = "gone"]]
    BY <2>2
  <2>5. FilesTypes'
    BY <1>0, <1>b, <2>2, <2>a, <2>b
  <2>6. \A w \in Puts : Active(w)' => Active(w)
    BY <1>0, <2>2, <2>3, <2>4 DEF Active, Live, NoTidy
  <2>7. Begun'
    BY <1>0, <2>1, <2>2, <2>3, <2>4, <2>6 DEF Begun, NoTidy
  <2>8. Exclusive' /\ Kept'
    BY <2>2, <2>3, <2>4, <2>6, QuietFiles
  <2> QED BY <2>5, <2>7, <2>8 DEF FilesInv
<1>11. ASSUME NEW t \in Tidiers, DropTidy(t)
      PROVE  FilesInv'
  <2>1. FilesTypes'
    BY <1>0, <1>b, <1>11 DEF DropTidy
  <2>2. \A w \in Puts : Active(w)' => Active(w)
    BY <1>0, <1>11 DEF DropTidy, Active, Live, NoTidy
  <2>3. Begun'
    BY <1>0, <1>11, <2>2 DEF DropTidy, Begun, NoTidy
  <2>4. Exclusive' /\ Kept'
    BY <1>11, <2>2, QuietFiles DEF DropTidy
  <2> QED BY <2>1, <2>3, <2>4 DEF FilesInv
<1>13. ASSUME NEW t \in Tidiers, ListObjects(t)
      PROVE  FilesInv'
  <2>1. PICK page \in SUBSET {k \in Keys : object[k] # NoKey} :
            tidy' = [tidy EXCEPT ![t] = [NoTidy EXCEPT !.step = IF page = {} THEN "rows" ELSE "objects", !.page = page]]
    BY <1>13 DEF ListObjects
  <2> DEFINE new == [NoTidy EXCEPT !.step = IF page = {} THEN "rows" ELSE "objects", !.page = page]
  <2>2. new \in Tidyings /\ new.step \in {"rows", "objects"} /\ new.file = NoKey
    BY DEF NoTidy, Tidyings
  <2>3. tidy' = [tidy EXCEPT ![t] = new]
    BY <2>1
  <2> HIDE DEF new
  <2>4. /\ prefix' = prefix /\ asset' = asset /\ asked' = asked /\ object' = object /\ url' = url
        /\ shared' = shared /\ bared' = bared
    BY <1>13 DEF ListObjects
  <2>5. FilesTypes'
    BY <1>0, <2>2, <2>3, <2>4
  <2>6. \A w \in Puts : Active(w)' => Active(w)
    BY <1>0, <2>2, <2>3, <2>4 DEF Active, Live
  <2>7. Begun'
    BY <1>0, <2>2, <2>3, <2>4, <2>6 DEF Begun
  <2>8. Exclusive' /\ Kept'
    BY <2>4, <2>6, QuietFiles
  <2> QED BY <2>5, <2>7, <2>8 DEF FilesInv
<1>14. ASSUME NEW t \in Tidiers, DeleteObjects(t)
      PROVE  FilesInv'
  <2> DEFINE new == [NoTidy EXCEPT !.step = "list"]
  <2>1. /\ object' = [k \in Keys |-> IF k \in tidy[t].page THEN NoKey ELSE object[k]]
        /\ bared' = bared \cup Live /\ tidy' = [tidy EXCEPT ![t] = new]
        /\ prefix' = prefix /\ asset' = asset /\ asked' = asked /\ url' = url /\ shared' = shared
    BY <1>14 DEF DeleteObjects
  <2>2. new \in Tidyings /\ new.step = "list" /\ new.file = NoKey
    BY DEF NoTidy, Tidyings
  <2> HIDE DEF new
  <2>3. object' \in [Keys -> Puts \cup {NoKey}]
    BY <1>0, <2>1
  <2>4. FilesTypes'
    BY <1>0, <2>1, <2>2, <2>3
  <2>5. \A w \in Puts : Active(w)' => Active(w)
    BY <1>0, <2>1, <2>2 DEF Active, Live
  <2>6. Begun'
    BY <1>0, <2>1, <2>2, <2>5 DEF Begun
  <2>7. \A k \in Keys : object'[k] \in {object[k], NoKey}
    BY <2>1
  <2>8. Exclusive'
    BY <1>0, <2>1, <2>5, <2>7 DEF Exclusive, Begun
  <2>9. \A w \in Puts : asset[w].state = "complete" => w \in bared'
    BY <2>1 DEF Live
  <2>10. Kept'
    BY <2>1, <2>9 DEF Kept
  <2> QED BY <2>4, <2>6, <2>8, <2>10 DEF FilesInv
<1>15. ASSUME NEW t \in Tidiers, DeleteAssetRow(t)
      PROVE  FilesInv'
  <2>1. /\ prefix' = [v \in 1 .. Releases |-> NoKey]
        /\ asset' = [u \in Puts |-> IF u \in Live THEN [asset[u] EXCEPT !.state = "gone"] ELSE asset[u]]
        /\ tidy' = [tidy EXCEPT ![t] = NoTidy]
        /\ asked' = asked /\ object' = object /\ url' = url /\ shared' = shared /\ bared' = bared
    BY <1>15 DEF DeleteAssetRow
  <2>2. ASSUME NEW u \in Puts
        PROVE  /\ asset'[u] \in AssetFiles /\ asset'[u].key = asset[u].key /\ asset'[u].bytes = asset[u].bytes
               /\ asset'[u].state \notin {"pending", "complete"}
               /\ asset'[u].state = "none" <=> asset[u].state = "none"
    <3>1. asset[u] \in AssetFiles
      BY <1>a
    <3>2. CASE u \in Live
      <4>1. asset'[u] = [asset[u] EXCEPT !.state = "gone"]
        BY <2>1, <3>2
      <4> QED BY <3>1, <3>2, <4>1 DEF AssetFiles, Live
    <3>3. CASE u \notin Live
      <4>1. asset'[u] = asset[u] /\ asset[u].state \notin {"pending", "complete"}
        BY <2>1, <3>3 DEF Live
      <4> QED BY <3>1, <4>1
    <3> QED BY <3>2, <3>3
  <2>3. asset' \in [Puts -> AssetFiles]
    <3>1. asset' = [u \in Puts |-> asset'[u]]
      BY <2>1
    <3> QED BY <2>2, <3>1
  <2>4. FilesTypes'
    BY <1>0, <1>b, <2>1, <2>3
  <2>5. \A w \in Puts : Active(w)' => Active(w)
    BY <1>0, <2>1, <2>2 DEF Active, Live, NoTidy
  <2>6. Begun'
    BY <1>0, <2>1, <2>2, <2>5 DEF Begun, NoTidy
  <2>7. Exclusive' /\ Kept'
    BY <2>1, <2>2, <2>5, QuietFiles
  <2> QED BY <2>4, <2>6, <2>7 DEF FilesInv
<1>12. CASE UNCHANGED filesVars
  BY <1>0, <1>12 DEF filesVars, FilesInv, Begun, Exclusive, Kept, Active, Live
<1> QED BY <1>1, <1>2, <1>3, <1>4, <1>5, <1>6, <1>7, <1>8, <1>9, <1>10, <1>11, <1>12,
   <1>13, <1>14, <1>15 DEF FilesNext

\* A completed file that has a size has its own bytes, unless a deletion of it has begun, a
\* purge or a forced deletion took objects while it was there, or its key was shared
\* (FilesService.initiateUpload, completeUpload, deleteFile; ArchivePurgeWorker.purgeOne),
\* for any number of uploads, versions, paths, prefixes, deletions and purges.
THEOREM FilesAreExplained == FilesSpec => []FilesExplained
<1>1. FilesInv => FilesExplained
  BY DEF FilesInv, Kept, FilesExplained
<1> QED BY FilesStart, FilesKept, <1>1, PTL DEF FilesSpec

-----------------------------------------------------------------------------
(* An upload in parts.                                                     *)

\* The steps of a request, and what rows and objects may be.
Steps == {"idle", "created", "signed", "list", "assemble", "measure", "drop", "abort",
          "delete, drop", "delete object", "delete"}
Calls == [step : Steps, parts : SUBSET Parts]
RowStates == [state : {"none", "there", "gone"}, parts : SUBSET Parts]
Objects == [there : BOOLEAN, parts : SUBSET Parts]

\* The types of the variables of Multipart.
PartsTypes ==
    /\ fileRow \in RowStates
    /\ uploadHandle \in BOOLEAN
    /\ upload \in {"none", "open", "completed", "aborted"}
    /\ arrived \subseteq Parts
    /\ signed \subseteq Parts
    /\ assembled \in Objects
    /\ call \in [Uploaders -> Calls]

\* Where the request that initiates the upload is: nobody else has a handle to load until
\* it is done, and it opens one upload.
Initiating ==
    /\ call[Initiator].step \in {"idle", "created", "signed"}
    /\ fileRow.state = "none" => upload = "none" /\ ~uploadHandle /\ \A c \in Uploaders : call[c].step = "idle"
    /\ call[Initiator].step = "created" => upload = "none"
    /\ call[Initiator].step = "signed" => upload = "open"
    /\ call[Initiator].step # "idle" =>
           ~uploadHandle /\ \A c \in Callers : call[c].step \in {"idle", "delete object", "delete"}
    /\ uploadHandle => upload # "none"
    /\ \A c \in Callers : call[c].step \notin {"created", "signed"}

\* What the row, the object and a request that assembles it say of the parts.
Measured ==
    /\ \A c \in Callers : call[c].step \in {"list", "assemble", "measure", "abort"} => upload # "none"
    /\ \A c \in Callers : call[c].step = "assemble" => call[c].parts = Parts \/ hasty
    /\ \A c \in Callers : call[c].step = "measure" => upload = "completed"
    /\ assembled.parts # {} => assembled.parts = Parts \/ hasty
    /\ assembled.there \/ assembled.parts # {} \/ fileRow.parts # {} => upload = "completed"
    /\ fileRow.parts # {} => fileRow.state = "there" /\ (fileRow.parts = Parts \/ hasty)
    /\ fileRow.parts # {} =>
           assembled.parts = fileRow.parts \/ (\E c \in Callers : call[c].step = "delete") \/ broken
    /\ fileRow.state = "there" /\ assembled.there /\ ~broken /\ ~swallowed =>
           fileRow.parts = assembled.parts \/ \E c \in Callers : call[c].step = "measure"

\* While no request has crossed another that ends the file, and none has failed: such a
\* request is alone until
\* the row is gone, and it leaves neither an object nor an open upload.
Uncrossed ==
    /\ \A c \in Callers : call[c].step \in Ending => \A d \in Uploaders \ {c} : call[d].step = "idle"
    /\ \A c \in Callers : call[c].step \in {"assemble", "measure"} => fileRow.state = "there"
    /\ upload = "completed" /\ uploadHandle => \E c \in Callers : call[c].step \in {"measure", "drop"}
    /\ \A c \in Callers : call[c].step = "abort" => upload \in {"open", "aborted"}
    /\ \A c \in Callers : call[c].step = "delete, drop" => upload = "aborted"
    /\ \A c \in Callers : call[c].step \in {"delete object", "delete"} => upload \in {"completed", "aborted"}
    /\ \A c \in Callers : call[c].step = "delete" => ~assembled.there
    /\ fileRow.state = "gone" => upload \in {"completed", "aborted"} /\ ~assembled.there

\* The inductive invariant of Multipart.
PartsInv == PartsTypes /\ Initiating /\ Measured /\ (broken \/ swallowed \/ crossed \/ Uncrossed)

\* It holds at first.
LEMMA PartsStart == PartsInit => PartsInv
<1> SUFFICES ASSUME PartsInit PROVE PartsInv
  OBVIOUS
<1>1. /\ Idle \in Calls /\ Idle.step = "idle" /\ NoObject \in Objects /\ ~NoObject.there /\ NoObject.parts = {}
  BY DEF Idle, NoObject, Calls, Objects, Steps
<1>2. /\ call = [c \in Uploaders |-> Idle] /\ Initiator \in Uploaders
      /\ \A c \in Uploaders : call[c].step = "idle"
  BY <1>1 DEF PartsInit, Uploaders
<1>3. fileRow \in RowStates /\ fileRow.state = "none" /\ fileRow.parts = {}
  BY DEF PartsInit, RowStates
<1>4. PartsTypes
  BY <1>1, <1>2, <1>3 DEF PartsInit, PartsTypes
<1>5. Callers \subseteq Uploaders
  BY DEF Uploaders
<1> QED BY <1>1, <1>2, <1>3, <1>4, <1>5 DEF PartsInit, PartsInv, Initiating, Measured, Uncrossed, Ending

\* A request goes on to a step, or is over; the others are where they were.
LEMMA ProceedTo ==
    ASSUME call \in [Uploaders -> Calls], NEW c \in Uploaders, NEW s \in Steps, Proceed(c, s)
    PROVE  /\ call' \in [Uploaders -> Calls]
           /\ call'[c].step = s /\ (s # "idle" => call'[c].parts = call[c].parts)
           /\ \A d \in Uploaders \ {c} : call'[d] = call[d]
<1>1. Idle \in Calls /\ Idle.step = "idle"
  BY DEF Idle, Calls, Steps
<1>2. [call[c] EXCEPT !.step = s] \in Calls
  BY DEF Calls
<1>3. [call[c] EXCEPT !.step = s].step = s /\ [call[c] EXCEPT !.step = s].parts = call[c].parts
  BY DEF Calls
<1> DEFINE new == IF s = "idle" THEN Idle ELSE [call[c] EXCEPT !.step = s]
<1>4. new \in Calls /\ new.step = s /\ (s # "idle" => new.parts = call[c].parts)
  BY <1>1, <1>2, <1>3
<1>5. call' = [call EXCEPT ![c] = new]
  BY DEF Proceed
<1> HIDE DEF new
<1>6. call'[c] = new /\ \A d \in Uploaders \ {c} : call'[d] = call[d]
  BY <1>5
<1>7. call' \in [Uploaders -> Calls]
  BY <1>4, <1>5
<1> QED BY <1>4, <1>6, <1>7

\* Every step keeps it.
LEMMA PartsKept == PartsInv /\ [PartsNext]_partsVars => PartsInv'
<1> SUFFICES ASSUME PartsInv, [PartsNext]_partsVars PROVE PartsInv'
  OBVIOUS
<1> USE MultipartAssumption DEF MultipartAssumption
<1>0. PartsTypes /\ Initiating /\ Measured /\ (broken \/ swallowed \/ crossed \/ Uncrossed)
  BY DEF PartsInv
<1>a. /\ Idle.step = "idle" /\ Initiator \in Uploaders /\ Initiator \notin Callers /\ Callers \subseteq Uploaders
      /\ \A d \in Uploaders : call[d] \in Calls
  BY <1>0 DEF Idle, Uploaders, Initiator, PartsTypes
<1>b. /\ call \in [Uploaders -> Calls] /\ fileRow \in RowStates /\ assembled \in Objects
      /\ \A d \in Uploaders : call[d].step \in Steps /\ call[d].parts \subseteq Parts
  BY <1>0 DEF PartsTypes, Calls
<1>c. \A d \in Uploaders : d = Initiator \/ d \in Callers
  BY DEF Uploaders
<1>1. ASSUME CreateRow
      PROVE  PartsInv'
  <2>1. /\ fileRow.state = "none" /\ fileRow' = [fileRow EXCEPT !.state = "there"]
        /\ uploadHandle' = uploadHandle /\ upload' = upload /\ arrived' = arrived /\ signed' = signed
           /\ assembled' = assembled /\ broken' = broken /\ swallowed' = swallowed /\ hasty' = hasty /\ crossed' = crossed
    BY <1>1, <1>a, <1>b DEF CreateRow, History
  <2>a. Proceed(Initiator, "created") /\ "created" \in Steps
    BY <1>1 DEF CreateRow, Steps
  <2>2. /\ call' \in [Uploaders -> Calls]
        /\ call'[Initiator].step = "created" /\ call'[Initiator].parts = call[Initiator].parts
        /\ \A d \in Uploaders \ {Initiator} : call'[d] = call[d]
    BY <1>a, <1>b, <2>a, ProceedTo
  <2>3. fileRow' \in RowStates /\ fileRow'.state = "there" /\ fileRow'.parts = fileRow.parts
    BY <1>b, <2>1 DEF RowStates
  <2>4. PartsTypes'
    BY <1>0, <1>a, <1>b, <1>c, <2>1, <2>2, <2>3 DEF PartsTypes
  <2>5. Initiating'
    <3>1. upload = "none" /\ ~uploadHandle /\ \A x \in Callers : call'[x].step = "idle"
      BY <1>0, <1>a, <2>1, <2>2 DEF Initiating
    <3> QED BY <1>a, <2>1, <2>2, <2>3, <3>1 DEF Initiating
  <2>6. Measured'
    BY <1>0, <1>a, <1>b, <1>c, <2>1, <2>2, <2>3 DEF Measured, Initiating, PartsTypes
  <2>7. ASSUME ~broken', ~swallowed', ~crossed' PROVE Uncrossed'
    <3>1. ~crossed /\ Uncrossed
      BY <1>0, <2>1, <2>7
    <3>2. \A x \in Callers : call'[x].step \in Ending => \A d \in Uploaders \ {x} : call'[d].step = "idle"
      BY <1>0, <1>a, <1>b, <1>c, <2>1, <2>2, <2>3, <3>1, <2>7 DEF Uncrossed, Initiating, Ending
    <3>3. upload' = "completed" /\ uploadHandle' => \E x \in Callers : call'[x].step \in {"measure", "drop"}
      BY <1>0, <1>a, <1>b, <1>c, <2>1, <2>2, <2>3, <3>1, <2>7 DEF Uncrossed, Measured, Initiating, Ending
    <3> QED BY <1>0, <1>a, <1>b, <1>c, <2>1, <2>2, <2>3, <3>1, <2>7, <3>2, <3>3
       DEF Uncrossed, Measured, Initiating, PartsTypes, Ending
  <2> QED BY <2>4, <2>5, <2>6, <2>7 DEF PartsInv
<1>2. ASSUME CreateMultipart
      PROVE  PartsInv'
  <2>1. /\ call[Initiator].step = "created" /\ upload' = "open" /\ signed' = Parts
        /\ fileRow' = fileRow /\ uploadHandle' = uploadHandle /\ arrived' = arrived /\ assembled' = assembled
           /\ broken' = broken /\ swallowed' = swallowed /\ hasty' = hasty /\ crossed' = crossed
    BY <1>2, <1>a, <1>b DEF CreateMultipart, History
  <2>a. Proceed(Initiator, "signed") /\ "signed" \in Steps
    BY <1>2 DEF CreateMultipart, Steps
  <2>2. /\ call' \in [Uploaders -> Calls]
        /\ call'[Initiator].step = "signed" /\ call'[Initiator].parts = call[Initiator].parts
        /\ \A d \in Uploaders \ {Initiator} : call'[d] = call[d]
    BY <1>a, <1>b, <2>a, ProceedTo
  <2>4. PartsTypes'
    BY <1>0, <1>a, <1>b, <1>c, <2>1, <2>2 DEF PartsTypes
  <2>5. Initiating'
    BY <1>0, <1>a, <1>b, <1>c, <2>1, <2>2 DEF Initiating, PartsTypes
  <2>6. Measured'
    BY <1>0, <1>a, <1>b, <1>c, <2>1, <2>2 DEF Measured, Initiating, PartsTypes
  <2>7. ASSUME ~broken', ~swallowed', ~crossed' PROVE Uncrossed'
    <3>1. ~crossed /\ Uncrossed
      BY <1>0, <2>1, <2>7
    <3>2. \A x \in Callers : call'[x].step \in Ending => \A d \in Uploaders \ {x} : call'[d].step = "idle"
      BY <1>0, <1>a, <1>b, <1>c, <2>1, <2>2, <3>1, <2>7 DEF Uncrossed, Initiating, Ending
    <3>3. upload' = "completed" /\ uploadHandle' => \E x \in Callers : call'[x].step \in {"measure", "drop"}
      BY <1>0, <1>a, <1>b, <1>c, <2>1, <2>2, <3>1, <2>7 DEF Uncrossed, Measured, Initiating, Ending
    <3> QED BY <1>0, <1>a, <1>b, <1>c, <2>1, <2>2, <3>1, <2>7, <3>2, <3>3
       DEF Uncrossed, Measured, Initiating, PartsTypes, Ending
  <2> QED BY <2>4, <2>5, <2>6, <2>7 DEF PartsInv
<1>3. ASSUME SaveHandle
      PROVE  PartsInv'
  <2>1. /\ call[Initiator].step = "signed" /\ uploadHandle' = TRUE
        /\ fileRow' = fileRow /\ upload' = upload /\ arrived' = arrived /\ signed' = signed
           /\ assembled' = assembled /\ broken' = broken /\ swallowed' = swallowed /\ hasty' = hasty /\ crossed' = crossed
    BY <1>3, <1>a, <1>b DEF SaveHandle, History
  <2>a. Proceed(Initiator, "idle") /\ "idle" \in Steps
    BY <1>3 DEF SaveHandle, Steps
  <2>2. /\ call' \in [Uploaders -> Calls]
        /\ call'[Initiator].step = "idle"
        /\ \A d \in Uploaders \ {Initiator} : call'[d] = call[d]
    BY <1>a, <1>b, <2>a, ProceedTo
  <2>4. PartsTypes'
    BY <1>0, <1>a, <1>b, <1>c, <2>1, <2>2 DEF PartsTypes
  <2>5. Initiating'
    BY <1>0, <1>a, <1>b, <1>c, <2>1, <2>2 DEF Initiating, PartsTypes
  <2>6. Measured'
    BY <1>0, <1>a, <1>b, <1>c, <2>1, <2>2 DEF Measured, Initiating, PartsTypes
  <2>7. ASSUME ~broken', ~swallowed', ~crossed' PROVE Uncrossed'
    <3>1. ~crossed /\ Uncrossed
      BY <1>0, <2>1, <2>7
    <3>2. \A x \in Callers : call'[x].step \in Ending => \A d \in Uploaders \ {x} : call'[d].step = "idle"
      BY <1>0, <1>a, <1>b, <1>c, <2>1, <2>2, <3>1, <2>7 DEF Uncrossed, Initiating, Ending
    <3>3. upload' = "completed" /\ uploadHandle' => \E x \in Callers : call'[x].step \in {"measure", "drop"}
      BY <1>0, <1>a, <1>b, <1>c, <2>1, <2>2, <3>1, <2>7 DEF Uncrossed, Measured, Initiating, Ending
    <3> QED BY <1>0, <1>a, <1>b, <1>c, <2>1, <2>2, <3>1, <2>7, <3>2, <3>3
       DEF Uncrossed, Measured, Initiating, PartsTypes, Ending
  <2> QED BY <2>4, <2>5, <2>6, <2>7 DEF PartsInv
<1>4. ASSUME ExpireUrls
      PROVE  PartsInv'
  <2>1. /\ signed' = {}
        /\ fileRow' = fileRow /\ uploadHandle' = uploadHandle /\ upload' = upload /\ arrived' = arrived
           /\ assembled' = assembled /\ broken' = broken /\ swallowed' = swallowed /\ hasty' = hasty /\ crossed' = crossed
    BY <1>4, <1>a, <1>b DEF ExpireUrls, History
  <2>2. call' = call
    BY <1>4 DEF ExpireUrls
  <2>4. PartsTypes'
    BY <1>0, <1>a, <1>b, <1>c, <2>1, <2>2 DEF PartsTypes
  <2>5. Initiating'
    BY <1>0, <1>a, <1>b, <1>c, <2>1, <2>2 DEF Initiating, PartsTypes
  <2>6. Measured'
    BY <1>0, <1>a, <1>b, <1>c, <2>1, <2>2 DEF Measured, Initiating, PartsTypes
  <2>7. ASSUME ~broken', ~swallowed', ~crossed' PROVE Uncrossed'
    <3>1. ~crossed /\ Uncrossed
      BY <1>0, <2>1, <2>7
    <3>2. \A x \in Callers : call'[x].step \in Ending => \A d \in Uploaders \ {x} : call'[d].step = "idle"
      BY <1>0, <1>a, <1>b, <1>c, <2>1, <2>2, <3>1, <2>7 DEF Uncrossed, Initiating, Ending
    <3>3. upload' = "completed" /\ uploadHandle' => \E x \in Callers : call'[x].step \in {"measure", "drop"}
      BY <1>0, <1>a, <1>b, <1>c, <2>1, <2>2, <3>1, <2>7 DEF Uncrossed, Measured, Initiating, Ending
    <3> QED BY <1>0, <1>a, <1>b, <1>c, <2>1, <2>2, <3>1, <2>7, <3>2, <3>3
       DEF Uncrossed, Measured, Initiating, PartsTypes, Ending
  <2> QED BY <2>4, <2>5, <2>6, <2>7 DEF PartsInv
<1>5. ASSUME HandleExpires
      PROVE  PartsInv'
  <2>1. /\ uploadHandle' = FALSE /\ broken' = TRUE /\ swallowed' = swallowed
        /\ fileRow' = fileRow /\ upload' = upload /\ arrived' = arrived /\ signed' = signed
           /\ assembled' = assembled /\ hasty' = hasty /\ crossed' = crossed
    BY <1>5, <1>a, <1>b DEF HandleExpires, History
  <2>2. call' = call
    BY <1>5 DEF HandleExpires
  <2>4. PartsTypes'
    BY <1>0, <1>a, <1>b, <1>c, <2>1, <2>2 DEF PartsTypes
  <2>5. Initiating'
    BY <1>0, <1>a, <1>b, <1>c, <2>1, <2>2 DEF Initiating, PartsTypes
  <2>6. Measured'
    BY <1>0, <1>a, <1>b, <1>c, <2>1, <2>2 DEF Measured, Initiating, PartsTypes
  <2> QED BY <2>1, <2>4, <2>5, <2>6 DEF PartsInv
<1>6. ASSUME NEW p \in Parts, PutPart(p)
      PROVE  PartsInv'
  <2>1. /\ arrived' = arrived \cup {p}
        /\ fileRow' = fileRow /\ uploadHandle' = uploadHandle /\ upload' = upload /\ signed' = signed
           /\ assembled' = assembled /\ broken' = broken /\ swallowed' = swallowed /\ hasty' = hasty /\ crossed' = crossed
    BY <1>6, <1>a, <1>b DEF PutPart, History
  <2>2. call' = call
    BY <1>6 DEF PutPart
  <2>4. PartsTypes'
    BY <1>0, <1>a, <1>b, <1>c, <2>1, <2>2 DEF PartsTypes
  <2>5. Initiating'
    BY <1>0, <1>a, <1>b, <1>c, <2>1, <2>2 DEF Initiating, PartsTypes
  <2>6. Measured'
    BY <1>0, <1>a, <1>b, <1>c, <2>1, <2>2 DEF Measured, Initiating, PartsTypes
  <2>7. ASSUME ~broken', ~swallowed', ~crossed' PROVE Uncrossed'
    <3>1. ~crossed /\ Uncrossed
      BY <1>0, <2>1, <2>7
    <3>2. \A x \in Callers : call'[x].step \in Ending => \A d \in Uploaders \ {x} : call'[d].step = "idle"
      BY <1>0, <1>a, <1>b, <1>c, <2>1, <2>2, <3>1, <2>7 DEF Uncrossed, Initiating, Ending
    <3>3. upload' = "completed" /\ uploadHandle' => \E x \in Callers : call'[x].step \in {"measure", "drop"}
      BY <1>0, <1>a, <1>b, <1>c, <2>1, <2>2, <3>1, <2>7 DEF Uncrossed, Measured, Initiating, Ending
    <3> QED BY <1>0, <1>a, <1>b, <1>c, <2>1, <2>2, <3>1, <2>7, <3>2, <3>3
       DEF Uncrossed, Measured, Initiating, PartsTypes, Ending
  <2> QED BY <2>4, <2>5, <2>6, <2>7 DEF PartsInv
<1>7. ASSUME NEW S \in SUBSET Parts, SignMultipartParts(S)
      PROVE  PartsInv'
  <2>1. /\ signed' = signed \cup S
        /\ fileRow' = fileRow /\ uploadHandle' = uploadHandle /\ upload' = upload /\ arrived' = arrived
           /\ assembled' = assembled /\ broken' = broken /\ swallowed' = swallowed /\ hasty' = hasty /\ crossed' = crossed
    BY <1>7, <1>a, <1>b DEF SignMultipartParts, History
  <2>2. call' = call
    BY <1>7 DEF SignMultipartParts
  <2>4. PartsTypes'
    BY <1>0, <1>a, <1>b, <1>c, <2>1, <2>2 DEF PartsTypes
  <2>5. Initiating'
    BY <1>0, <1>a, <1>b, <1>c, <2>1, <2>2 DEF Initiating, PartsTypes
  <2>6. Measured'
    BY <1>0, <1>a, <1>b, <1>c, <2>1, <2>2 DEF Measured, Initiating, PartsTypes
  <2>7. ASSUME ~broken', ~swallowed', ~crossed' PROVE Uncrossed'
    <3>1. ~crossed /\ Uncrossed
      BY <1>0, <2>1, <2>7
    <3>2. \A x \in Callers : call'[x].step \in Ending => \A d \in Uploaders \ {x} : call'[d].step = "idle"
      BY <1>0, <1>a, <1>b, <1>c, <2>1, <2>2, <3>1, <2>7 DEF Uncrossed, Initiating, Ending
    <3>3. upload' = "completed" /\ uploadHandle' => \E x \in Callers : call'[x].step \in {"measure", "drop"}
      BY <1>0, <1>a, <1>b, <1>c, <2>1, <2>2, <3>1, <2>7 DEF Uncrossed, Measured, Initiating, Ending
    <3> QED BY <1>0, <1>a, <1>b, <1>c, <2>1, <2>2, <3>1, <2>7, <3>2, <3>3
       DEF Uncrossed, Measured, Initiating, PartsTypes, Ending
  <2> QED BY <2>4, <2>5, <2>6, <2>7 DEF PartsInv
<1>8. ASSUME NEW c \in Callers, BeginComplete(c)
      PROVE  PartsInv'
  <2>1. /\ call[c].step = "idle" /\ uploadHandle
           /\ (crossed' <=> (crossed \/ \E d \in Callers : call[d].step \in Ending))
        /\ fileRow' = fileRow /\ uploadHandle' = uploadHandle /\ upload' = upload /\ arrived' = arrived
           /\ signed' = signed /\ assembled' = assembled /\ broken' = broken /\ swallowed' = swallowed /\ hasty' = hasty
    BY <1>8, <1>a, <1>b DEF BeginComplete, Load, History
  <2>a. Proceed(c, "list") /\ "list" \in Steps
    BY <1>8 DEF BeginComplete, Load, Steps
  <2>2. /\ call' \in [Uploaders -> Calls]
        /\ call'[c].step = "list" /\ call'[c].parts = call[c].parts
        /\ \A d \in Uploaders \ {c} : call'[d] = call[d]
    BY <1>a, <1>b, <2>a, ProceedTo
  <2>4. PartsTypes'
    BY <1>0, <1>a, <1>b, <1>c, <2>1, <2>2 DEF PartsTypes
  <2>5. Initiating'
    BY <1>0, <1>a, <1>b, <1>c, <2>1, <2>2 DEF Initiating, PartsTypes
  <2>6. Measured'
    BY <1>0, <1>a, <1>b, <1>c, <2>1, <2>2 DEF Measured, Initiating, PartsTypes
  <2>7. ASSUME ~broken', ~swallowed', ~crossed' PROVE Uncrossed'
    <3>1. ~crossed /\ Uncrossed
      BY <1>0, <2>1, <2>7
    <3>2. \A x \in Callers : call'[x].step \in Ending => \A d \in Uploaders \ {x} : call'[d].step = "idle"
      BY <1>0, <1>a, <1>b, <1>c, <2>1, <2>2, <3>1, <2>7 DEF Uncrossed, Initiating, Ending
    <3>3. upload' = "completed" /\ uploadHandle' => \E x \in Callers : call'[x].step \in {"measure", "drop"}
      BY <1>0, <1>a, <1>b, <1>c, <2>1, <2>2, <3>1, <2>7 DEF Uncrossed, Measured, Initiating, Ending
    <3> QED BY <1>0, <1>a, <1>b, <1>c, <2>1, <2>2, <3>1, <2>7, <3>2, <3>3
       DEF Uncrossed, Measured, Initiating, PartsTypes, Ending
  <2> QED BY <2>4, <2>5, <2>6, <2>7 DEF PartsInv
<1>9. ASSUME NEW c \in Callers, ListParts(c)
      PROVE  PartsInv'
  <2>1. /\ call[c].step = "list"
        /\ fileRow' = fileRow /\ uploadHandle' = uploadHandle /\ upload' = upload /\ arrived' = arrived
           /\ signed' = signed /\ assembled' = assembled /\ broken' = broken /\ swallowed' = swallowed /\ crossed' = crossed
    BY <1>9, <1>a, <1>b DEF ListParts, History
  <2> DEFINE new == [step |-> "assemble", parts |-> arrived]
  <2>2. /\ call' \in [Uploaders -> Calls] /\ \A d \in Uploaders \ {c} : call'[d] = call[d]
        /\ hasty => hasty'
        /\ \/ call'[c].step = "assemble" /\ upload = "open" /\ (call'[c].parts = Parts \/ hasty')
           \/ call'[c].step = "idle"
    <3>1. CASE upload = "open" /\ arrived # {}
      <4>1. call' = [call EXCEPT ![c] = new] /\ hasty' = (hasty \/ arrived # Parts)
        BY <1>9, <3>1 DEF ListParts
      <4>2. new \in Calls /\ new.step = "assemble" /\ new.parts = arrived
        BY <1>0 DEF Calls, Steps, PartsTypes
      <4> HIDE DEF new
      <4>3. call' \in [Uploaders -> Calls] /\ call'[c].step = "assemble" /\ call'[c].parts = arrived
            /\ \A d \in Uploaders \ {c} : call'[d] = call[d]
        BY <1>a, <1>b, <4>1, <4>2
      <4> QED BY <3>1, <4>1, <4>3
    <3>2. CASE ~(upload = "open" /\ arrived # {})
      <4>1. Proceed(c, "idle") /\ hasty' = hasty /\ "idle" \in Steps
        BY <1>9, <3>2 DEF ListParts, Steps
      <4>2. call' \in [Uploaders -> Calls] /\ call'[c].step = "idle" /\ \A d \in Uploaders \ {c} : call'[d] = call[d]
        BY <1>a, <1>b, <4>1, ProceedTo
      <4> QED BY <4>1, <4>2
    <3> QED BY <3>1, <3>2
  <2>4. PartsTypes'
    BY <1>0, <1>a, <1>b, <1>c, <2>1, <2>2 DEF PartsTypes
  <2>5. Initiating'
    BY <1>0, <1>a, <1>b, <1>c, <2>1, <2>2 DEF Initiating, PartsTypes
  <2>6. Measured'
    <3>1. \A x \in Callers : call'[x].step \in {"list", "assemble", "measure", "abort"} => upload' # "none"
      BY <1>0, <1>a, <1>b, <1>c, <2>1, <2>2 DEF Measured, Initiating
    <3>2. \A x \in Callers : call'[x].step = "assemble" => call'[x].parts = Parts \/ hasty'
      BY <1>0, <1>a, <1>b, <1>c, <2>1, <2>2 DEF Measured, Initiating
    <3>3. \A x \in Callers : call'[x].step = "measure" => upload' = "completed"
      BY <1>0, <1>a, <1>b, <1>c, <2>1, <2>2 DEF Measured, Initiating
    <3>4. /\ assembled'.parts # {} => assembled'.parts = Parts \/ hasty'
          /\ assembled'.there \/ assembled'.parts # {} \/ fileRow'.parts # {} => upload' = "completed"
      BY <1>0, <1>a, <1>b, <1>c, <2>1, <2>2 DEF Measured, Initiating
    <3>5. fileRow'.parts # {} => fileRow'.state = "there" /\ (fileRow'.parts = Parts \/ hasty')
      BY <1>0, <1>a, <1>b, <1>c, <2>1, <2>2 DEF Measured, Initiating
    <3>6. fileRow'.parts # {} =>
             assembled'.parts = fileRow'.parts \/ (\E x \in Callers : call'[x].step = "delete") \/ broken'
      BY <1>0, <1>a, <1>b, <1>c, <2>1, <2>2 DEF Measured, Initiating
    <3>7. fileRow'.state = "there" /\ assembled'.there /\ ~broken' /\ ~swallowed' =>
             fileRow'.parts = assembled'.parts \/ \E x \in Callers : call'[x].step = "measure"
      BY <1>0, <1>a, <1>b, <1>c, <2>1, <2>2 DEF Measured, Initiating
    <3> QED BY <3>1, <3>2, <3>3, <3>4, <3>5, <3>6, <3>7 DEF Measured
  <2>7. ASSUME ~broken', ~swallowed', ~crossed' PROVE Uncrossed'
    <3>1. ~crossed /\ Uncrossed
      BY <1>0, <2>1, <2>7
    <3>2. \A x \in Callers : call'[x].step \in Ending => \A d \in Uploaders \ {x} : call'[d].step = "idle"
      BY <1>0, <1>a, <1>b, <1>c, <2>1, <2>2, <3>1, <2>7 DEF Uncrossed, Initiating, Ending
    <3>3. upload' = "completed" /\ uploadHandle' => \E x \in Callers : call'[x].step \in {"measure", "drop"}
      BY <1>0, <1>a, <1>b, <1>c, <2>1, <2>2, <3>1, <2>7 DEF Uncrossed, Measured, Initiating, Ending
    <3>4. \A x \in Callers : call'[x].step \in {"assemble", "measure"} => fileRow'.state = "there"
      BY <1>0, <1>a, <1>b, <1>c, <2>1, <2>2, <3>1, <2>7 DEF Uncrossed, Measured, Initiating, PartsTypes,
         RowStates, Ending
    <3>5. fileRow'.state = "gone" => upload' \in {"completed", "aborted"} /\ ~assembled'.there
      BY <1>0, <1>a, <1>b, <1>c, <2>1, <2>2, <3>1, <2>7 DEF Uncrossed, Measured, Initiating, PartsTypes, Ending
    <3>6. \A x \in Callers : call'[x].step = "abort" => upload' \in {"open", "aborted"}
      BY <1>0, <1>a, <1>b, <1>c, <2>1, <2>2, <3>1, <2>7 DEF Uncrossed, Measured, Initiating, PartsTypes, Ending
    <3>7. \A x \in Callers : call'[x].step = "delete, drop" => upload' = "aborted"
      BY <1>0, <1>a, <1>b, <1>c, <2>1, <2>2, <3>1, <2>7 DEF Uncrossed, Measured, Initiating, PartsTypes, Ending
    <3>8. \A x \in Callers : call'[x].step \in {"delete object", "delete"} => upload' \in {"completed", "aborted"}
      BY <1>0, <1>a, <1>b, <1>c, <2>1, <2>2, <3>1, <2>7 DEF Uncrossed, Measured, Initiating, PartsTypes, Ending
    <3>9. \A x \in Callers : call'[x].step = "delete" => ~assembled'.there
      BY <1>0, <1>a, <1>b, <1>c, <2>1, <2>2, <3>1, <2>7 DEF Uncrossed, Measured, Initiating, PartsTypes, Ending
    <3> QED BY <3>2, <3>3, <3>4, <3>5, <3>6, <3>7, <3>8, <3>9 DEF Uncrossed
  <2> QED BY <2>4, <2>5, <2>6, <2>7 DEF PartsInv
<1>10. ASSUME NEW c \in Callers, AssembleParts(c)
      PROVE  PartsInv'
  <2>1. /\ call[c].step = "assemble"
        /\ fileRow' = fileRow /\ uploadHandle' = uploadHandle /\ arrived' = arrived /\ signed' = signed
           /\ broken' = broken /\ swallowed' = swallowed /\ hasty' = hasty /\ crossed' = crossed
    BY <1>10, <1>a, <1>b DEF AssembleParts, History
  <2>2. /\ call' \in [Uploaders -> Calls] /\ \A d \in Uploaders \ {c} : call'[d] = call[d]
        /\ \/ upload = "open" /\ call'[c].step = "measure" /\ upload' = "completed"
              /\ assembled' = [there |-> TRUE, parts |-> call[c].parts]
           \/ ~(upload = "open") /\ call'[c].step = "idle" /\ upload' = upload /\ assembled' = assembled
    <3>1. CASE upload = "open"
      <4>1. Proceed(c, "measure") /\ "measure" \in Steps /\ upload' = "completed"
            /\ assembled' = [there |-> TRUE, parts |-> call[c].parts]
        BY <1>10, <3>1 DEF AssembleParts, Steps
      <4>2. call' \in [Uploaders -> Calls] /\ call'[c].step = "measure"
            /\ \A d \in Uploaders \ {c} : call'[d] = call[d]
        BY <1>a, <1>b, <4>1, ProceedTo
      <4> QED BY <3>1, <4>1, <4>2
    <3>2. CASE ~(upload = "open")
      <4>1. Proceed(c, "idle") /\ "idle" \in Steps /\ upload' = upload /\ assembled' = assembled
        BY <1>10, <3>2 DEF AssembleParts, Steps
      <4>2. call' \in [Uploaders -> Calls] /\ call'[c].step = "idle" /\ \A d \in Uploaders \ {c} : call'[d] = call[d]
        BY <1>a, <1>b, <4>1, ProceedTo
      <4> QED BY <3>2, <4>1, <4>2
    <3> QED BY <3>1, <3>2
  <2> DEFINE made == [there |-> TRUE, parts |-> call[c].parts]
  <2>b. made \in Objects /\ made.there /\ made.parts = call[c].parts
    BY <1>a, <1>b DEF Objects
  <2>c. assembled' = made \/ (upload # "open" /\ assembled' = assembled)
    BY <2>2
  <2> HIDE DEF made
  <2>3. /\ assembled' \in Objects
        /\ upload = "open" => assembled'.there /\ assembled'.parts = call[c].parts
    <3>1. upload = "open" => assembled' = made
      BY <2>2 DEF made
    <3> QED BY <1>b, <2>b, <2>c, <3>1
  <2>4. PartsTypes'
    BY <1>0, <1>a, <1>b, <1>c, <2>1, <2>2, <2>3 DEF PartsTypes
  <2>5. Initiating'
    BY <1>0, <1>a, <1>b, <1>c, <2>1, <2>2, <2>3 DEF Initiating, PartsTypes
  <2>6. Measured'
    <3>1. \A x \in Callers : call'[x].step \in {"list", "assemble", "measure", "abort"} => upload' # "none"
      BY <1>0, <1>a, <1>b, <1>c, <2>1, <2>2, <2>3 DEF Measured, Initiating
    <3>2. \A x \in Callers : call'[x].step = "assemble" => call'[x].parts = Parts \/ hasty'
      BY <1>0, <1>a, <1>b, <1>c, <2>1, <2>2, <2>3 DEF Measured, Initiating
    <3>3. \A x \in Callers : call'[x].step = "measure" => upload' = "completed"
      BY <1>0, <1>a, <1>b, <1>c, <2>1, <2>2, <2>3 DEF Measured, Initiating
    <3>4. /\ assembled'.parts # {} => assembled'.parts = Parts \/ hasty'
          /\ assembled'.there \/ assembled'.parts # {} \/ fileRow'.parts # {} => upload' = "completed"
      BY <1>0, <1>a, <1>b, <1>c, <2>1, <2>2, <2>3 DEF Measured, Initiating
    <3>5. fileRow'.parts # {} => fileRow'.state = "there" /\ (fileRow'.parts = Parts \/ hasty')
      BY <1>0, <1>a, <1>b, <1>c, <2>1, <2>2, <2>3 DEF Measured, Initiating
    <3>6. fileRow'.parts # {} =>
             assembled'.parts = fileRow'.parts \/ (\E x \in Callers : call'[x].step = "delete") \/ broken'
      BY <1>0, <1>a, <1>b, <1>c, <2>1, <2>2, <2>3 DEF Measured, Initiating
    <3>7. fileRow'.state = "there" /\ assembled'.there /\ ~broken' /\ ~swallowed' =>
             fileRow'.parts = assembled'.parts \/ \E x \in Callers : call'[x].step = "measure"
      BY <1>0, <1>a, <1>b, <1>c, <2>1, <2>2, <2>3 DEF Measured, Initiating
    <3> QED BY <3>1, <3>2, <3>3, <3>4, <3>5, <3>6, <3>7 DEF Measured
  <2>7. ASSUME ~broken', ~swallowed', ~crossed' PROVE Uncrossed'
    <3>1. ~crossed /\ Uncrossed
      BY <1>0, <2>1, <2>7
    <3>2. \A x \in Callers : call'[x].step \in Ending => \A d \in Uploaders \ {x} : call'[d].step = "idle"
      BY <1>0, <1>a, <1>b, <1>c, <2>1, <2>2, <2>3, <3>1, <2>7 DEF Uncrossed, Initiating, Ending
    <3>3. upload' = "completed" /\ uploadHandle' => \E x \in Callers : call'[x].step \in {"measure", "drop"}
      BY <1>0, <1>a, <1>b, <1>c, <2>1, <2>2, <2>3, <3>1, <2>7 DEF Uncrossed, Measured, Initiating, Ending
    <3>4. \A x \in Callers : call'[x].step \in {"assemble", "measure"} => fileRow'.state = "there"
      BY <1>0, <1>a, <1>b, <1>c, <2>1, <2>2, <2>3, <3>1, <2>7 DEF Uncrossed, Measured, Initiating, PartsTypes, Ending
    <3>5. \A x \in Callers : call'[x].step = "abort" => upload' \in {"open", "aborted"}
      BY <1>0, <1>a, <1>b, <1>c, <2>1, <2>2, <2>3, <3>1, <2>7 DEF Uncrossed, Measured, Initiating, PartsTypes, Ending
    <3>6. \A x \in Callers : call'[x].step = "delete, drop" => upload' = "aborted"
      BY <1>0, <1>a, <1>b, <1>c, <2>1, <2>2, <2>3, <3>1, <2>7 DEF Uncrossed, Measured, Initiating, PartsTypes, Ending
    <3>7. \A x \in Callers : call'[x].step \in {"delete object", "delete"} => upload' \in {"completed", "aborted"}
      BY <1>0, <1>a, <1>b, <1>c, <2>1, <2>2, <2>3, <3>1, <2>7 DEF Uncrossed, Measured, Initiating, PartsTypes, Ending
    <3>8. \A x \in Callers : call'[x].step = "delete" => ~assembled'.there
      <4>1. \A x \in Callers \ {c} : call[x].step # "delete"
        BY <1>a, <2>1, <3>1 DEF Uncrossed, Ending
      <4> QED BY <1>a, <2>2, <4>1
    <3>9. fileRow'.state = "gone" => upload' \in {"completed", "aborted"} /\ ~assembled'.there
      BY <1>0, <1>a, <1>b, <1>c, <2>1, <2>2, <2>3, <3>1, <2>7 DEF Uncrossed, Measured, Initiating, PartsTypes, Ending
    <3> QED BY <3>2, <3>3, <3>4, <3>5, <3>6, <3>7, <3>8, <3>9 DEF Uncrossed
  <2> QED BY <2>4, <2>5, <2>6, <2>7 DEF PartsInv
<1>11. ASSUME NEW c \in Callers, MeasureObject(c)
      PROVE  PartsInv'
  <2>1. /\ call[c].step = "measure"
        /\ uploadHandle' = uploadHandle /\ upload' = upload /\ arrived' = arrived /\ signed' = signed
           /\ assembled' = assembled /\ broken' = broken /\ swallowed' = swallowed /\ hasty' = hasty /\ crossed' = crossed
    BY <1>11, <1>a, <1>b DEF MeasureObject, History
  <2>2. /\ call' \in [Uploaders -> Calls] /\ \A d \in Uploaders \ {c} : call'[d] = call[d]
        /\ \/ fileRow.state = "there" /\ call'[c].step = "drop"
              /\ fileRow' = [fileRow EXCEPT !.parts = assembled.parts]
           \/ ~(fileRow.state = "there") /\ call'[c].step = "idle" /\ fileRow' = fileRow
    <3>1. CASE fileRow.state = "there"
      <4>1. Proceed(c, "drop") /\ "drop" \in Steps /\ fileRow' = [fileRow EXCEPT !.parts = assembled.parts]
        BY <1>11, <3>1 DEF MeasureObject, Steps
      <4>2. call' \in [Uploaders -> Calls] /\ call'[c].step = "drop" /\ \A d \in Uploaders \ {c} : call'[d] = call[d]
        BY <1>a, <1>b, <4>1, ProceedTo
      <4> QED BY <3>1, <4>1, <4>2
    <3>2. CASE ~(fileRow.state = "there")
      <4>1. Proceed(c, "idle") /\ "idle" \in Steps /\ fileRow' = fileRow
        BY <1>11, <3>2 DEF MeasureObject, Steps
      <4>2. call' \in [Uploaders -> Calls] /\ call'[c].step = "idle" /\ \A d \in Uploaders \ {c} : call'[d] = call[d]
        BY <1>a, <1>b, <4>1, ProceedTo
      <4> QED BY <3>2, <4>1, <4>2
    <3> QED BY <3>1, <3>2
  <2>3. /\ fileRow' \in RowStates /\ fileRow'.state = fileRow.state
        /\ IF fileRow.state = "there" THEN fileRow'.parts = assembled.parts ELSE fileRow'.parts = fileRow.parts
    BY <1>b, <2>2 DEF RowStates, Objects
  <2>4. PartsTypes'
    BY <1>0, <1>a, <1>b, <1>c, <2>1, <2>2, <2>3 DEF PartsTypes
  <2>5. Initiating'
    BY <1>0, <1>a, <1>b, <1>c, <2>1, <2>2, <2>3 DEF Initiating, PartsTypes
  <2>6. Measured'
    BY <1>0, <1>a, <1>b, <1>c, <2>1, <2>2, <2>3 DEF Measured, Initiating, PartsTypes
  <2>7. ASSUME ~broken', ~swallowed', ~crossed' PROVE Uncrossed'
    <3>1. ~crossed /\ Uncrossed
      BY <1>0, <2>1, <2>7
    <3>2. \A x \in Callers : call'[x].step \in Ending => \A d \in Uploaders \ {x} : call'[d].step = "idle"
      BY <1>0, <1>a, <1>b, <1>c, <2>1, <2>2, <2>3, <3>1, <2>7 DEF Uncrossed, Initiating, Ending
    <3>3. upload' = "completed" /\ uploadHandle' => \E x \in Callers : call'[x].step \in {"measure", "drop"}
      BY <1>0, <1>a, <1>b, <1>c, <2>1, <2>2, <2>3, <3>1, <2>7 DEF Uncrossed, Measured, Initiating, Ending
    <3> QED BY <1>0, <1>a, <1>b, <1>c, <2>1, <2>2, <2>3, <3>1, <2>7, <3>2, <3>3
       DEF Uncrossed, Measured, Initiating, PartsTypes, Ending
  <2> QED BY <2>4, <2>5, <2>6, <2>7 DEF PartsInv
<1>12. ASSUME NEW c \in Callers, DropHandleOf(c)
      PROVE  PartsInv'
  <2>1. /\ call[c].step = "drop" /\ uploadHandle' = FALSE
        /\ fileRow' = fileRow /\ upload' = upload /\ arrived' = arrived /\ signed' = signed
           /\ assembled' = assembled /\ broken' = broken /\ swallowed' = swallowed /\ hasty' = hasty /\ crossed' = crossed
    BY <1>12, <1>a, <1>b DEF DropHandleOf, History
  <2>a. Proceed(c, "idle") /\ "idle" \in Steps
    BY <1>12 DEF DropHandleOf, Steps
  <2>2. /\ call' \in [Uploaders -> Calls]
        /\ call'[c].step = "idle"
        /\ \A d \in Uploaders \ {c} : call'[d] = call[d]
    BY <1>a, <1>b, <2>a, ProceedTo
  <2>4. PartsTypes'
    BY <1>0, <1>a, <1>b, <1>c, <2>1, <2>2 DEF PartsTypes
  <2>5. Initiating'
    BY <1>0, <1>a, <1>b, <1>c, <2>1, <2>2 DEF Initiating, PartsTypes
  <2>6. Measured'
    <3>1. \A x \in Callers : call'[x].step \in {"list", "assemble", "measure", "abort"} => upload' # "none"
      BY <1>0, <1>a, <1>b, <1>c, <2>1, <2>2 DEF Measured, Initiating
    <3>2. \A x \in Callers : call'[x].step = "assemble" => call'[x].parts = Parts \/ hasty'
      BY <1>0, <1>a, <1>b, <1>c, <2>1, <2>2 DEF Measured, Initiating
    <3>3. \A x \in Callers : call'[x].step = "measure" => upload' = "completed"
      BY <1>0, <1>a, <1>b, <1>c, <2>1, <2>2 DEF Measured, Initiating
    <3>4. /\ assembled'.parts # {} => assembled'.parts = Parts \/ hasty'
          /\ assembled'.there \/ assembled'.parts # {} \/ fileRow'.parts # {} => upload' = "completed"
      BY <1>0, <1>a, <1>b, <1>c, <2>1, <2>2 DEF Measured, Initiating
    <3>5. fileRow'.parts # {} => fileRow'.state = "there" /\ (fileRow'.parts = Parts \/ hasty')
      BY <1>0, <1>a, <1>b, <1>c, <2>1, <2>2 DEF Measured, Initiating
    <3>6. fileRow'.parts # {} =>
             assembled'.parts = fileRow'.parts \/ (\E x \in Callers : call'[x].step = "delete") \/ broken'
      BY <1>0, <1>a, <1>b, <1>c, <2>1, <2>2 DEF Measured, Initiating
    <3>7. fileRow'.state = "there" /\ assembled'.there /\ ~broken' /\ ~swallowed' =>
             fileRow'.parts = assembled'.parts \/ \E x \in Callers : call'[x].step = "measure"
      BY <1>0, <1>a, <1>b, <1>c, <2>1, <2>2 DEF Measured, Initiating
    <3> QED BY <3>1, <3>2, <3>3, <3>4, <3>5, <3>6, <3>7 DEF Measured
  <2>7. ASSUME ~broken', ~swallowed', ~crossed' PROVE Uncrossed'
    <3>1. ~crossed /\ Uncrossed
      BY <1>0, <2>1, <2>7
    <3>2. \A x \in Callers : call'[x].step \in Ending => \A d \in Uploaders \ {x} : call'[d].step = "idle"
      BY <1>0, <1>a, <1>b, <1>c, <2>1, <2>2, <3>1, <2>7 DEF Uncrossed, Initiating, Ending
    <3>3. upload' = "completed" /\ uploadHandle' => \E x \in Callers : call'[x].step \in {"measure", "drop"}
      BY <1>0, <1>a, <1>b, <1>c, <2>1, <2>2, <3>1, <2>7 DEF Uncrossed, Measured, Initiating, Ending
    <3>4. \A x \in Callers : call'[x].step \in {"assemble", "measure"} => fileRow'.state = "there"
      BY <1>0, <1>a, <1>b, <1>c, <2>1, <2>2, <3>1, <2>7 DEF Uncrossed, Measured, Initiating, PartsTypes, Ending
    <3>5. \A x \in Callers : call'[x].step = "abort" => upload' \in {"open", "aborted"}
      BY <1>0, <1>a, <1>b, <1>c, <2>1, <2>2, <3>1, <2>7 DEF Uncrossed, Measured, Initiating, PartsTypes, Ending
    <3>6. \A x \in Callers : call'[x].step = "delete, drop" => upload' = "aborted"
      BY <1>0, <1>a, <1>b, <1>c, <2>1, <2>2, <3>1, <2>7 DEF Uncrossed, Measured, Initiating, PartsTypes, Ending
    <3>7. \A x \in Callers : call'[x].step \in {"delete object", "delete"} => upload' \in {"completed", "aborted"}
      BY <1>0, <1>a, <1>b, <1>c, <2>1, <2>2, <3>1, <2>7 DEF Uncrossed, Measured, Initiating, PartsTypes, Ending
    <3>8. \A x \in Callers : call'[x].step = "delete" => ~assembled'.there
      BY <1>0, <1>a, <1>b, <1>c, <2>1, <2>2, <3>1, <2>7 DEF Uncrossed, Measured, Initiating, PartsTypes, Ending
    <3>9. fileRow'.state = "gone" => upload' \in {"completed", "aborted"} /\ ~assembled'.there
      BY <1>0, <1>a, <1>b, <1>c, <2>1, <2>2, <3>1, <2>7 DEF Uncrossed, Measured, Initiating, PartsTypes, Ending
    <3> QED BY <3>2, <3>3, <3>4, <3>5, <3>6, <3>7, <3>8, <3>9 DEF Uncrossed
  <2> QED BY <2>4, <2>5, <2>6, <2>7 DEF PartsInv
<1>13. ASSUME NEW c \in Callers, BeginAbort(c)
      PROVE  PartsInv'
  <2>1. /\ call[c].step = "idle" /\ uploadHandle /\ (~crossed' => ~crossed
           /\ \A d \in Uploaders \ {c} : call[d].step = "idle")
        /\ fileRow' = fileRow /\ uploadHandle' = uploadHandle /\ upload' = upload /\ arrived' = arrived
           /\ signed' = signed /\ assembled' = assembled /\ broken' = broken /\ swallowed' = swallowed /\ hasty' = hasty
    BY <1>13, <1>a, <1>b DEF BeginAbort, Load, Crossing, History
  <2>a. Proceed(c, "abort") /\ "abort" \in Steps
    BY <1>13 DEF BeginAbort, Load, Crossing, Steps
  <2>2. /\ call' \in [Uploaders -> Calls]
        /\ call'[c].step = "abort" /\ call'[c].parts = call[c].parts
        /\ \A d \in Uploaders \ {c} : call'[d] = call[d]
    BY <1>a, <1>b, <2>a, ProceedTo
  <2>4. PartsTypes'
    BY <1>0, <1>a, <1>b, <1>c, <2>1, <2>2 DEF PartsTypes
  <2>5. Initiating'
    BY <1>0, <1>a, <1>b, <1>c, <2>1, <2>2 DEF Initiating, PartsTypes
  <2>6. Measured'
    BY <1>0, <1>a, <1>b, <1>c, <2>1, <2>2 DEF Measured, Initiating, PartsTypes
  <2>7. ASSUME ~broken', ~swallowed', ~crossed' PROVE Uncrossed'
    <3>1. ~crossed /\ Uncrossed
      BY <1>0, <2>1, <2>7
    <3>2. \A x \in Callers : call'[x].step \in Ending => \A d \in Uploaders \ {x} : call'[d].step = "idle"
      <4>1. \A d \in Uploaders \ {c} : call'[d].step = "idle"
        BY <2>1, <2>2, <2>7
      <4>2. \A x \in Callers : call'[x].step \in Ending => x = c
        BY <1>a, <4>1 DEF Ending
      <4> QED BY <4>1, <4>2
    <3>3. upload' = "completed" /\ uploadHandle' => \E x \in Callers : call'[x].step \in {"measure", "drop"}
      BY <1>0, <1>a, <1>b, <1>c, <2>1, <2>2, <3>1, <2>7 DEF Uncrossed, Measured, Initiating, Ending
    <3> QED BY <1>0, <1>a, <1>b, <1>c, <2>1, <2>2, <3>1, <2>7, <3>2, <3>3
       DEF Uncrossed, Measured, Initiating, PartsTypes, Ending
  <2> QED BY <2>4, <2>5, <2>6, <2>7 DEF PartsInv
<1>14. ASSUME NEW c \in Callers, AbortAtS3(c)
      PROVE  PartsInv'
  <2>1. /\ call[c].step = "abort" /\ upload' = IF upload = "open" THEN "aborted" ELSE upload
        /\ fileRow' = fileRow /\ uploadHandle' = uploadHandle /\ arrived' = arrived /\ signed' = signed
           /\ assembled' = assembled /\ broken' = broken /\ swallowed' = swallowed /\ hasty' = hasty /\ crossed' = crossed
    BY <1>14, <1>a, <1>b DEF AbortAtS3, History
  <2>a. Proceed(c, "delete, drop") /\ "delete, drop" \in Steps
    BY <1>14 DEF AbortAtS3, Steps
  <2>2. /\ call' \in [Uploaders -> Calls]
        /\ call'[c].step = "delete, drop" /\ call'[c].parts = call[c].parts
        /\ \A d \in Uploaders \ {c} : call'[d] = call[d]
    BY <1>a, <1>b, <2>a, ProceedTo
  <2>4. PartsTypes'
    BY <1>0, <1>a, <1>b, <1>c, <2>1, <2>2 DEF PartsTypes
  <2>5. Initiating'
    BY <1>0, <1>a, <1>b, <1>c, <2>1, <2>2 DEF Initiating, PartsTypes
  <2>6. Measured'
    <3>1. \A x \in Callers : call'[x].step \in {"list", "assemble", "measure", "abort"} => upload' # "none"
      BY <1>0, <1>a, <1>b, <1>c, <2>1, <2>2 DEF Measured, Initiating
    <3>2. \A x \in Callers : call'[x].step = "assemble" => call'[x].parts = Parts \/ hasty'
      BY <1>0, <1>a, <1>b, <1>c, <2>1, <2>2 DEF Measured, Initiating
    <3>3. \A x \in Callers : call'[x].step = "measure" => upload' = "completed"
      BY <1>0, <1>a, <1>b, <1>c, <2>1, <2>2 DEF Measured, Initiating
    <3>4. /\ assembled'.parts # {} => assembled'.parts = Parts \/ hasty'
          /\ assembled'.there \/ assembled'.parts # {} \/ fileRow'.parts # {} => upload' = "completed"
      BY <1>0, <1>a, <1>b, <1>c, <2>1, <2>2 DEF Measured, Initiating
    <3>5. fileRow'.parts # {} => fileRow'.state = "there" /\ (fileRow'.parts = Parts \/ hasty')
      BY <1>0, <1>a, <1>b, <1>c, <2>1, <2>2 DEF Measured, Initiating
    <3>6. fileRow'.parts # {} =>
             assembled'.parts = fileRow'.parts \/ (\E x \in Callers : call'[x].step = "delete") \/ broken'
      BY <1>0, <1>a, <1>b, <1>c, <2>1, <2>2 DEF Measured, Initiating
    <3>7. fileRow'.state = "there" /\ assembled'.there /\ ~broken' /\ ~swallowed' =>
             fileRow'.parts = assembled'.parts \/ \E x \in Callers : call'[x].step = "measure"
      BY <1>0, <1>a, <1>b, <1>c, <2>1, <2>2 DEF Measured, Initiating
    <3> QED BY <3>1, <3>2, <3>3, <3>4, <3>5, <3>6, <3>7 DEF Measured
  <2>7. ASSUME ~broken', ~swallowed', ~crossed' PROVE Uncrossed'
    <3>1. ~crossed /\ Uncrossed
      BY <1>0, <2>1, <2>7
    <3>2. \A x \in Callers : call'[x].step \in Ending => \A d \in Uploaders \ {x} : call'[d].step = "idle"
      <4>1. \A d \in Uploaders \ {c} : call'[d].step = "idle"
        BY <2>1, <2>2, <3>1 DEF Uncrossed, Ending
      <4>2. \A x \in Callers : call'[x].step \in Ending => x = c
        BY <1>a, <4>1 DEF Ending
      <4> QED BY <4>1, <4>2
    <3>3. upload' = "completed" /\ uploadHandle' => \E x \in Callers : call'[x].step \in {"measure", "drop"}
      BY <1>0, <1>a, <1>b, <1>c, <2>1, <2>2, <3>1, <2>7 DEF Uncrossed, Measured, Initiating, Ending
    <3> QED BY <1>0, <1>a, <1>b, <1>c, <2>1, <2>2, <3>1, <2>7, <3>2, <3>3
       DEF Uncrossed, Measured, Initiating, PartsTypes, Ending
  <2> QED BY <2>4, <2>5, <2>6, <2>7 DEF PartsInv
<1>15. ASSUME NEW c \in Callers, BeginDelete(c)
      PROVE  PartsInv'
  <2>1. /\ call[c].step = "idle" /\ fileRow.state = "there" /\ (~crossed' => ~crossed
           /\ upload \notin {"none", "open"} /\ \A d \in Uploaders : call[d].step = "idle")
        /\ fileRow' = fileRow /\ uploadHandle' = uploadHandle /\ upload' = upload /\ arrived' = arrived
           /\ signed' = signed /\ assembled' = assembled /\ broken' = broken /\ swallowed' = swallowed /\ hasty' = hasty
    BY <1>15, <1>a, <1>b DEF BeginDelete, History
  <2>a. Proceed(c, "delete object") /\ "delete object" \in Steps
    BY <1>15 DEF BeginDelete, Steps
  <2>2. /\ call' \in [Uploaders -> Calls]
        /\ call'[c].step = "delete object" /\ call'[c].parts = call[c].parts
        /\ \A d \in Uploaders \ {c} : call'[d] = call[d]
    BY <1>a, <1>b, <2>a, ProceedTo
  <2>4. PartsTypes'
    BY <1>0, <1>a, <1>b, <1>c, <2>1, <2>2 DEF PartsTypes
  <2>5. Initiating'
    BY <1>0, <1>a, <1>b, <1>c, <2>1, <2>2 DEF Initiating, PartsTypes
  <2>6. Measured'
    <3>1. \A x \in Callers : call'[x].step \in {"list", "assemble", "measure", "abort"} => upload' # "none"
      BY <1>0, <1>a, <1>b, <1>c, <2>1, <2>2 DEF Measured, Initiating
    <3>2. \A x \in Callers : call'[x].step = "assemble" => call'[x].parts = Parts \/ hasty'
      BY <1>0, <1>a, <1>b, <1>c, <2>1, <2>2 DEF Measured, Initiating
    <3>3. \A x \in Callers : call'[x].step = "measure" => upload' = "completed"
      BY <1>0, <1>a, <1>b, <1>c, <2>1, <2>2 DEF Measured, Initiating
    <3>4. /\ assembled'.parts # {} => assembled'.parts = Parts \/ hasty'
          /\ assembled'.there \/ assembled'.parts # {} \/ fileRow'.parts # {} => upload' = "completed"
      BY <1>0, <1>a, <1>b, <1>c, <2>1, <2>2 DEF Measured, Initiating
    <3>5. fileRow'.parts # {} => fileRow'.state = "there" /\ (fileRow'.parts = Parts \/ hasty')
      BY <1>0, <1>a, <1>b, <1>c, <2>1, <2>2 DEF Measured, Initiating
    <3>6. fileRow'.parts # {} =>
             assembled'.parts = fileRow'.parts \/ (\E x \in Callers : call'[x].step = "delete") \/ broken'
      BY <1>0, <1>a, <1>b, <1>c, <2>1, <2>2 DEF Measured, Initiating
    <3>7. fileRow'.state = "there" /\ assembled'.there /\ ~broken' /\ ~swallowed' =>
             fileRow'.parts = assembled'.parts \/ \E x \in Callers : call'[x].step = "measure"
      BY <1>0, <1>a, <1>b, <1>c, <2>1, <2>2 DEF Measured, Initiating
    <3> QED BY <3>1, <3>2, <3>3, <3>4, <3>5, <3>6, <3>7 DEF Measured
  <2>7. ASSUME ~broken', ~swallowed', ~crossed' PROVE Uncrossed'
    <3>1. ~crossed /\ Uncrossed
      BY <1>0, <2>1, <2>7
    <3>2. \A x \in Callers : call'[x].step \in Ending => \A d \in Uploaders \ {x} : call'[d].step = "idle"
      BY <1>0, <1>a, <1>b, <1>c, <2>1, <2>2, <3>1, <2>7 DEF Uncrossed, Initiating, Ending
    <3>3. upload' = "completed" /\ uploadHandle' => \E x \in Callers : call'[x].step \in {"measure", "drop"}
      BY <1>0, <1>a, <1>b, <1>c, <2>1, <2>2, <3>1, <2>7 DEF Uncrossed, Measured, Initiating, Ending
    <3> QED BY <1>0, <1>a, <1>b, <1>c, <2>1, <2>2, <3>1, <2>7, <3>2, <3>3
       DEF Uncrossed, Measured, Initiating, PartsTypes, Ending
  <2> QED BY <2>4, <2>5, <2>6, <2>7 DEF PartsInv
<1>16. ASSUME NEW c \in Callers, DeleteTheObject(c)
      PROVE  PartsInv'
  <2>1. /\ call[c].step = "delete object" /\ assembled' = NoObject
        /\ fileRow' = fileRow /\ uploadHandle' = uploadHandle /\ upload' = upload /\ arrived' = arrived
           /\ signed' = signed /\ broken' = broken /\ swallowed' = swallowed /\ hasty' = hasty /\ crossed' = crossed
    BY <1>16, <1>a, <1>b DEF DeleteTheObject, History
  <2>a. Proceed(c, "delete") /\ "delete" \in Steps
    BY <1>16 DEF DeleteTheObject, Steps
  <2>2. /\ call' \in [Uploaders -> Calls]
        /\ call'[c].step = "delete" /\ call'[c].parts = call[c].parts
        /\ \A d \in Uploaders \ {c} : call'[d] = call[d]
    BY <1>a, <1>b, <2>a, ProceedTo
  <2>3. assembled' \in Objects /\ assembled'.there = FALSE /\ assembled'.parts = {}
    BY <2>1 DEF Objects, NoObject
  <2>4. PartsTypes'
    BY <1>0, <1>a, <1>b, <1>c, <2>1, <2>2, <2>3 DEF PartsTypes
  <2>5. Initiating'
    BY <1>0, <1>a, <1>b, <1>c, <2>1, <2>2, <2>3 DEF Initiating, PartsTypes
  <2>6. Measured'
    BY <1>0, <1>a, <1>b, <1>c, <2>1, <2>2, <2>3 DEF Measured, Initiating, PartsTypes
  <2>7. ASSUME ~broken', ~swallowed', ~crossed' PROVE Uncrossed'
    <3>1. ~crossed /\ Uncrossed
      BY <1>0, <2>1, <2>7
    <3>2. \A x \in Callers : call'[x].step \in Ending => \A d \in Uploaders \ {x} : call'[d].step = "idle"
      <4>1. \A d \in Uploaders \ {c} : call'[d].step = "idle"
        BY <2>1, <2>2, <3>1 DEF Uncrossed, Ending
      <4>2. \A x \in Callers : call'[x].step \in Ending => x = c
        BY <1>a, <4>1 DEF Ending
      <4> QED BY <4>1, <4>2
    <3>3. upload' = "completed" /\ uploadHandle' => \E x \in Callers : call'[x].step \in {"measure", "drop"}
      BY <1>0, <1>a, <1>b, <1>c, <2>1, <2>2, <2>3, <3>1, <2>7 DEF Uncrossed, Measured, Initiating, Ending
    <3> QED BY <1>0, <1>a, <1>b, <1>c, <2>1, <2>2, <2>3, <3>1, <2>7, <3>2, <3>3
       DEF Uncrossed, Measured, Initiating, PartsTypes, Ending
  <2> QED BY <2>4, <2>5, <2>6, <2>7 DEF PartsInv
<1>17. ASSUME NEW c \in Callers, DeleteTheRow(c)
      PROVE  PartsInv'
  <2>1. /\ call[c].step \in {"delete", "delete, drop"} /\ fileRow' = [state |-> "gone", parts |-> {}]
        /\ uploadHandle' = uploadHandle /\ upload' = upload /\ arrived' = arrived /\ signed' = signed
           /\ assembled' = assembled /\ broken' = broken /\ swallowed' = swallowed /\ hasty' = hasty /\ crossed' = crossed
    BY <1>17, <1>a, <1>b DEF DeleteTheRow, History
  <2>2. /\ call' \in [Uploaders -> Calls] /\ \A d \in Uploaders \ {c} : call'[d] = call[d]
        /\ \/ call[c].step = "delete" /\ call'[c].step = "idle"
           \/ ~(call[c].step = "delete") /\ call'[c].step = "drop"
    <3>1. CASE call[c].step = "delete"
      <4>1. Proceed(c, "idle") /\ "idle" \in Steps
        BY <1>17, <3>1 DEF DeleteTheRow, Steps
      <4>2. call' \in [Uploaders -> Calls] /\ call'[c].step = "idle" /\ \A d \in Uploaders \ {c} : call'[d] = call[d]
        BY <1>a, <1>b, <4>1, ProceedTo
      <4> QED BY <3>1, <4>1, <4>2
    <3>2. CASE ~(call[c].step = "delete")
      <4>1. Proceed(c, "drop") /\ "drop" \in Steps
        BY <1>17, <3>2 DEF DeleteTheRow, Steps
      <4>2. call' \in [Uploaders -> Calls] /\ call'[c].step = "drop" /\ \A d \in Uploaders \ {c} : call'[d] = call[d]
        BY <1>a, <1>b, <4>1, ProceedTo
      <4> QED BY <3>2, <4>1, <4>2
    <3> QED BY <3>1, <3>2
  <2>3. fileRow' \in RowStates /\ fileRow'.state = "gone" /\ fileRow'.parts = {}
    BY <2>1 DEF RowStates
  <2>4. PartsTypes'
    BY <1>0, <1>a, <1>b, <1>c, <2>1, <2>2, <2>3 DEF PartsTypes
  <2>5. Initiating'
    BY <1>0, <1>a, <1>b, <1>c, <2>1, <2>2, <2>3 DEF Initiating, PartsTypes
  <2>6. Measured'
    <3>1. \A x \in Callers : call'[x].step \in {"list", "assemble", "measure", "abort"} => upload' # "none"
      BY <1>0, <1>a, <1>b, <1>c, <2>1, <2>2, <2>3 DEF Measured, Initiating
    <3>2. \A x \in Callers : call'[x].step = "assemble" => call'[x].parts = Parts \/ hasty'
      BY <1>0, <1>a, <1>b, <1>c, <2>1, <2>2, <2>3 DEF Measured, Initiating
    <3>3. \A x \in Callers : call'[x].step = "measure" => upload' = "completed"
      BY <1>0, <1>a, <1>b, <1>c, <2>1, <2>2, <2>3 DEF Measured, Initiating
    <3>4. /\ assembled'.parts # {} => assembled'.parts = Parts \/ hasty'
          /\ assembled'.there \/ assembled'.parts # {} \/ fileRow'.parts # {} => upload' = "completed"
      BY <1>0, <1>a, <1>b, <1>c, <2>1, <2>2, <2>3 DEF Measured, Initiating
    <3>5. fileRow'.parts # {} => fileRow'.state = "there" /\ (fileRow'.parts = Parts \/ hasty')
      BY <1>0, <1>a, <1>b, <1>c, <2>1, <2>2, <2>3 DEF Measured, Initiating
    <3>6. fileRow'.parts # {} =>
             assembled'.parts = fileRow'.parts \/ (\E x \in Callers : call'[x].step = "delete") \/ broken'
      BY <1>0, <1>a, <1>b, <1>c, <2>1, <2>2, <2>3 DEF Measured, Initiating
    <3>7. fileRow'.state = "there" /\ assembled'.there /\ ~broken' /\ ~swallowed' =>
             fileRow'.parts = assembled'.parts \/ \E x \in Callers : call'[x].step = "measure"
      BY <1>0, <1>a, <1>b, <1>c, <2>1, <2>2, <2>3 DEF Measured, Initiating
    <3> QED BY <3>1, <3>2, <3>3, <3>4, <3>5, <3>6, <3>7 DEF Measured
  <2>7. ASSUME ~broken', ~swallowed', ~crossed' PROVE Uncrossed'
    <3>1. ~crossed /\ Uncrossed
      BY <1>0, <2>1, <2>7
    <3>2. \A x \in Callers : call'[x].step \in Ending => \A d \in Uploaders \ {x} : call'[d].step = "idle"
      BY <1>0, <1>a, <1>b, <1>c, <2>1, <2>2, <2>3, <3>1, <2>7 DEF Uncrossed, Initiating, Ending
    <3>3. upload' = "completed" /\ uploadHandle' => \E x \in Callers : call'[x].step \in {"measure", "drop"}
      BY <1>0, <1>a, <1>b, <1>c, <2>1, <2>2, <2>3, <3>1, <2>7 DEF Uncrossed, Measured, Initiating, Ending
    <3>4. \A x \in Callers : call'[x].step \notin {"assemble", "measure"}
      <4>1. call[c].step \in Ending
        BY <2>1 DEF Ending
      <4>2. \A d \in Uploaders \ {c} : call[d].step = "idle"
        BY <3>1, <4>1 DEF Uncrossed
      <4> QED BY <1>a, <2>2, <4>2
    <3>5. fileRow'.state = "gone" => upload' \in {"completed", "aborted"} /\ ~assembled'.there
      BY <1>0, <1>a, <1>b, <1>c, <2>1, <2>2, <2>3, <3>1, <2>7 DEF Uncrossed, Measured, Initiating, PartsTypes, Ending
    <3>6. \A x \in Callers : call'[x].step = "abort" => upload' \in {"open", "aborted"}
      BY <1>0, <1>a, <1>b, <1>c, <2>1, <2>2, <2>3, <3>1, <2>7 DEF Uncrossed, Measured, Initiating, PartsTypes, Ending
    <3>7. \A x \in Callers : call'[x].step = "delete, drop" => upload' = "aborted"
      BY <1>0, <1>a, <1>b, <1>c, <2>1, <2>2, <2>3, <3>1, <2>7 DEF Uncrossed, Measured, Initiating, PartsTypes, Ending
    <3>8. \A x \in Callers : call'[x].step \in {"delete object", "delete"} => upload' \in {"completed", "aborted"}
      BY <1>0, <1>a, <1>b, <1>c, <2>1, <2>2, <2>3, <3>1, <2>7 DEF Uncrossed, Measured, Initiating, PartsTypes, Ending
    <3>9. \A x \in Callers : call'[x].step = "delete" => ~assembled'.there
      BY <1>0, <1>a, <1>b, <1>c, <2>1, <2>2, <2>3, <3>1, <2>7 DEF Uncrossed, Measured, Initiating, PartsTypes, Ending
    <3> QED BY <3>2, <3>3, <3>4, <3>5, <3>6, <3>7, <3>8, <3>9 DEF Uncrossed
  <2> QED BY <2>4, <2>5, <2>6, <2>7 DEF PartsInv
<1>18. ASSUME NEW c \in Uploaders, Die(c)
      PROVE  PartsInv'
  <2>1. /\ broken' = TRUE /\ swallowed' = swallowed
        /\ fileRow' = fileRow /\ uploadHandle' = uploadHandle /\ upload' = upload /\ arrived' = arrived
           /\ signed' = signed /\ assembled' = assembled /\ hasty' = hasty /\ crossed' = crossed
    BY <1>18, <1>a, <1>b DEF Die, History
  <2>a. Proceed(c, "idle") /\ "idle" \in Steps
    BY <1>18 DEF Die, Steps
  <2>2. /\ call' \in [Uploaders -> Calls]
        /\ call'[c].step = "idle"
        /\ \A d \in Uploaders \ {c} : call'[d] = call[d]
    BY <1>a, <1>b, <2>a, ProceedTo
  <2>4. PartsTypes'
    BY <1>0, <1>a, <1>b, <1>c, <2>1, <2>2 DEF PartsTypes
  <2>5. Initiating'
    BY <1>0, <1>a, <1>b, <1>c, <2>1, <2>2 DEF Initiating, PartsTypes
  <2>6. Measured'
    BY <1>0, <1>a, <1>b, <1>c, <2>1, <2>2 DEF Measured, Initiating, PartsTypes
  <2> QED BY <2>1, <2>4, <2>5, <2>6 DEF PartsInv
<1>20. ASSUME NEW c \in Callers, Swallow(c)
      PROVE  PartsInv'
  <2>1. /\ call[c].step \in {"abort", "delete, drop", "delete object", "measure"}
        /\ fileRow' = fileRow \/ (fileRow' = [fileRow EXCEPT !.parts = {}] /\ fileRow.state = "there"
                                   /\ call[c].step = "measure")
        /\ swallowed' = TRUE
        /\ uploadHandle' = uploadHandle /\ upload' = upload /\ arrived' = arrived /\ broken' = broken
           /\ signed' = signed /\ assembled' = assembled /\ hasty' = hasty /\ crossed' = crossed
    BY <1>20 DEF Swallow
  <2>a. PICK s \in {"delete, drop", "drop", "delete"} :
            /\ Proceed(c, s)
            /\ s = "delete" <=> call[c].step = "delete object"
            /\ call[c].step = "measure" => s = "drop"
    BY <1>20 DEF Swallow
  <2>b. s \in Steps /\ s # "idle"
    BY DEF Steps
  <2>2. /\ call' \in [Uploaders -> Calls]
        /\ call'[c].step = s /\ call'[c].parts = call[c].parts
        /\ \A d \in Uploaders \ {c} : call'[d] = call[d]
    BY <1>a, <1>b, <2>a, <2>b, ProceedTo
  <2>3. /\ fileRow' \in RowStates /\ fileRow'.state = fileRow.state
        /\ fileRow'.parts = fileRow.parts \/ fileRow'.parts = {}
    BY <1>b, <2>1 DEF RowStates
  <2>4. PartsTypes'
    BY <1>0, <1>a, <1>b, <1>c, <2>1, <2>2, <2>3 DEF PartsTypes
  <2>5. Initiating'
    <3>1. fileRow.state # "none"
      BY <1>0, <1>a, <2>1 DEF Initiating
    <3>2. call'[Initiator] = call[Initiator]
      BY <1>a, <2>2
    <3>3. call[Initiator].step # "idle" => s = "delete" /\ ~uploadHandle
      BY <1>0, <2>1, <2>a DEF Initiating
    <3>4. \A x \in Callers \ {c} : call'[x] = call[x]
      BY <1>a, <2>2
    <3>5. \A x \in Callers : call'[x].step \notin {"created", "signed"}
      BY <1>0, <2>2, <2>a, <3>4 DEF Initiating
    <3>6. call[Initiator].step # "idle" =>
             \A x \in Callers : call'[x].step \in {"idle", "delete object", "delete"}
      BY <1>0, <2>2, <3>3, <3>4 DEF Initiating
    <3> QED BY <1>0, <2>1, <2>3, <3>1, <3>2, <3>5, <3>6 DEF Initiating
  <2>6. Measured'
    <3>0. /\ call'[c].step \notin {"list", "assemble", "measure", "abort"}
          /\ \A x \in Callers \ {c} : call'[x] = call[x]
      BY <1>a, <2>2, <2>a
    <3>1. \A x \in Callers : call'[x].step \in {"list", "assemble", "measure", "abort"} => upload' # "none"
      BY <1>0, <2>1, <3>0 DEF Measured
    <3>2. \A x \in Callers : call'[x].step = "assemble" => call'[x].parts = Parts \/ hasty'
      BY <1>0, <2>1, <3>0 DEF Measured
    <3>3. \A x \in Callers : call'[x].step = "measure" => upload' = "completed"
      BY <1>0, <2>1, <3>0 DEF Measured
    <3>4. /\ assembled'.parts # {} => assembled'.parts = Parts \/ hasty'
          /\ assembled'.there \/ assembled'.parts # {} \/ fileRow'.parts # {} => upload' = "completed"
      BY <1>0, <1>a, <1>b, <1>c, <2>1, <2>3 DEF Measured, Initiating
    <3>5. fileRow'.parts # {} => fileRow'.state = "there" /\ (fileRow'.parts = Parts \/ hasty')
      BY <1>0, <1>a, <1>b, <1>c, <2>1, <2>3 DEF Measured, Initiating
    <3>6. fileRow'.parts # {} =>
             assembled'.parts = fileRow'.parts \/ (\E x \in Callers : call'[x].step = "delete") \/ broken'
      <4>1. \A x \in Callers : call[x].step = "delete" => call'[x].step = "delete"
        BY <1>a, <2>1, <2>2
      <4> QED BY <1>0, <2>1, <2>3, <4>1 DEF Measured
    <3> QED BY <2>1, <3>1, <3>2, <3>3, <3>4, <3>5, <3>6 DEF Measured
  <2> QED BY <2>1, <2>4, <2>5, <2>6 DEF PartsInv
<1>19. CASE UNCHANGED partsVars
  BY <1>0, <1>19 DEF partsVars, PartsInv, PartsTypes, Initiating, Measured, Uncrossed
<1> QED BY <1>1, <1>2, <1>3, <1>4, <1>5, <1>6, <1>7, <1>8, <1>9, <1>10, <1>11, <1>12, <1>13, <1>14, <1>15,
   <1>16, <1>17, <1>18, <1>19, <1>20 DEF PartsNext

\* A file's size is that of its object and of all its parts, and nothing is left behind, but
\* for the cases named (FilesService.completeMultipart, abortMultipart, deleteFile), for any
\* number of parts and requests.
THEOREM PartsAreExplained == PartsSpec => []PartsExplained
<1>1. PartsInv => PartsExplained
  <2> SUFFICES ASSUME PartsInv PROVE PartsExplained
    OBVIOUS
  <2>1. Quiet => \A c \in Callers : call[c].step = "idle"
    BY DEF Quiet, Idle, Uploaders
  <2> QED BY <2>1 DEF PartsInv, Measured, Uncrossed, PartsExplained
<1> QED BY PartsStart, PartsKept, <1>1, PTL DEF PartsSpec

-----------------------------------------------------------------------------
(* The order of the files.                                                 *)

\* The first n rows that were created.
FirstBorn(n) == {born[i] : i \in 1 .. n}

\* A reordering: the files it read, the ids it was sent.
Sortings == [files : SUBSET Arrivals, listed : Seq(Arrivals)]

\* The types of the variables of FileOrder.
OrderTypes ==
    /\ born \in Seq(Arrivals)
    /\ kept \subseteq FirstBorn(Len(born)) /\ IsFiniteSet(kept)
    /\ sortOrder \in [Arrivals -> Nat]
    /\ counted \in [Arrivals -> Nat \cup {NotCounted}]
    /\ sorting \in [Sorters -> Sortings]

\* No row is created twice.
BornOnce == \A i, j \in 1 .. Len(born) : born[i] = born[j] => i = j

\* A reordering is under way with the rows there were when it read them.
Reordering(t) ==
    /\ sorting[t].listed \in Seq(Arrivals)
    /\ \E n \in 0 .. Len(born) : sorting[t].files = FirstBorn(n) /\ Cardinality(sorting[t].files) = n

\* As long as no file was deleted, the numbers are below that of the rows, those from a list
\* that was too long apart; a file that was created in its turn and never sorted has its
\* place for a number, and those before it have no higher one.
Appended ==
    /\ kept = FirstBorn(Len(born)) /\ Cardinality(kept) = Len(born)
    /\ \A f \in Arrivals : counted[f] # NotCounted => counted[f] <= Len(born)
    /\ \A i \in 1 .. Len(born) : sortOrder[born[i]] <= Len(born) \/ born[i] \in padded
    /\ \A j \in 1 .. Len(born) : born[j] \notin sorted \cup raced =>
           /\ sortOrder[born[j]] = j - 1
           /\ \A i \in 1 .. j : sortOrder[born[i]] <= j - 1 \/ born[i] \in padded
    /\ \A t \in Sorters : sorting[t] # NoSorting => Reordering(t)

\* The inductive invariant of FileOrder.
OrderInv == OrderTypes /\ BornOnce /\ (thinned \/ Appended)

\* It holds at first.
LEMMA OrderStart == OrderInit => OrderInv
<1> SUFFICES ASSUME OrderInit PROVE OrderInv
  OBVIOUS
<1>1. born = <<>> /\ Len(born) = 0 /\ born \in Seq(Arrivals) /\ kept = {} /\ FirstBorn(Len(born)) = {}
  BY DEF OrderInit, FirstBorn
<1>2. IsFiniteSet(kept) /\ Cardinality(kept) = 0
  BY <1>1, FS_EmptySet
<1>3. NoSorting \in Sortings
  BY DEF NoSorting, Sortings
<1>4. OrderTypes
  BY <1>1, <1>2, <1>3 DEF OrderInit, OrderTypes
<1>5. \A t \in Sorters : sorting[t] = NoSorting
  BY DEF OrderInit
<1> QED BY <1>1, <1>2, <1>3, <1>4, <1>5 DEF OrderInit, OrderInv, BornOnce, Appended

\* The order of the natural numbers, as a set of pairs.
LessRel == {ss \in Nat \X Nat : ss[1] < ss[2]}

\* A set of natural numbers that is not empty has a least one.
LEMMA LeastNumber ==
    ASSUME NEW S \in SUBSET Nat, S # {}
    PROVE  \E n \in S : \A m \in S : n <= m
<1>1. IsWellFoundedOn(LessRel, Nat)
  BY NatLessThanWellFounded DEF OpToRel, LessRel
<1>2. PICK x \in S : \A y \in S : ~(<<y, x>> \in LessRel)
  BY <1>1, WFMin
<1>3. ASSUME NEW m \in S
      PROVE  x <= m
  <2>1. <<m, x>> \in Nat \X Nat
    OBVIOUS
  <2>2. ~(m < x)
    BY <1>2, <2>1 DEF LessRel
  <2> QED BY <2>2
<1> QED BY <1>3

\* The number Rank gives is at most the number of ids listed.
LEMMA RankBound ==
    ASSUME NEW f, NEW listed \in Seq(Arrivals)
    PROVE  Rank(f, listed) \in 0 .. Len(listed)
<1>1. Len(listed) \in Nat
  OBVIOUS
<1>2. CASE Places(f, listed) # {}
  <2>1. PICK k \in 1 .. Len(listed) : listed[k] = f
    BY <1>2 DEF Places
  <2>2. \E n \in Places(f, listed) : \A j \in Places(f, listed) : j <= n
    <3> DEFINE below == {m \in Nat : Len(listed) - m \in Places(f, listed)}
    <3>1. Len(listed) - k \in below
      BY <1>1, <2>1 DEF Places
    <3>2. PICK m \in below : \A j \in below : m <= j
      BY <3>1, LeastNumber
    <3>3. \A j \in Places(f, listed) : j \in 1 .. Len(listed) /\ Len(listed) - j \in below
      BY <1>1 DEF Places
    <3>4. Len(listed) - m \in Places(f, listed) /\ m \in Nat
      OBVIOUS
    <3> HIDE DEF below
    <3>5. \A j \in Places(f, listed) : j <= Len(listed) - m
      <4> TAKE j \in Places(f, listed)
      <4>1. m <= Len(listed) - j
        BY <3>2, <3>3
      <4> QED BY <1>1, <3>3, <3>4, <4>1
    <3> QED BY <3>4, <3>5
  <2>3. (CHOOSE i \in Places(f, listed) : \A j \in Places(f, listed) : j <= i) \in Places(f, listed)
    BY <2>2
  <2>4. (CHOOSE i \in Places(f, listed) : \A j \in Places(f, listed) : j <= i) \in 1 .. Len(listed)
    BY <2>3 DEF Places
  <2> QED BY <1>1, <1>2, <2>4 DEF Rank
<1>3. CASE Places(f, listed) = {}
  BY <1>1, <1>3 DEF Rank
<1> QED BY <1>2, <1>3

\* A reordering that goes on, when no row was created.
LEMMA StillReordering ==
    ASSUME NEW x \in Sorters, born' = born, sorting'[x] = sorting[x], Reordering(x)
    PROVE  Reordering(x)'
BY DEF Reordering, FirstBorn

\* Every step keeps it.
LEMMA OrderKept == OrderInv /\ [OrderNext]_orderVars => OrderInv'
<1> SUFFICES ASSUME OrderInv, [OrderNext]_orderVars PROVE OrderInv'
  OBVIOUS
<1>0. OrderTypes /\ BornOnce /\ (thinned \/ Appended)
  BY DEF OrderInv
<1>a. /\ born \in Seq(Arrivals) /\ Len(born) \in Nat /\ \A i \in 1 .. Len(born) : born[i] \in Arrivals
      /\ IsFiniteSet(kept) /\ Cardinality(kept) \in Nat /\ kept \subseteq Arrivals
  <2>1. born \in Seq(Arrivals) /\ kept \subseteq FirstBorn(Len(born)) /\ IsFiniteSet(kept)
    BY <1>0 DEF OrderTypes
  <2>2. Len(born) \in Nat /\ \A i \in 1 .. Len(born) : born[i] \in Arrivals
    BY <2>1
  <2> QED BY <2>1, <2>2, FS_CardinalityType DEF FirstBorn
<1>1. ASSUME NEW f \in Arrivals, CountFiles(f)
      PROVE  OrderInv'
  <2>1. /\ counted' = [counted EXCEPT ![f] = Cardinality(kept)]
        /\ UNCHANGED <<born, kept, sortOrder, sorting, sorted, padded, raced, thinned>>
    BY <1>1 DEF CountFiles
  <2>2. OrderTypes' /\ BornOnce'
    BY <1>0, <1>a, <2>1 DEF OrderTypes, BornOnce, FirstBorn
  <2>3. ASSUME Appended PROVE Appended'
    <3>1. \A g \in Arrivals : counted'[g] # NotCounted => counted'[g] <= Len(born)
      BY <1>0, <1>a, <2>1, <2>3 DEF Appended, OrderTypes
    <3>2. \A x \in Sorters : sorting'[x] # NoSorting => Reordering(x)'
      BY <2>1, <2>3, StillReordering DEF Appended
    <3>3. FirstBorn(Len(born))' = FirstBorn(Len(born))
      BY <2>1 DEF FirstBorn
    <3> QED BY <2>1, <2>3, <3>1, <3>2, <3>3 DEF Appended, NoSorting
  <2> QED BY <1>0, <2>1, <2>2, <2>3 DEF OrderInv
<1>2. ASSUME NEW f \in Arrivals, InsertFileRow(f)
      PROVE  OrderInv'
  <2> DEFINE n == Len(born) + 1
  <2>1. /\ f \notin ToSet(born) /\ counted[f] # NotCounted
        /\ born' = Append(born, f) /\ kept' = kept \cup {f}
        /\ sortOrder' = [sortOrder EXCEPT ![f] = counted[f]]
        /\ raced' = IF counted[f] = Cardinality(kept) THEN raced ELSE raced \cup {f}
        /\ counted' = counted /\ sorting' = sorting /\ sorted' = sorted /\ padded' = padded /\ thinned' = thinned
    BY <1>2 DEF InsertFileRow, Unborn
  <2>2. \A i \in 1 .. Len(born) : born[i] # f
    BY <1>a, <2>1 DEF ToSet
  <2>3. /\ born' \in Seq(Arrivals) /\ Len(born') = n /\ born'[n] = f
        /\ \A i \in 1 .. Len(born) : born'[i] = born[i]
    BY <1>a, <2>1
  <2>4. \A m \in 0 .. Len(born) : FirstBorn(m)' = FirstBorn(m)
    BY <1>a, <2>3 DEF FirstBorn
  <2>5. FirstBorn(Len(born))' = FirstBorn(Len(born)) \cup {f}
    <3>1. 1 .. n = 1 .. Len(born) \cup {n}
      BY <1>a
    <3>2. FirstBorn(Len(born))' = {born'[i] : i \in 1 .. n}
      BY <2>3 DEF FirstBorn
    <3> HIDE DEF n
    <3>3. {born'[i] : i \in 1 .. n} = {born'[i] : i \in 1 .. Len(born)} \cup {born'[n]}
      BY <3>1
    <3> QED BY <2>3, <3>2, <3>3 DEF FirstBorn
  <2>6. IsFiniteSet(kept') /\ f \notin kept /\ Cardinality(kept') = Cardinality(kept) + 1
    <3>1. f \notin kept
      BY <1>0, <2>2 DEF OrderTypes, FirstBorn
    <3> QED BY <1>a, <2>1, <3>1, FS_AddElement
  <2>7. OrderTypes'
    <3>1. counted[f] \in Nat
      BY <1>0, <2>1 DEF OrderTypes
    <3>2. kept' \subseteq FirstBorn(Len(born))'
      BY <1>0, <2>1, <2>5 DEF OrderTypes
    <3> QED BY <1>0, <2>1, <2>3, <2>6, <3>1, <3>2 DEF OrderTypes
  <2>8. BornOnce'
    BY <1>0, <1>a, <2>2, <2>3 DEF BornOnce
  <2>9. ASSUME Appended PROVE Appended'
    <3>1. kept' = FirstBorn(Len(born))' /\ Cardinality(kept') = Len(born')
      BY <2>1, <2>3, <2>5, <2>6, <2>9 DEF Appended
    <3>2. counted[f] \in Nat /\ counted[f] <= Len(born) /\ (f \notin raced' => counted[f] = Len(born))
      BY <1>0, <1>a, <2>1, <2>9 DEF Appended, OrderTypes
    <3>3. /\ sortOrder'[f] = counted[f]
          /\ \A i \in 1 .. Len(born) : sortOrder'[born[i]] = sortOrder[born[i]] /\ sortOrder[born[i]] \in Nat
      BY <1>0, <1>a, <2>1, <2>2 DEF OrderTypes
    <3>4. \A g \in Arrivals : counted'[g] # NotCounted => counted'[g] <= Len(born')
      BY <1>0, <1>a, <2>1, <2>3, <2>9 DEF Appended, OrderTypes
    <3>5. \A i \in 1 .. Len(born') : sortOrder'[born'[i]] <= Len(born') \/ born'[i] \in padded'
      BY <1>a, <2>1, <2>3, <2>9, <3>2, <3>3 DEF Appended
    <3>6. ASSUME NEW j \in 1 .. Len(born'), born'[j] \notin sorted' \cup raced'
          PROVE  /\ sortOrder'[born'[j]] = j - 1
                 /\ \A i \in 1 .. j : sortOrder'[born'[i]] <= j - 1 \/ born'[i] \in padded'
      <4>1. CASE j = n
        BY <1>a, <2>1, <2>3, <2>9, <3>2, <3>3, <3>6, <4>1 DEF Appended
      <4>2. CASE j # n
        <5>1. j \in 1 .. Len(born) /\ born[j] \notin sorted \cup raced /\ born'[j] = born[j]
          BY <1>a, <2>1, <2>3, <3>6, <4>2
        <5>2. \A i \in 1 .. j : i \in 1 .. Len(born) /\ born'[i] = born[i]
          BY <1>a, <2>3, <5>1
        <5> QED BY <2>1, <2>9, <3>3, <5>1, <5>2 DEF Appended
      <4> QED BY <4>1, <4>2
    <3>7. ASSUME NEW t \in Sorters, sorting'[t] # NoSorting PROVE Reordering(t)'
      <4>1. /\ sorting[t].listed \in Seq(Arrivals)
            /\ \E m \in 0 .. Len(born) : sorting[t].files = FirstBorn(m) /\ Cardinality(sorting[t].files) = m
        BY <2>1, <2>9, <3>7 DEF Appended, Reordering, NoSorting
      <4>2. PICK m \in 0 .. Len(born) : sorting[t].files = FirstBorn(m) /\ Cardinality(sorting[t].files) = m
        BY <4>1
      <4>3. m \in 0 .. Len(born')
        BY <1>a, <2>3
      <4> QED BY <2>1, <2>4, <4>1, <4>2, <4>3 DEF Reordering
    <3>8. NoSorting' = NoSorting
      BY DEF NoSorting
    <3> QED BY <3>1, <3>4, <3>5, <3>6, <3>7, <3>8 DEF Appended
  <2> QED BY <1>0, <2>1, <2>7, <2>8, <2>9 DEF OrderInv
<1>3. ASSUME NEW f \in Arrivals, DeleteFile(f)
      PROVE  OrderInv'
  <2>1. kept' = kept \ {f} /\ thinned' /\ UNCHANGED <<born, sortOrder, counted, sorting>>
    BY <1>3 DEF DeleteFile
  <2>2. IsFiniteSet(kept')
    BY <1>a, <2>1, FS_RemoveElement
  <2> QED BY <1>0, <2>1, <2>2 DEF OrderInv, OrderTypes, BornOnce, FirstBorn
<1>4. ASSUME NEW t \in Sorters, WriteOrder(t)
      PROVE  OrderInv'
  <2>1. /\ sorting[t] # NoSorting /\ sorting' = [sorting EXCEPT ![t] = NoSorting]
        /\ UNCHANGED <<born, kept, counted, raced, thinned>>
    BY <1>4 DEF WriteOrder
  <2>2. /\ NoSorting \in Sortings /\ sorting[t] \in Sortings
        /\ \A x \in Sorters \ {t} : sorting'[x] = sorting[x]
        /\ sorting'[t] = NoSorting
    BY <1>0, <2>1 DEF OrderTypes, NoSorting, Sortings
  <2>3. sorting[t].listed \in Seq(Arrivals)
    BY <2>2 DEF Sortings
  <2>4. \/ UNCHANGED <<sortOrder, sorted, padded>>
        \/ /\ sortOrder' = [f \in Arrivals |-> IF f \in sorting[t].files THEN Rank(f, sorting[t].listed)
                                               ELSE sortOrder[f]]
           /\ sorted' = sorted \cup sorting[t].files
           /\ padded' = IF Len(sorting[t].listed) > Cardinality(sorting[t].files)
                        THEN padded \cup sorting[t].files ELSE padded
    BY <1>4 DEF WriteOrder
  <2>5. sortOrder' \in [Arrivals -> Nat]
    <3>1. sortOrder \in [Arrivals -> Nat]
      BY <1>0 DEF OrderTypes
    <3>2. \A f \in Arrivals : Rank(f, sorting[t].listed) \in Nat
      BY <2>3, RankBound
    <3> QED BY <2>4, <3>1, <3>2
  <2>6. OrderTypes' /\ BornOnce'
    BY <1>0, <2>1, <2>2, <2>5 DEF OrderTypes, BornOnce, FirstBorn
  <2>7. ASSUME Appended PROVE Appended'
    <3>1. \A x \in Sorters : sorting'[x] # NoSorting => Reordering(x)'
      BY <2>1, <2>2, <2>7, StillReordering DEF Appended
    <3>2. CASE UNCHANGED <<sortOrder, sorted, padded>>
      BY <2>1, <2>7, <3>1, <3>2 DEF Appended, FirstBorn, NoSorting
    <3>3. CASE /\ sortOrder' = [f \in Arrivals |-> IF f \in sorting[t].files THEN Rank(f, sorting[t].listed)
                                                   ELSE sortOrder[f]]
               /\ sorted' = sorted \cup sorting[t].files
               /\ padded' = IF Len(sorting[t].listed) > Cardinality(sorting[t].files)
                            THEN padded \cup sorting[t].files ELSE padded
      <4>1. PICK m \in 0 .. Len(born) : sorting[t].files = FirstBorn(m) /\ Cardinality(sorting[t].files) = m
        BY <2>1, <2>7 DEF Appended, Reordering
      <4>p. padded \subseteq padded'
        BY <3>3
      <4>2. ASSUME NEW i \in 1 .. Len(born)
            PROVE  /\ sortOrder'[born[i]] \in Nat
                   /\ \/ sortOrder'[born[i]] = sortOrder[born[i]] \/ sortOrder'[born[i]] <= m
                      \/ born[i] \in padded'
                   /\ i > m => sortOrder'[born[i]] = sortOrder[born[i]]
        <5>1. born[i] \in Arrivals
          BY <1>a
        <5>2. i > m => born[i] \notin sorting[t].files
          BY <1>0, <1>a, <4>1 DEF FirstBorn, BornOnce
        <5>3. Rank(born[i], sorting[t].listed) \in 0 .. Len(sorting[t].listed)
          BY <2>3, RankBound
        <5>4. Rank(born[i], sorting[t].listed) <= m \/ Len(sorting[t].listed) > Cardinality(sorting[t].files)
          BY <2>3, <4>1, <5>3
        <5>5. born[i] \in sorting[t].files \/ sortOrder'[born[i]] = sortOrder[born[i]]
          BY <3>3, <5>1
        <5> QED BY <2>5, <3>3, <5>1, <5>2, <5>4, <5>5
      <4>3. \A i \in 1 .. Len(born) : sortOrder'[born[i]] <= Len(born) \/ born[i] \in padded'
        BY <1>a, <2>7, <4>1, <4>2, <4>p DEF Appended
      <4>4. ASSUME NEW j \in 1 .. Len(born), born[j] \notin sorted' \cup raced
            PROVE  /\ sortOrder'[born[j]] = j - 1
                   /\ \A i \in 1 .. j : sortOrder'[born[i]] <= j - 1 \/ born[i] \in padded'
        <5>1. j > m
          BY <1>a, <3>3, <4>1, <4>4 DEF FirstBorn
        <5>2. born[j] \notin sorted \cup raced
          BY <3>3, <4>4
        <5>3. /\ sortOrder[born[j]] = j - 1
              /\ \A i \in 1 .. j : sortOrder[born[i]] <= j - 1 \/ born[i] \in padded
          BY <2>7, <5>2 DEF Appended
        <5>4. \A i \in 1 .. j : i \in 1 .. Len(born)
          BY <1>a
        <5>5. \A i \in 1 .. j : \/ sortOrder'[born[i]] = sortOrder[born[i]] \/ sortOrder'[born[i]] <= m
                                \/ born[i] \in padded'
          BY <4>2, <5>4
        <5>6. sortOrder'[born[j]] = j - 1
          BY <4>2, <5>1, <5>3
        <5>7. \A i \in 1 .. j : sortOrder'[born[i]] \in Nat
          BY <4>2, <5>4
        <5>8. ASSUME NEW i \in 1 .. j, born[i] \notin padded' PROVE sortOrder'[born[i]] <= j - 1
          <6>1. CASE sortOrder'[born[i]] = sortOrder[born[i]]
            BY <4>p, <5>3, <5>8, <6>1
          <6>2. CASE sortOrder'[born[i]] <= m
            BY <1>a, <5>1, <5>7, <6>2
          <6> QED BY <5>5, <5>8, <6>1, <6>2
        <5> QED BY <5>6, <5>8
      <4> QED BY <2>1, <2>7, <3>1, <4>3, <4>4 DEF Appended, FirstBorn, NoSorting
    <3> QED BY <2>4, <3>2, <3>3
  <2> QED BY <1>0, <2>1, <2>6, <2>7 DEF OrderInv
<1>5. ASSUME NEW t \in Sorters, NEW n \in 0 .. MaxListed, NEW o \in [1 .. n -> Arrivals], ReadFiles(t, o)
      PROVE  OrderInv'
  <2> DEFINE new == [files |-> kept, listed |-> o]
  <2>1. sorting' = [sorting EXCEPT ![t] = new]
        /\ UNCHANGED <<born, kept, sortOrder, counted, sorted, padded, raced, thinned>>
    BY <1>5 DEF ReadFiles
  <2>2. o \in Seq(Arrivals)
    <3>1. n \in Nat
      BY FileOrderAssumption DEF FileOrderAssumption
    <3> QED BY <3>1
  <2>3. new \in Sortings /\ new.files = kept /\ new.listed = o
    BY <1>a, <2>2 DEF Sortings
  <2> HIDE DEF new
  <2>4. sorting'[t] = new /\ \A x \in Sorters \ {t} : sorting'[x] = sorting[x]
    BY <1>0, <2>1 DEF OrderTypes
  <2>5. OrderTypes' /\ BornOnce'
    BY <1>0, <2>1, <2>3 DEF OrderTypes, BornOnce, FirstBorn
  <2>6. ASSUME Appended PROVE Appended'
    <3>1. Reordering(t)'
      <4>1. /\ sorting'[t].listed \in Seq(Arrivals) /\ Len(born) \in 0 .. Len(born)
            /\ sorting'[t].files = FirstBorn(Len(born)) /\ Cardinality(sorting'[t].files) = Len(born)
        BY <1>a, <2>2, <2>3, <2>4, <2>6 DEF Appended
      <4> QED BY <2>1, <4>1 DEF Reordering, FirstBorn
    <3>2. \A x \in Sorters : sorting'[x] # NoSorting => Reordering(x)'
      BY <2>1, <2>4, <2>6, <3>1, StillReordering DEF Appended
    <3> QED BY <2>1, <2>6, <3>2 DEF Appended, FirstBorn, NoSorting
  <2> QED BY <1>0, <2>1, <2>5, <2>6 DEF OrderInv
<1>6. CASE UNCHANGED orderVars
  <2>1. UNCHANGED <<born, kept, sortOrder, counted, sorting, sorted, padded, raced, thinned>>
    BY <1>6 DEF orderVars
  <2>2. OrderTypes' /\ BornOnce'
    BY <1>0, <2>1 DEF OrderTypes, BornOnce, FirstBorn
  <2>3. ASSUME Appended PROVE Appended'
    <3>1. \A x \in Sorters : sorting'[x] # NoSorting => Reordering(x)'
      BY <2>1, <2>3, StillReordering DEF Appended
    <3>2. FirstBorn(Len(born))' = FirstBorn(Len(born))
      BY <2>1 DEF FirstBorn
    <3> QED BY <2>1, <2>3, <3>1, <3>2 DEF Appended, NoSorting
  <2> QED BY <1>0, <2>1, <2>2, <2>3 DEF OrderInv
<1> QED BY <1>1, <1>2, <1>3, <1>4, <1>5, <1>6 DEF OrderNext

\* New uploads append to the end (FilesService.nextSortOrder), unless files were deleted,
\* created while they were counted, or numbered from a list of more ids than files
\* (reorderFiles), for any number of files and reorderings and lists of any length.
THEOREM AppendsAreExplained == OrderSpec => []AppendsExplained
<1>1. OrderInv => AppendsExplained
  <2> SUFFICES ASSUME OrderInv, NEW f \in kept \ (sorted \cup raced), NEW g \in kept, Before(g, f), ~thinned, g \notin padded
               PROVE  sortOrder[g] <= sortOrder[f]
    BY DEF AppendsExplained
  <2>1. born \in Seq(Arrivals) /\ Appended
    BY DEF OrderInv, OrderTypes
  <2>2. PICK i, j \in 1 .. Len(born) : i < j /\ born[i] = g /\ born[j] = f
    BY <2>1 DEF Before
  <2>3. i \in 1 .. j
    BY <2>1, <2>2
  <2> QED BY <2>1, <2>2, <2>3 DEF Appended
<1> QED BY OrderStart, OrderKept, <1>1, PTL DEF OrderSpec
=============================================================================
