--------------------------- MODULE SearchIndexProofs ---------------------------
(***************************************************************************)
(* The search index, for any number of assets, reasons and edits: why a     *)
(* document can be stale, whatever fails, and that the system left in peace  *)
(* takes only the steps of IndexMirror, both with any number of batch        *)
(* workers.  And for any asset, query and reader (Reading):  *)
(* that all ways to an asset agree.                                         *)
(***************************************************************************)
EXTENDS SearchIndex, Reading, DiscoverRows, FiniteSetTheorems, TLAPS

-----------------------------------------------------------------------------
(* Type correctness.                                                       *)

\* A document is of a revision the asset has or had.
LEMMA ContentType == ASSUME TypeOK, NEW a \in Assets PROVE Content(a) \in 0 .. MaxEdits
BY SearchIndexAssumption DEF TypeOK, Content

\* A step of a request or of a mark keeps the types.
LEMMA RequestTypes ==
    ASSUME TypeOK, NEW a \in Assets,
           \/ \E r \in Reasons : \/ Commit(a, r) \/ EnqueueSearchIndex(a, r) \/ CrashRequest(a, r)
                                 \/ MarkDirty(a, r) \/ MarkFails(a, r) \/ Forget(a, r)
           \/ DeleteRow(a) \/ DeleteDocuments(a) \/ DeleteDocumentsFails(a)
    PROVE  TypeOK'
<1> USE SearchIndexAssumption DEF TypeOK, dbVars, batchVars
<1>1. ASSUME NEW r \in Reasons, Commit(a, r) PROVE TypeOK'
  <2>1. AfterEdit(life[a], r) \in {"hidden", "shown", "gone"}
    BY DEF AfterEdit
  <2>2. rev[a] + 1 \in 0 .. MaxEdits
    BY <1>1 DEF Commit
  <2> QED BY <1>1, <2>1, <2>2 DEF Commit
<1>2. ASSUME NEW r \in Reasons, EnqueueSearchIndex(a, r) PROVE TypeOK'
  BY <1>2 DEF EnqueueSearchIndex
<1>3. ASSUME NEW r \in Reasons, CrashRequest(a, r) PROVE TypeOK'
  BY <1>3 DEF CrashRequest
<1>4. ASSUME NEW r \in Reasons, MarkDirty(a, r) \/ MarkFails(a, r) \/ Forget(a, r) PROVE TypeOK'
  <2>1. CASE MarkDirty(a, r) \/ Forget(a, r)
    BY <2>1 DEF MarkDirty, Forget
  <2>2. CASE MarkFails(a, r)
    <3>1. PICK m \in {"failed", "absent"} : mark' = [mark EXCEPT ![<<a, r>>] = m]
      BY <2>2 DEF MarkFails
    <3>2. mark' \in [Assets \X Reasons -> {"absent", "waiting", "completed", "failed"}]
      BY <3>1
    <3> QED BY <2>2, <3>2 DEF MarkFails
  <2> QED BY <1>4, <2>1, <2>2
<1>5. CASE DeleteRow(a)
  BY <1>5 DEF DeleteRow
<1>6. CASE DeleteDocuments(a)
  BY <1>6 DEF DeleteDocuments
<1>7. CASE DeleteDocumentsFails(a)
  BY <1>7 DEF DeleteDocumentsFails
<1> QED BY <1>1, <1>2, <1>3, <1>4, <1>5, <1>6, <1>7

\* A step of the batch worker keeps the types.
LEMMA BatchTypes ==
    ASSUME TypeOK, NEW w \in Workers, BatchStep(w) \/ BatchFails(w)
    PROVE  TypeOK'
<1> USE SearchIndexAssumption DEF TypeOK, dbVars, batchVars, BatchDone
<1>1. CASE ReadDirty(w)
  BY <1>1 DEF ReadDirty
<1>2. CASE Drain(w)
  BY <1>2 DEF Drain
<1>3. ASSUME NEW a \in Assets, Build(w, a) PROVE TypeOK'
  <2>1. Content(a) \in 0 .. MaxEdits
    BY ContentType
  <2> QED BY <1>3, <2>1 DEF Build
<1>4. CASE Add(w)
  BY <1>4 DEF Add
<1>5. CASE Remove(w)
  <2>1. index' \in [Assets -> 0 .. MaxEdits] /\ lost' \subseteq Assets
    BY <1>5 DEF Remove, Unwritten
  <2>2. /\ bpc' = [bpc EXCEPT ![w] = "idle"] /\ ids' = [ids EXCEPT ![w] = {}]
        /\ todo' = [todo EXCEPT ![w] = {}] /\ built' = [built EXCEPT ![w] = [a \in Assets |-> 0]]
        /\ UNCHANGED <<rev, life, owing, purging, mark, dirty>>
    BY <1>5 DEF Remove
  <2> QED BY <2>1, <2>2
<1>6. CASE BatchFails(w)
  BY <1>6 DEF BatchFails, Unwritten
<1> QED BY <1>1, <1>2, <1>3, <1>4, <1>5, <1>6 DEF BatchStep

\* Every step keeps the types.
LEMMA TypesPreserved == TypeOK /\ [Next]_vars => TypeOK'
<1> SUFFICES ASSUME TypeOK, [Next]_vars PROVE TypeOK'
  OBVIOUS
<1>1. CASE UNCHANGED vars
  BY <1>1 DEF TypeOK, vars, dbVars, batchVars
<1>2. CASE Reindex
  BY <1>2, SearchIndexAssumption DEF Reindex, TypeOK, dbVars, batchVars
<1> QED BY <1>1, <1>2, RequestTypes, BatchTypes DEF Next

\* They hold at first.
LEMMA TypesInit == Init => TypeOK
BY SearchIndexAssumption DEF Init, TypeOK

\* The types of all variables, in every reachable state.
THEOREM TypeCorrect == Spec => []TypeOK
BY TypesInit, TypesPreserved, PTL DEF Spec

-----------------------------------------------------------------------------
(* Why a document is stale.                                                *)

\* An update that no batch has read yet is on its way.
Queued(a) ==
    \/ a \in purging \cup dirty
    \/ \E r \in Reasons : <<a, r>> \in owing \/ mark[<<a, r>>] = "waiting"

\* A batch will bring the index up to date with the asset.
Carries(w, a) ==
    /\ a \in ids[w]
    /\ \/ bpc[w] = "drain" \/ a \in todo[w]
       \/ bpc[w] # "drain" /\ a \in Unwritten(w) /\ built[w][a] = Content(a)

\* A batch has built the document of the asset and is still to write it.
HasBuilt(w, a) == bpc[w] \in {"build", "add", "remove"} /\ a \in Unwritten(w) \ todo[w]

Explained(a) == Pending(a) \/ a \in lost

\* The steps of a batch: it holds assets only between its first read and its end.
BatchShape ==
    \A w \in Workers :
        /\ todo[w] \subseteq ids[w]
        /\ bpc[w] = "idle" => ids[w] = {}
        /\ bpc[w] \in {"idle", "drain", "add", "remove"} => todo[w] = {}

\* A document that was built and is still to be written is the current one, or
\* else the change that came after it is explained as that of a stale one is.
BuiltExplained ==
    \A w \in Workers, a \in Assets :
        HasBuilt(w, a) /\ built[w][a] # Content(a) => Explained(a)

\* The inductive invariant of the index.
IndexInv ==
    /\ TypeOK
    /\ \A a \in purging : life[a] = "gone"
    /\ BatchShape /\ BuiltExplained /\ StaleIsExplained

\* What is pending is queued or carried by a batch.
LEMMA PendingIs == ASSUME NEW a PROVE Pending(a) <=> Queued(a) \/ \E w \in Workers : Carries(w, a)
BY DEF Pending, Queued, Carries

\* It holds at first.
LEMMA IndexInit == Init => IndexInv
<1> SUFFICES ASSUME Init PROVE IndexInv
  OBVIOUS
<1>1. TypeOK
  BY TypesInit
<1>2. BatchShape /\ BuiltExplained
  BY DEF Init, BatchShape, BuiltExplained, HasBuilt
<1>3. StaleIsExplained
  BY DEF Init, StaleIsExplained, Content
<1> QED BY <1>1, <1>2, <1>3 DEF Init, IndexInv

\* A step that changes neither an asset's content nor its document, and takes
\* back nothing that explains it.
Spared(b) ==
    /\ Content(b)' = Content(b) /\ index'[b] = index[b]
    /\ (Queued(b) => Queued(b)') /\ (b \in lost => b \in lost')

\* The explanation of an asset that is spared stands, if the batches are left alone.
LEMMA SparedStands ==
    ASSUME NEW b, UNCHANGED batchVars, Spared(b), Explained(b) PROVE Explained(b)'
<1>1. CASE b \in lost
  BY <1>1 DEF Spared, Explained
<1>2. CASE Queued(b)
  <2>1. Queued(b)'
    BY <1>2 DEF Spared
  <2> QED BY <2>1 DEF Queued, Pending, Explained
<1>3. ASSUME NEW w \in Workers, Carries(w, b) PROVE Explained(b)'
  <2>1. Carries(w, b)'
    BY <1>3 DEF Carries, Unwritten, Spared, batchVars
  <2> QED BY <2>1 DEF Carries, Pending, Explained
<1> QED BY <1>1, <1>2, <1>3, PendingIs DEF Explained

\* A step that leaves the batches alone and is about one asset keeps the
\* invariant, if that asset is spared, or explained, or right.
LEMMA OneAssetStep ==
    ASSUME IndexInv, TypeOK', NEW a \in Assets, UNCHANGED batchVars,
           \A b \in purging' : life'[b] = "gone",
           \A b \in Assets \ {a} : Spared(b),
           \/ Spared(a)
           \/ Queued(a)' \/ a \in lost'
           \/ /\ index'[a] = Content(a)'
              /\ \A w \in Workers : HasBuilt(w, a) => built[w][a] = Content(a)'
    PROVE  IndexInv'
<1>1. BatchShape' /\ \A w \in Workers, b \in Assets : HasBuilt(w, b)' <=> HasBuilt(w, b)
  BY DEF IndexInv, BatchShape, HasBuilt, Unwritten, batchVars
<1>2. Queued(a)' \/ a \in lost' => Explained(a)'
  BY DEF Queued, Pending, Explained
<1>3. ASSUME NEW w \in Workers, NEW b \in Assets, HasBuilt(w, b), built[w][b] # Content(b)'
      PROVE  Explained(b)'
  <2>1. CASE Spared(b)
    <3>1. Explained(b)
      BY <1>3, <2>1 DEF IndexInv, BuiltExplained, Spared
    <3> QED BY <2>1, <3>1, SparedStands
  <2> QED BY <1>2, <1>3, <2>1
<1>4. ASSUME NEW b \in Assets, index'[b] # Content(b)' PROVE Explained(b)'
  <2>1. CASE Spared(b)
    <3>1. Explained(b)
      BY <1>4, <2>1 DEF IndexInv, StaleIsExplained, Explained, Spared
    <3> QED BY <2>1, <3>1, SparedStands
  <2> QED BY <1>2, <1>4, <2>1
<1>5. BuiltExplained'
  <2>1. built' = built
    BY DEF batchVars
  <2> QED BY <1>1, <1>3, <2>1 DEF BuiltExplained
<1>6. StaleIsExplained'
  BY <1>4 DEF StaleIsExplained, Explained
<1> QED BY <1>1, <1>5, <1>6 DEF IndexInv

\* A step of a request or a mark spares an asset whose updates all stay on their way.
LEMMA StillQueued ==
    ASSUME NEW b \in Assets, UNCHANGED <<dbVars, index>>, lost \subseteq lost',
           purging \subseteq purging', dirty \subseteq dirty',
           \A s \in Reasons : /\ <<b, s>> \in owing => <<b, s>> \in owing'
                              /\ mark[<<b, s>>] = "waiting" => mark'[<<b, s>>] = "waiting"
    PROVE  Spared(b)
<1>1. Content(b)' = Content(b) /\ index'[b] = index[b]
  BY DEF dbVars, Content
<1>2. ASSUME NEW s \in Reasons, <<b, s>> \in owing \/ mark[<<b, s>>] = "waiting" PROVE Queued(b)'
  <2>1. <<b, s>> \in owing' \/ mark'[<<b, s>>] = "waiting"
    BY <1>2
  <2> QED BY <2>1 DEF Queued
<1>3. b \in purging \cup dirty => Queued(b)'
  BY DEF Queued
<1> QED BY <1>1, <1>2, <1>3 DEF Spared, Queued

\* Requests and marks.
LEMMA RequestExplained ==
    ASSUME IndexInv, TypeOK', NEW a \in Assets,
           \/ \E r \in Reasons : \/ Commit(a, r) \/ EnqueueSearchIndex(a, r) \/ CrashRequest(a, r)
                                 \/ MarkDirty(a, r) \/ MarkFails(a, r) \/ Forget(a, r)
           \/ DeleteRow(a) \/ DeleteDocuments(a) \/ DeleteDocumentsFails(a)
    PROVE  IndexInv'
<1> DEFINE Others == \A b \in Assets \ {a} : Spared(b)
           PurgingGone == \A b \in purging' : life'[b] = "gone"
<1>1. ASSUME NEW r \in Reasons, Commit(a, r) PROVE IndexInv'
  <2>1. PurgingGone
    BY <1>1 DEF Commit, IndexInv, TypeOK
  <2>2. Others
    <3>1. ASSUME NEW b \in Assets \ {a} PROVE Content(b)' = Content(b)
      BY <1>1, <3>1 DEF Commit, IndexInv, TypeOK, Content
    <3>2. \A b \in Assets : Queued(b) => Queued(b)'
      BY <1>1 DEF Commit, Queued
    <3> QED BY <1>1, <3>1, <3>2 DEF Commit, Spared
  <2>3. Queued(a)' /\ UNCHANGED <<batchVars, dirty>>
    BY <1>1 DEF Commit, Queued
  <2> QED BY <2>1, <2>2, <2>3, OneAssetStep
<1>2. ASSUME NEW r \in Reasons, EnqueueSearchIndex(a, r) PROVE IndexInv'
  <2>1. Others /\ PurgingGone
    <3>1. mark' = [mark EXCEPT ![<<a, r>>] = IF mark[<<a, r>>] = "absent" THEN "waiting" ELSE mark[<<a, r>>]]
      BY <1>2 DEF EnqueueSearchIndex
    <3>2. /\ UNCHANGED <<dbVars, index, purging, dirty>> /\ lost \subseteq lost'
          /\ owing' = owing \ {<<a, r>>}
      BY <1>2 DEF EnqueueSearchIndex
    <3>3. mark \in [Assets \X Reasons -> {"absent", "waiting", "completed", "failed"}]
      BY DEF IndexInv, TypeOK
    <3>4. ASSUME NEW b \in Assets \ {a} PROVE Spared(b)
      BY <3>1, <3>2, <3>3, StillQueued
    <3> QED BY <3>2, <3>4 DEF IndexInv, dbVars
  <2>2. (Queued(a)' \/ a \in lost') /\ UNCHANGED <<batchVars, dirty>>
    BY <1>2 DEF EnqueueSearchIndex, IndexInv, TypeOK, Queued
  <2> QED BY <2>1, <2>2, OneAssetStep
<1>3. ASSUME NEW r \in Reasons, CrashRequest(a, r) PROVE IndexInv'
  <2>1. Others /\ PurgingGone
    BY <1>3 DEF CrashRequest, Spared, IndexInv, TypeOK, Content, Queued, dbVars
  <2>2. a \in lost' /\ UNCHANGED <<batchVars, dirty>>
    BY <1>3 DEF CrashRequest
  <2> QED BY <2>1, <2>2, OneAssetStep
<1>4. ASSUME NEW r \in Reasons, MarkDirty(a, r) PROVE IndexInv'
  <2>1. Others /\ PurgingGone
    <3>1. /\ UNCHANGED <<dbVars, index, purging, owing, lost>> /\ dirty \subseteq dirty'
          /\ mark' = [mark EXCEPT ![<<a, r>>] = "completed"]
      BY <1>4 DEF MarkDirty
    <3>2. mark \in [Assets \X Reasons -> {"absent", "waiting", "completed", "failed"}]
      BY DEF IndexInv, TypeOK
    <3>3. ASSUME NEW b \in Assets \ {a} PROVE Spared(b)
      BY <3>1, <3>2, StillQueued
    <3> QED BY <3>1, <3>3 DEF IndexInv, dbVars
  <2>2. Queued(a)' /\ dirty \subseteq dirty' /\ UNCHANGED batchVars
    BY <1>4 DEF MarkDirty, Queued
  <2> QED BY <2>1, <2>2, OneAssetStep
<1>5. ASSUME NEW r \in Reasons, Forget(a, r) PROVE IndexInv'
  <2>1. Others /\ Spared(a) /\ PurgingGone
    <3>1. /\ UNCHANGED <<dbVars, index, purging, dirty, owing, lost>>
          /\ mark[<<a, r>>] # "waiting" /\ mark' = [mark EXCEPT ![<<a, r>>] = "absent"]
      BY <1>5 DEF Forget
    <3>2. mark \in [Assets \X Reasons -> {"absent", "waiting", "completed", "failed"}]
      BY DEF IndexInv, TypeOK
    <3>3. ASSUME NEW b \in Assets PROVE Spared(b)
      BY <3>1, <3>2, StillQueued
    <3> QED BY <3>1, <3>3 DEF IndexInv, dbVars
  <2>2. UNCHANGED <<batchVars, dirty>>
    BY <1>5 DEF Forget
  <2> QED BY <2>1, <2>2, OneAssetStep
<1>6. CASE DeleteRow(a)
  <2>1. PurgingGone
    BY <1>6 DEF DeleteRow, IndexInv, TypeOK
  <2>2. Others
    <3>1. \A b \in Assets \ {a} : life'[b] = life[b] /\ rev'[b] = rev[b] /\ index'[b] = index[b]
      BY <1>6 DEF DeleteRow, IndexInv, TypeOK
    <3>2. \A b \in Assets : (Queued(b) => Queued(b)') /\ (b \in lost => b \in lost')
      BY <1>6 DEF DeleteRow, Queued
    <3> QED BY <3>1, <3>2 DEF Spared, Content
  <2>3. Queued(a)' /\ UNCHANGED <<batchVars, dirty>>
    BY <1>6 DEF DeleteRow, Queued
  <2> QED BY <2>1, <2>2, <2>3, OneAssetStep
<1>7. CASE DeleteDocuments(a)
  <2>1. Others /\ PurgingGone
    BY <1>7 DEF DeleteDocuments, Spared, IndexInv, TypeOK, Content, Queued, dbVars
  <2>2. index'[a] = Content(a)' /\ UNCHANGED <<batchVars, dirty>>
    BY <1>7 DEF DeleteDocuments, IndexInv, TypeOK, Content, dbVars
  <2>3. ASSUME a \notin lost', NEW w \in Workers, HasBuilt(w, a)
        PROVE  built[w][a] = Content(a)'
    BY <1>7, <2>3 DEF DeleteDocuments, Revived, HasBuilt, Unwritten, IndexInv, TypeOK, Content, dbVars
  <2> QED BY <2>1, <2>2, <2>3, OneAssetStep
<1>8. CASE DeleteDocumentsFails(a)
  <2>1. Others /\ PurgingGone
    BY <1>8 DEF DeleteDocumentsFails, Spared, IndexInv, TypeOK, Content, Queued, dbVars
  <2>2. a \in lost' /\ UNCHANGED <<batchVars, dirty>>
    BY <1>8 DEF DeleteDocumentsFails
  <2> QED BY <2>1, <2>2, OneAssetStep
<1>9. ASSUME NEW r \in Reasons, MarkFails(a, r) PROVE IndexInv'
  <2>1. PICK m : mark' = [mark EXCEPT ![<<a, r>>] = m]
    BY <1>9 DEF MarkFails
  <2>2. /\ UNCHANGED <<dbVars, index, purging, dirty, owing>> /\ lost \subseteq lost'
        /\ a \in lost' /\ UNCHANGED <<batchVars, dirty>>
    BY <1>9 DEF MarkFails
  <2>3. Others /\ PurgingGone
    <3>1. mark \in [Assets \X Reasons -> {"absent", "waiting", "completed", "failed"}]
      BY DEF IndexInv, TypeOK
    <3>2. ASSUME NEW b \in Assets \ {a} PROVE Spared(b)
      BY <2>1, <2>2, <3>1, StillQueued
    <3> QED BY <2>2, <3>2 DEF IndexInv, dbVars
  <2> QED BY <2>2, <2>3, OneAssetStep
<1> QED BY <1>1, <1>2, <1>3, <1>4, <1>5, <1>6, <1>7, <1>8, <1>9

\* The reindex script.
LEMMA ReindexExplained == ASSUME IndexInv, TypeOK', Reindex PROVE IndexInv'
<1>1. /\ UNCHANGED <<dbVars, owing, purging, mark, dirty, batchVars>>
      /\ index' = [a \in Assets |-> 0] /\ lost' = lost \cup {a \in Assets : index[a] # 0}
  BY DEF Reindex
<1>2. \A a \in Assets : Content(a)' = Content(a) /\ (Pending(a)' <=> Pending(a))
  BY <1>1 DEF Content, Pending, Unwritten, dbVars, batchVars
<1>3. BatchShape' /\ \A a \in purging' : life'[a] = "gone"
  BY <1>1 DEF IndexInv, BatchShape, dbVars, batchVars
<1>4. BuiltExplained'
  BY <1>1, <1>2 DEF IndexInv, BuiltExplained, HasBuilt, Unwritten, Explained, batchVars
<1>5. ASSUME NEW a \in Assets, index'[a] # Content(a)' PROVE Pending(a)' \/ a \in lost'
  <2>1. CASE index[a] # 0
    BY <1>1, <2>1
  <2>2. CASE index[a] = 0
    <3>1. index[a] # Content(a)
      BY <1>1, <1>2, <1>5, <2>2
    <3> QED BY <1>1, <1>2, <3>1 DEF IndexInv, StaleIsExplained
  <2> QED BY <2>1, <2>2
<1>6. StaleIsExplained'
  BY <1>5 DEF StaleIsExplained
<1> QED BY <1>3, <1>4, <1>6 DEF IndexInv

\* A step of a batch worker leaves the requests, the catalogue and the other workers alone.
LEMMA OtherBatches ==
    ASSUME TypeOK, NEW w \in Workers, BatchStep(w) \/ BatchFails(w)
    PROVE  /\ UNCHANGED <<dbVars, owing, purging, mark>> /\ lost \subseteq lost'
           /\ \A a \in Assets : Content(a)' = Content(a)
           /\ \A v \in Workers \ {w} :
                  /\ bpc'[v] = bpc[v] /\ ids'[v] = ids[v] /\ todo'[v] = todo[v] /\ built'[v] = built[v]
                  /\ \A a \in Assets : /\ Carries(v, a)' <=> Carries(v, a)
                                       /\ HasBuilt(v, a)' <=> HasBuilt(v, a)
<1>1. UNCHANGED <<dbVars, owing, purging, mark>> /\ lost \subseteq lost'
  BY DEF BatchStep, ReadDirty, Drain, Build, Add, Remove, BatchFails
<1>2. \A a \in Assets : Content(a)' = Content(a)
  BY <1>1 DEF Content, dbVars
<1>3. ASSUME NEW v \in Workers \ {w}
      PROVE  bpc'[v] = bpc[v] /\ ids'[v] = ids[v] /\ todo'[v] = todo[v] /\ built'[v] = built[v]
  <2> USE DEF TypeOK
  <2>1. CASE ReadDirty(w) \/ Drain(w)
    BY <2>1 DEF ReadDirty, Drain
  <2>2. ASSUME NEW a \in Assets, Build(w, a)
        PROVE  bpc'[v] = bpc[v] /\ ids'[v] = ids[v] /\ todo'[v] = todo[v] /\ built'[v] = built[v]
    BY <2>2 DEF Build
  <2>3. CASE Add(w)
    BY <2>3 DEF Add
  <2>4. CASE Remove(w) \/ BatchFails(w)
    BY <2>4 DEF Remove, BatchFails, BatchDone
  <2> QED BY <2>1, <2>2, <2>3, <2>4 DEF BatchStep
<1>4. ASSUME NEW v \in Workers \ {w}, NEW a \in Assets
      PROVE  (Carries(v, a)' <=> Carries(v, a)) /\ (HasBuilt(v, a)' <=> HasBuilt(v, a))
  BY <1>2, <1>3 DEF Carries, HasBuilt, Unwritten
<1> QED BY <1>1, <1>2, <1>3, <1>4

\* A step of a batch worker that writes the documents it has built of some assets, and
\* takes back nothing that explains another, keeps the invariant.
LEMMA WrittenStep ==
    ASSUME IndexInv, TypeOK', NEW w \in Workers, BatchStep(w) \/ BatchFails(w), BatchShape',
           NEW W \in SUBSET Assets,
           \A b \in Assets \ W : index'[b] = index[b] /\ (Explained(b) => Explained(b)'),
           \A b \in W : /\ bpc[w] \in {"add", "remove"} /\ b \in Unwritten(w)
                        /\ index'[b] = built[w][b] /\ (Crossed(w, b) => b \in lost'),
           UNCHANGED dirty \/ W = {},
           \A b \in Assets : HasBuilt(w, b)' =>
               \/ built'[w][b] = Content(b)
               \/ b \notin W /\ HasBuilt(w, b) /\ built'[w][b] = built[w][b]
    PROVE  IndexInv'
<1>1. /\ UNCHANGED <<dbVars, owing, purging, mark>> /\ lost \subseteq lost'
      /\ \A a \in Assets : Content(a)' = Content(a)
      /\ \A v \in Workers \ {w} :
             /\ built'[v] = built[v]
             /\ \A a \in Assets : (Carries(v, a)' <=> Carries(v, a)) /\ (HasBuilt(v, a)' <=> HasBuilt(v, a))
  BY OtherBatches DEF IndexInv
<1>2. ASSUME NEW b \in W PROVE HasBuilt(w, b)
  BY <1>2 DEF HasBuilt, IndexInv, BatchShape
<1>3. ASSUME NEW b \in W, built[w][b] # Content(b) PROVE Explained(b)'
  <2>1. Explained(b) /\ ~Carries(w, b)
    BY <1>2, <1>3 DEF IndexInv, BuiltExplained, Carries, HasBuilt
  <2>2. CASE b \in lost
    BY <1>1, <2>2 DEF Explained
  <2>3. CASE Queued(b)
    <3>1. UNCHANGED <<owing, purging, mark, dirty>>
      BY <1>1, <1>3
    <3>2. Queued(b)'
      BY <2>3, <3>1 DEF Queued
    <3> QED BY <3>2 DEF Queued, Pending, Explained
  <2>4. ASSUME NEW v \in Workers, Carries(v, b) PROVE Explained(b)'
    <3>1. Carries(v, b)'
      BY <1>1, <2>1, <2>4
    <3> QED BY <3>1 DEF Carries, Pending, Explained
  <2> QED BY <2>1, <2>2, <2>3, <2>4, PendingIs DEF Explained
<1>4. ASSUME NEW b \in Assets, index'[b] # Content(b)' PROVE Explained(b)'
  <2>1. CASE b \in W
    BY <1>1, <1>3, <1>4, <2>1
  <2>2. CASE b \notin W
    BY <1>1, <1>4, <2>2 DEF IndexInv, StaleIsExplained, Explained
  <2> QED BY <2>1, <2>2
<1>5. ASSUME NEW v \in Workers, NEW b \in Assets, HasBuilt(v, b)', built'[v][b] # Content(b)'
      PROVE  Explained(b)'
  <2>1. CASE b \notin W
    <3>1. HasBuilt(v, b) /\ built[v][b] # Content(b)
      BY <1>1, <1>5
    <3>2. Explained(b)
      BY <3>1 DEF IndexInv, BuiltExplained
    <3> QED BY <2>1, <3>2
  <2>2. CASE b \in W /\ built[w][b] # Content(b)
    BY <1>3, <2>2
  <2>3. CASE b \in W /\ built[w][b] = Content(b)
    <3>1. v # w
      BY <1>1, <1>5, <2>3
    <3>2. HasBuilt(v, b) /\ built[v][b] # built[w][b]
      BY <1>1, <1>5, <2>3, <3>1
    <3>3. Crossed(w, b)
      BY <3>1, <3>2 DEF Crossed, HasBuilt
    <3> QED BY <2>3, <3>3 DEF Explained
  <2> QED BY <2>1, <2>2, <2>3
<1>6. BuiltExplained'
  BY <1>5 DEF BuiltExplained
<1>7. StaleIsExplained'
  BY <1>4 DEF StaleIsExplained, Explained
<1>8. \A a \in purging' : life'[a] = "gone"
  BY <1>1 DEF IndexInv, dbVars
<1> QED BY <1>6, <1>7, <1>8 DEF IndexInv

\* The explanation of an asset stands, if what the queues and this worker had of it is
\* queued or carried still, or lost.
LEMMA BatchStands ==
    ASSUME IndexInv, NEW w \in Workers, BatchStep(w) \/ BatchFails(w), NEW b \in Assets,
           b \in dirty \/ Carries(w, b) => b \in dirty' \/ Explained(b)', Explained(b)
    PROVE  Explained(b)'
<1>1. /\ UNCHANGED <<owing, purging, mark>> /\ lost \subseteq lost'
      /\ \A v \in Workers \ {w} : Carries(v, b)' <=> Carries(v, b)
  BY OtherBatches DEF IndexInv
<1>2. CASE b \in lost
  BY <1>1, <1>2 DEF Explained
<1>3. CASE b \in dirty'
  BY <1>3 DEF Pending, Explained
<1>4. CASE Queued(b) /\ b \notin dirty
  BY <1>1, <1>4 DEF Queued, Pending, Explained
<1>5. ASSUME NEW v \in Workers \ {w}, Carries(v, b) PROVE Explained(b)'
  <2>1. Carries(v, b)'
    BY <1>1, <1>5
  <2> QED BY <2>1 DEF Carries, Pending, Explained
<1> QED BY <1>2, <1>3, <1>4, <1>5, PendingIs DEF Explained

\* A batch worker that carries an asset explains it.
LEMMA CarriedIsExplained == ASSUME NEW w \in Workers, NEW a PROVE Carries(w, a) => Explained(a)
BY DEF Carries, Pending, Explained

\* The batch worker.
LEMMA BatchExplained ==
    ASSUME IndexInv, TypeOK', NEW w \in Workers, BatchStep(w) \/ BatchFails(w)
    PROVE  IndexInv'
<1>0. TypeOK /\ BatchShape
  BY DEF IndexInv
<1>1. CASE ReadDirty(w)
  <2>1. /\ bpc[w] = "idle" /\ bpc'[w] = "drain" /\ dirty' = dirty /\ index' = index
        /\ ids[w] = {}
    BY <1>0, <1>1 DEF ReadDirty, TypeOK, BatchShape
  <2>2. BatchShape'
    BY <1>0, <1>1 DEF ReadDirty, TypeOK, BatchShape
  <2>3. \A b \in Assets : Explained(b) => Explained(b)'
    <3>1. \A b \in Assets : ~Carries(w, b)
      BY <2>1 DEF Carries
    <3> QED BY <2>1, <3>1, BatchStands
  <2>4. \A b \in Assets : ~HasBuilt(w, b)'
    BY <2>1 DEF HasBuilt
  <2> QED BY <2>1, <2>2, <2>3, <2>4, WrittenStep, {} \in SUBSET Assets
<1>2. CASE Drain(w)
  <2>1. /\ bpc[w] = "drain" /\ bpc'[w] = "build" /\ ids' = ids /\ todo'[w] = ids[w] /\ index' = index
        /\ lost' = lost \cup {a \in dirty : \A v \in Workers : bpc[v] = "drain" => a \notin ids[v]}
    BY <1>0, <1>2 DEF Drain, TypeOK
  <2>2. BatchShape'
    BY <1>0, <1>2 DEF Drain, TypeOK, BatchShape
  <2>3. \A v \in Workers \ {w} : \A b \in Assets : Carries(v, b)' <=> Carries(v, b)
    BY <1>0, OtherBatches
  <2>4. ASSUME NEW b \in ids[w] PROVE Explained(b)'
    <3>1. Carries(w, b)'
      BY <2>1, <2>4 DEF Carries
    <3> QED BY <3>1 DEF Carries, Pending, Explained
  <2>5. ASSUME NEW b \in Assets, b \in dirty \/ Carries(w, b) PROVE Explained(b)'
    <3>1. CASE b \in ids[w]
      BY <2>4, <3>1
    <3>2. ASSUME NEW v \in Workers \ {w}, bpc[v] = "drain", b \in ids[v] PROVE Explained(b)'
      <4>1. Carries(v, b)
        BY <3>2 DEF Carries
      <4>2. Carries(v, b)'
        BY <2>3, <4>1
      <4> QED BY <4>2 DEF Carries, Pending, Explained
    <3>3. CASE b \in dirty /\ \A v \in Workers : bpc[v] = "drain" => b \notin ids[v]
      BY <2>1, <3>3 DEF Explained
    <3> QED BY <2>5, <3>1, <3>2, <3>3 DEF Carries
  <2>6. \A b \in Assets : Explained(b) => Explained(b)'
    BY <2>5, BatchStands
  <2>7. \A b \in Assets : ~HasBuilt(w, b)'
    BY <2>1 DEF HasBuilt, Unwritten
  <2> QED BY <2>1, <2>2, <2>6, <2>7, WrittenStep, {} \in SUBSET Assets
<1>3. ASSUME NEW a \in Assets, Build(w, a) PROVE IndexInv'
  <2>1. /\ built'[w][a] = Content(a) /\ todo'[w] = todo[w] \ {a} /\ a \in ids[w]
        /\ \A b \in Assets \ {a} : built'[w][b] = built[w][b]
        /\ bpc'[w] = (IF todo[w] = {a} THEN "add" ELSE "build")
        /\ UNCHANGED <<ids, index, dirty>> /\ bpc[w] = "build"
    BY <1>0, <1>3 DEF Build, TypeOK, BatchShape
  <2>2. BatchShape'
    BY <1>0, <1>3 DEF Build, TypeOK, BatchShape
  <2>3. \A b \in Assets : Content(b)' = Content(b)
    BY <1>0, OtherBatches
  <2>4. Unwritten(w) = ids[w] /\ Unwritten(w)' = ids[w]
    BY <2>1 DEF Unwritten
  <2>5. ASSUME NEW b \in Assets, Carries(w, b) PROVE Carries(w, b)'
    BY <2>1, <2>3, <2>4, <2>5 DEF Carries
  <2>6. \A b \in Assets : Carries(w, b) => Explained(b)'
    <3>1. \A b \in Assets : Carries(w, b)' => Explained(b)'
      BY DEF Carries, Pending, Explained
    <3> QED BY <2>5, <3>1
  <2>7. \A b \in Assets : Explained(b) => Explained(b)'
    BY <2>1, <2>6, BatchStands
  <2>8. \A b \in Assets : HasBuilt(w, b)' =>
            \/ built'[w][b] = Content(b)
            \/ HasBuilt(w, b) /\ built'[w][b] = built[w][b]
    BY <2>1, <2>4 DEF HasBuilt
  <2> QED BY <2>1, <2>2, <2>7, <2>8, WrittenStep, {} \in SUBSET Assets
<1>4. CASE Add(w)
  <2> DEFINE W == {b \in ids[w] : built[w][b] # 0}
  <2>1. /\ bpc[w] = "add" /\ bpc'[w] = "remove" /\ todo[w] = {} /\ todo' = todo
        /\ UNCHANGED <<ids, built, dirty>> /\ W \in SUBSET Assets
        /\ \A b \in Assets : index'[b] = IF b \in W THEN built[w][b] ELSE index[b]
        /\ \A b \in W : Crossed(w, b) => b \in lost'
    BY <1>0, <1>4 DEF Add, TypeOK, BatchShape
  <2>2. Unwritten(w) = ids[w] /\ Unwritten(w)' = ids[w] \ W
    BY <2>1 DEF Unwritten
  <2>3. BatchShape'
    BY <1>0, <1>4 DEF Add, TypeOK, BatchShape
  <2>4. \A b \in Assets : Content(b)' = Content(b)
    BY <1>0, OtherBatches
  <2> HIDE DEF W
  <2>5. ASSUME NEW b \in Assets \ W, Carries(w, b) PROVE Explained(b)'
    <3>1. Carries(w, b)'
      BY <2>1, <2>2, <2>4, <2>5 DEF Carries
    <3> QED BY <3>1 DEF Carries, Pending, Explained
  <2>6. \A b \in Assets \ W : Explained(b) => Explained(b)'
    BY <2>1, <2>5, BatchStands
  <2>7. \A b \in Assets : HasBuilt(w, b)' => b \notin W /\ HasBuilt(w, b) /\ built'[w][b] = built[w][b]
    BY <2>1, <2>2 DEF HasBuilt
  <2>8. \A b \in W : b \in Unwritten(w)
    BY <2>2 DEF W
  <2> QED BY <2>1, <2>3, <2>6, <2>7, <2>8, WrittenStep
<1>5. CASE Remove(w)
  <2> DEFINE W == Unwritten(w)
  <2>1. /\ bpc[w] = "remove" /\ bpc'[w] = "idle" /\ todo[w] = {} /\ UNCHANGED dirty
        /\ W = {b \in ids[w] : built[w][b] = 0} /\ W \in SUBSET Assets
        /\ \A b \in Assets : index'[b] = IF b \in W THEN 0 ELSE index[b]
        /\ \A b \in W : Crossed(w, b) => b \in lost'
    BY <1>0, <1>5 DEF Remove, BatchDone, Unwritten, TypeOK, BatchShape
  <2>2. BatchShape'
    BY <1>0, <1>5 DEF Remove, BatchDone, TypeOK, BatchShape
  <2>3. ASSUME NEW b \in Assets \ W PROVE ~Carries(w, b)
    BY <2>1, <2>3 DEF Carries
  <2>4. \A b \in Assets \ W : Explained(b) => Explained(b)'
    BY <2>1, <2>3, BatchStands
  <2>5. \A b \in Assets : ~HasBuilt(w, b)'
    BY <2>1 DEF HasBuilt
  <2>6. \A b \in W : b \in Unwritten(w) /\ index'[b] = built[w][b]
    BY <2>1
  <2> HIDE DEF W
  <2> QED BY <2>1, <2>2, <2>4, <2>5, <2>6, WrittenStep
<1>6. CASE BatchFails(w)
  <2>1. /\ bpc'[w] = "idle" /\ UNCHANGED <<dirty, index>>
        /\ lost' = lost \cup (IF bpc[w] = "drain" THEN ids[w] \ dirty ELSE Unwritten(w))
    BY <1>0, <1>6 DEF BatchFails, BatchDone, TypeOK
  <2>2. BatchShape'
    BY <1>0, <1>6 DEF BatchFails, BatchDone, TypeOK, BatchShape
  <2>3. ASSUME NEW b \in Assets, Carries(w, b) PROVE b \in dirty' \/ Explained(b)'
    <3>1. CASE bpc[w] = "drain"
      BY <2>1, <2>3, <3>1 DEF Carries, Explained
    <3>2. CASE bpc[w] # "drain"
      <4>1. b \in Unwritten(w)
        BY <1>0, <2>3, <3>2 DEF Carries, BatchShape, Unwritten
      <4> QED BY <2>1, <3>2, <4>1 DEF Explained
    <3> QED BY <3>1, <3>2
  <2>4. \A b \in Assets : Explained(b) => Explained(b)'
    BY <2>1, <2>3, BatchStands
  <2>5. \A b \in Assets : ~HasBuilt(w, b)'
    BY <2>1 DEF HasBuilt
  <2> QED BY <2>1, <2>2, <2>4, <2>5, WrittenStep, {} \in SUBSET Assets
<1> QED BY <1>1, <1>2, <1>3, <1>4, <1>5, <1>6 DEF BatchStep

\* A stale document has an update on its way or is one of those the code has lost, with
\* any number of batch workers: to a failed or dropped enqueue, a failed or drained mark,
\* a wiped mark, a failed batch, batches that cross, a direct removal that failed or was
\* undone, or the reindex script.
THEOREM StalenessExplained == Spec => []StaleIsExplained
<1>1. IndexInv /\ [Next]_vars => IndexInv'
  <2> SUFFICES ASSUME IndexInv, [Next]_vars PROVE IndexInv'
    OBVIOUS
  <2>1. TypeOK'
    BY TypesPreserved DEF IndexInv
  <2>2. CASE UNCHANGED vars
    BY <2>1, <2>2 DEF IndexInv, BatchShape, BuiltExplained, HasBuilt, Explained, StaleIsExplained,
                      Pending, Content, Unwritten, vars, dbVars, batchVars
  <2> QED BY <2>1, <2>2, RequestExplained, BatchExplained, ReindexExplained DEF Next
<1>2. IndexInv => StaleIsExplained
  BY DEF IndexInv
<1> QED BY IndexInit, <1>1, <1>2, PTL DEF Spec

-----------------------------------------------------------------------------
(* Left in peace, the index mirrors the catalogue.                          *)

\* Nothing changes under a batch: what it has built is current.
CalmInv ==
    /\ TypeOK
    /\ \A a \in purging : life[a] = "gone"
    /\ \A w \in Workers :
           /\ todo[w] \subseteq ids[w]
           /\ bpc[w] \in {"idle", "add", "remove"} => todo[w] = {}
           /\ bpc[w] \in {"build", "add", "remove"} =>
                  \A a \in ids[w] \ todo[w] : built[w][a] = Content(a)

\* A step of the calm system is one of the whole system.
LEMMA CalmStepIsStep == CalmNext => Next
BY DEF CalmNext, Next

\* A step of a request or of a mark keeps the invariant.
LEMMA CalmRequests ==
    ASSUME CalmInv, TypeOK', NEW a \in Assets,
           \/ \E r \in Reasons : \/ Calm(a) /\ Commit(a, r)
                                 \/ EnqueueSearchIndex(a, r) \/ MarkDirty(a, r) \/ Forget(a, r)
           \/ Calm(a) /\ DeleteRow(a)
           \/ DeleteDocuments(a)
    PROVE  CalmInv'
<1> USE DEF CalmInv, TypeOK, batchVars, dbVars
<1>1. ASSUME NEW r \in Reasons,
             EnqueueSearchIndex(a, r) \/ MarkDirty(a, r) \/ Forget(a, r) \/ DeleteDocuments(a)
      PROVE  CalmInv'
  BY <1>1 DEF EnqueueSearchIndex, MarkDirty, Forget, DeleteDocuments, Content
<1>2. ASSUME Calm(a), UNCHANGED batchVars, \A b \in purging' : life'[b] = "gone",
             \A b \in Assets \ {a} : Content(b)' = Content(b)
      PROVE  CalmInv'
  BY <1>2 DEF Calm
<1>3. ASSUME NEW r \in Reasons, Calm(a), Commit(a, r) PROVE CalmInv'
  <2>1. \A b \in Assets \ {a} : Content(b)' = Content(b)
    BY <1>3 DEF Commit, Content
  <2>2. \A b \in purging' : life'[b] = "gone"
    BY <1>3 DEF Commit
  <2> QED BY <1>2, <1>3, <2>1, <2>2 DEF Commit
<1>4. CASE Calm(a) /\ DeleteRow(a)
  <2>1. \A b \in Assets \ {a} : Content(b)' = Content(b)
    BY <1>4 DEF DeleteRow, Content
  <2>2. \A b \in purging' : life'[b] = "gone"
    BY <1>4 DEF DeleteRow
  <2> QED BY <1>2, <1>4, <2>1, <2>2 DEF DeleteRow
<1>5. CASE DeleteDocuments(a)
  BY <1>5 DEF DeleteDocuments, Content
<1> QED BY <1>1, <1>3, <1>4, <1>5

\* A step of a batch worker keeps it.
LEMMA CalmBatches ==
    ASSUME CalmInv, TypeOK', NEW w \in Workers, BatchStep(w)
    PROVE  CalmInv'
<1> USE DEF CalmInv, TypeOK, dbVars, Content
<1>1. CASE ReadDirty(w)
  BY <1>1 DEF ReadDirty
<1>2. CASE Drain(w)
  BY <1>2 DEF Drain
<1>3. ASSUME NEW a \in Assets, Build(w, a) PROVE CalmInv'
  BY <1>3 DEF Build
<1>4. CASE Add(w)
  BY <1>4 DEF Add
<1>5. CASE Remove(w)
  BY <1>5 DEF Remove, BatchDone
<1> QED BY <1>1, <1>2, <1>3, <1>4, <1>5 DEF BatchStep

\* What a step does to the index, and to the content it mirrors, is a step of
\* IndexMirror.
LEMMA MirrorStep ==
    ASSUME CalmInv, [CalmNext]_vars
    PROVE  [Mirror!Next]_(Mirror!vars)
<1> USE DEF CalmInv, TypeOK
<1> DEFINE source == [a \in Assets |-> Content(a)]
<1>1. ASSUME index' = index, \A a \in Assets : Content(a)' = Content(a)
      PROVE  UNCHANGED Mirror!vars
  BY <1>1 DEF Mirror!vars
<1>2. ASSUME NEW a \in Assets, index' = index,
             \A b \in Assets \ {a} : Content(b)' = Content(b)
      PROVE  Mirror!Next
  <2>1. source' = [source EXCEPT ![a] = source'[a]]
    BY <1>2
  <2>2. Mirror!Change(a)
    BY <1>2, <2>1 DEF Mirror!Change
  <2> QED BY <2>2 DEF Mirror!Next
<1>3. ASSUME NEW S \in SUBSET Assets, \A a \in Assets : Content(a)' = Content(a),
             index' = [a \in Assets |-> IF a \in S THEN Content(a) ELSE index[a]]
      PROVE  Mirror!Next
  <2>1. Mirror!Sync(S)
    BY <1>3 DEF Mirror!Sync
  <2> QED BY <2>1 DEF Mirror!Next
<1>4. ASSUME NEW a \in Assets, NEW r \in Reasons, Commit(a, r) PROVE Mirror!Next
  BY <1>2, <1>4 DEF Commit, Content
<1>5. ASSUME NEW a \in Assets, DeleteRow(a) PROVE Mirror!Next
  BY <1>2, <1>5 DEF DeleteRow, Content
<1>6. ASSUME NEW a \in Assets, NEW r \in Reasons,
             EnqueueSearchIndex(a, r) \/ MarkDirty(a, r) \/ Forget(a, r)
      PROVE  UNCHANGED Mirror!vars
  BY <1>1, <1>6 DEF EnqueueSearchIndex, MarkDirty, Forget, Content, dbVars
<1>7. ASSUME NEW a \in Assets, DeleteDocuments(a) PROVE Mirror!Next
  <2> DEFINE S == {a}
  <2>1. index' = [b \in Assets |-> IF b \in S THEN Content(b) ELSE index[b]]
    BY <1>7 DEF DeleteDocuments, Content
  <2>2. \A b \in Assets : Content(b)' = Content(b)
    BY <1>7 DEF DeleteDocuments, Content, dbVars
  <2>3. S \in SUBSET Assets
    OBVIOUS
  <2> HIDE DEF S
  <2> QED BY <1>3, <2>1, <2>2, <2>3
<1>8. ASSUME NEW w \in Workers, Add(w) PROVE Mirror!Next
  <2> DEFINE S == {a \in ids[w] : built[w][a] # 0}
  <2>1. index' = [a \in Assets |-> IF a \in S THEN Content(a) ELSE index[a]]
    BY <1>8 DEF Add
  <2> QED BY <1>3, <1>8, <2>1 DEF Add, Content, dbVars
<1>9. ASSUME NEW w \in Workers, Remove(w) PROVE Mirror!Next
  <2> DEFINE S == {a \in ids[w] : built[w][a] = 0}
  <2>1. index' = [a \in Assets |-> IF a \in S THEN Content(a) ELSE index[a]]
    <3>1. bpc[w] = "remove" /\ Unwritten(w) = S
      BY <1>9 DEF Remove, Unwritten
    <3>2. \A a \in S : Content(a) = 0
      BY <3>1
    <3>3. index' = [a \in Assets |-> IF a \in S THEN 0 ELSE index[a]]
      BY <1>9, <3>1 DEF Remove
    <3> QED BY <3>2, <3>3
  <2>2. \A a \in Assets : Content(a)' = Content(a)
    BY <1>9 DEF Remove, Content, dbVars
  <2>3. S \in SUBSET Assets
    OBVIOUS
  <2> HIDE DEF S
  <2> QED BY <1>3, <2>1, <2>2, <2>3
<1>10. ASSUME NEW w \in Workers, ReadDirty(w) \/ Drain(w) \/ \E a \in Assets : Build(w, a)
       PROVE  UNCHANGED Mirror!vars
  BY <1>1, <1>10 DEF ReadDirty, Drain, Build, Content, dbVars
<1>11. CASE UNCHANGED vars
  BY <1>1, <1>11 DEF vars, dbVars, Content
<1> QED BY <1>4, <1>5, <1>6, <1>7, <1>8, <1>9, <1>10, <1>11 DEF CalmNext, BatchStep

\* Left in peace, the index takes over nothing but the current content, for any
\* number of batch workers: the safety part of MirrorsCatalogue.
THEOREM CalmImplementsMirror ==
    Init /\ [][CalmNext]_vars => Mirror!Init /\ [][Mirror!Next]_(Mirror!vars)
<1>1. Init => CalmInv /\ Mirror!Init
  <2> SUFFICES ASSUME Init PROVE CalmInv /\ Mirror!Init
    OBVIOUS
  <2>1. CalmInv
    BY TypesInit DEF Init, CalmInv
  <2>2. Mirror!Init
    BY DEF Init, Mirror!Init, Content
  <2> QED BY <2>1, <2>2
<1>2. CalmInv /\ [CalmNext]_vars => CalmInv'
  <2> SUFFICES ASSUME CalmInv, [CalmNext]_vars PROVE CalmInv'
    OBVIOUS
  <2>1. TypeOK'
    BY TypesPreserved, CalmStepIsStep DEF CalmInv
  <2>2. CASE UNCHANGED vars
    BY <2>1, <2>2 DEF CalmInv, Content, vars, dbVars, batchVars
  <2> QED BY <2>1, <2>2, CalmRequests, CalmBatches DEF CalmNext
<1>3. CalmInv /\ [CalmNext]_vars => [Mirror!Next]_(Mirror!vars)
  BY MirrorStep
<1> QED BY <1>1, <1>2, <1>3, PTL

-----------------------------------------------------------------------------
(* Reading: all ways to find an asset.                                     *)

\* The types, and that an answer is that to the question as it stands.
ReadingInv ==
    /\ asset \in AssetRows(Statuses, SUBSET Versions, SUBSET Locales)
    /\ query \in Queries(BOOLEAN, BOOLEAN) /\ requester \in Requesters
    /\ filterable \in {EnsureAssetsIndex, EnsureSettings}
    /\ ways = Unasked \/ ways = Ways(query, asset, requester)

LEMMA ReadingKept ==
    /\ ReadingInit => ReadingInv
    /\ ReadingInv /\ [ReadingNext]_readingVars => ReadingInv'
<1>1. ReadingInit => ReadingInv
  BY DEF ReadingInit, Question, ReadingInv
<1>2. ASSUME ReadingInv, StartIndexer PROVE ReadingInv'
  BY <1>2 DEF ReadingInv, StartIndexer
<1>3. ASSUME ReadingInv, Read PROVE ReadingInv'
  <2>1. UNCHANGED <<asset, query, requester, filterable>> /\ ways' = Ways(query, asset, requester)
    BY <1>3 DEF Read
  <2>2. Ways(query, asset, requester)' = Ways(query, asset, requester)
    BY <2>1 DEF Ways, SearchAssets
  <2> QED BY <1>3, <2>1, <2>2 DEF ReadingInv
<1>4. ASSUME ReadingInv, UNCHANGED readingVars PROVE ReadingInv'
  <2>1. UNCHANGED <<asset, query, requester, filterable, ways>>
    BY <1>4 DEF readingVars
  <2>2. Ways(query, asset, requester)' = Ways(query, asset, requester)
    BY <2>1 DEF Ways, SearchAssets
  <2> QED BY <1>4, <2>1, <2>2 DEF ReadingInv
<1> QED BY <1>1, <1>2, <1>3, <1>4 DEF ReadingNext

\* The ways of an answer, one by one.
LEMMA WaysOf ==
    ASSUME ReadingInv, ways # Unasked
    PROVE  /\ "list" \in ways <=> ListFromPostgres(query, asset, requester)
           /\ "search" \in ways <=> SearchAssets(query, asset)
           /\ "recommended" \in ways <=> Recommended(asset)
           /\ "library" \in ways <=> requester # "guest" /\ InLibrary(asset)
           /\ "detail" \in ways <=> GetDetail(asset, requester)
           /\ "download" \in ways <=> AssertDownloadAllowed(asset, requester)
<1>1. ways = Ways(query, asset, requester)
  BY DEF ReadingInv
<1> QED BY <1>1 DEF Ways

\* What is found is published, or its reader owns it or is an admin.
LEMMA FindersOpen ==
    ASSUME ReadingInv
    PROVE  FoundOpens
<1>1. CASE ways = Unasked
  BY <1>1 DEF Unasked, FoundOpens
<1>2. CASE ways # Unasked
  <2>1. "list" \in ways => GetDetail(asset, requester)
    BY <1>2, WaysOf DEF ListFromPostgres, BuildWhere, ListedStatuses, GetDetail, IsOwnerOrAdmin
  <2>2. "search" \in ways \/ "recommended" \in ways \/ "library" \in ways => GetDetail(asset, requester)
    BY <1>2, WaysOf DEF SearchAssets, Recommended, InLibrary, GetDetail
  <2>3. "detail" \in ways /\ requester # "guest" => AssertDownloadAllowed(asset, requester)
    BY <1>2, WaysOf DEF GetDetail, AssertDownloadAllowed
  <2> QED BY <1>2, <2>1, <2>2, <2>3, WaysOf DEF FoundOpens
<1> QED BY <1>1, <1>2

\* A document answers a filter as the version it was built from does, but for rows of
\* compatibility that each meet one half of it.
LEMMA DocumentAnswers ==
    ASSUME ReadingInv
    PROVE  LET q == SearchQuery(query)
               doc == BuildDocs(asset, query.locale)
           IN /\ BuildFilter(q, doc) =>
                    /\ query.facet \in {None, asset.facet} /\ AnyOf(query.tags, asset.tags)
                    /\ VersionWanted(query, asset.latest) \/ Cardinality(asset.latest.compatibility) > 1
              /\ query.facet \in {None, asset.facet} /\ AnyOf(query.tags, asset.tags) /\ VersionWanted(query, asset.latest)
                    => BuildFilter(q, doc)
<1> DEFINE q == SearchQuery(query)
           doc == BuildDocs(asset, query.locale)
           C == asset.latest.compatibility
<1>1. /\ q.facet = query.facet /\ q.tags = query.tags /\ q.fileKinds = query.fileKinds
      /\ q.renderPipelines = query.renderPipelines /\ q.targets = query.targets /\ q.license = query.license
  BY DEF ReadingInv, Queries, SearchQuery
<1>2. /\ doc.facet = asset.facet /\ doc.tags = asset.tags /\ doc.fileKinds = asset.latest.fileKinds
      /\ doc.renderPipelines = UNION {c.renderPipelines : c \in C}
      /\ doc.targets = UNION {c.targets : c \in C} /\ doc.licenseSlug = TRUE
  BY DEF BuildDocs
<1>3. IsFiniteSet(C)
  BY DEF ReadingInv, AssetRows, Versions, Matrices
<1> HIDE DEF q, doc, C
<1>4. BuildFilter(q, doc) <=>
         /\ query.facet \in {None, asset.facet} /\ AnyOf(query.tags, asset.tags)
         /\ AnyOf(query.fileKinds, asset.latest.fileKinds)
         /\ AnyOf(query.renderPipelines, UNION {c.renderPipelines : c \in C})
         /\ AnyOf(query.targets, UNION {c.targets : c \in C})
  BY <1>1, <1>2 DEF BuildFilter
<1>5. VersionWanted(query, asset.latest) <=>
         /\ AnyOf(query.fileKinds, asset.latest.fileKinds)
         /\ query.renderPipelines \cup query.targets # {} =>
               \E c \in C : AnyOf(query.renderPipelines, c.renderPipelines) /\ AnyOf(query.targets, c.targets)
  BY DEF VersionWanted, C
<1>6. ASSUME BuildFilter(q, doc), ~VersionWanted(query, asset.latest)
      PROVE  Cardinality(C) > 1
  <2>1. /\ query.renderPipelines \cup query.targets # {}
        /\ \A c \in C : ~(AnyOf(query.renderPipelines, c.renderPipelines) /\ AnyOf(query.targets, c.targets))
    BY <1>4, <1>5, <1>6
  <2>2. PICK c \in C : TRUE
    BY <1>4, <1>6, <2>1 DEF AnyOf
  <2>3. \E d \in C : d # c
    <3> SUFFICES ASSUME \A d \in C : d = c PROVE FALSE
      OBVIOUS
    <3>1. UNION {d.renderPipelines : d \in C} = c.renderPipelines /\ UNION {d.targets : d \in C} = c.targets
      BY <2>2
    <3> QED BY <1>4, <1>6, <2>1, <2>2, <3>1
  <2>4. PICK d \in C : d # c
    BY <2>3
  <2>5. IsFiniteSet(C \ {c}) /\ Cardinality(C \ {c}) = Cardinality(C) - 1 /\ C \ {c} # {}
    BY <1>3, <2>2, <2>4, FS_RemoveElement
  <2>6. Cardinality(C \ {c}) \in Nat /\ Cardinality(C \ {c}) # 0 /\ Cardinality(C) \in Nat
    BY <1>3, <2>5, FS_EmptySet, FS_CardinalityType
  <2> QED BY <2>5, <2>6
<1>7. ASSUME query.facet \in {None, asset.facet}, AnyOf(query.tags, asset.tags), VersionWanted(query, asset.latest)
      PROVE  BuildFilter(q, doc)
  <2>1. ASSUME NEW c \in C, AnyOf(query.renderPipelines, c.renderPipelines), AnyOf(query.targets, c.targets)
        PROVE  /\ AnyOf(query.renderPipelines, UNION {d.renderPipelines : d \in C})
               /\ AnyOf(query.targets, UNION {d.targets : d \in C})
    BY <2>1 DEF AnyOf
  <2>2. query.renderPipelines \cup query.targets = {} =>
           /\ AnyOf(query.renderPipelines, UNION {d.renderPipelines : d \in C})
           /\ AnyOf(query.targets, UNION {d.targets : d \in C})
    BY DEF AnyOf
  <2> QED BY <1>4, <1>5, <1>7, <2>1, <2>2
<1> QED BY <1>4, <1>6, <1>7 DEF q, doc, C

\* Search and list differ where SearchIsList says so.
LEMMA SearchesList ==
    ASSUME ReadingInv
    PROVE  SearchIsList
<1> SUFFICES ASSUME asset.status = "PUBLISHED", ~query.mine, ways # Unasked
             PROVE  /\ "search" \in ways /\ "list" \notin ways => Cardinality(asset.latest.compatibility) > 1
                    /\ "list" \in ways /\ "search" \notin ways =>
                          \/ \E v \in asset.others : VersionWanted(query, v)
                          \/ query.license /\ filterable = EnsureAssetsIndex
  BY DEF SearchIsList
<1> DEFINE doc == BuildDocs(asset, query.locale)
<1>1. "PUBLISHED" \in ListedStatuses(query, requester)
  BY DEF ListedStatuses
<1>2. "list" \in ways <=>
         /\ query.facet \in {None, asset.facet} /\ AnyOf(query.tags, asset.tags)
         /\ \E v \in {asset.latest} \cup asset.others : VersionWanted(query, v)
  BY <1>1, WaysOf DEF ListFromPostgres, BuildWhere
<1>3. "search" \in ways <=> Filterable(query, filterable) /\ BuildFilter(SearchQuery(query), doc)
  BY WaysOf DEF SearchAssets
<1>4. ~Filterable(query, filterable) => query.license /\ filterable = EnsureAssetsIndex
  BY DEF Filterable, ReadingInv, EnsureSettings
<1> HIDE DEF doc
<1>5. /\ BuildFilter(SearchQuery(query), doc) =>
            /\ query.facet \in {None, asset.facet} /\ AnyOf(query.tags, asset.tags)
            /\ VersionWanted(query, asset.latest) \/ Cardinality(asset.latest.compatibility) > 1
      /\ query.facet \in {None, asset.facet} /\ AnyOf(query.tags, asset.tags) /\ VersionWanted(query, asset.latest)
            => BuildFilter(SearchQuery(query), doc)
  BY DocumentAnswers DEF doc
<1> QED BY <1>2, <1>3, <1>4, <1>5

\* Names and buttons.
LEMMA CardsAlike ==
    ASSUME ReadingInv
    PROVE  CardsAgree
<1> DEFINE page == ToDetail(asset, query.locale, requester)
           doc == BuildDocs(asset, query.locale)
           locale == query.locale
           names == asset.names
<1>1. locale \in {"en", "id"} /\ names \in SUBSET {"en", "id"}
  BY DEF ReadingInv, Queries, AssetRows, Locales
<1>2. /\ page.category = ResolveLocalized(names, locale) /\ ToSummary(asset, locale).category = page.category
      /\ page.canEdit = IsOwnerOrAdmin(requester)
      /\ page.canArchive => IsOwnerOrAdmin(requester)
  BY DEF ToDetail, ToSummary
<1>3. doc.categoryName = PickJsonLocalized(names, locale)
      /\ DOMAIN doc = {"facet", "tags", "fileKinds", "renderPipelines", "targets", "licenseSlug", "categoryName"}
  BY DEF BuildDocs
<1>4. ToHit(doc, locale).category = ""
  BY <1>3 DEF ToHit
<1>5. IsOwnerOrAdmin(requester) => AssertCanEdit(requester) /\ GetDetail(asset, requester)
  BY DEF IsOwnerOrAdmin, AssertCanEdit, GetDetail
<1> HIDE DEF locale, names
<1>6. ResolveLocalized(names, locale) = PickJsonLocalized(names, locale) \/ (names = {"id"} /\ locale = "en")
  <2>1. CASE locale \in names
    BY <2>1 DEF ResolveLocalized, PickJsonLocalized
  <2>2. CASE names = {}
    BY <2>2 DEF ResolveLocalized, PickJsonLocalized
  <2>3. CASE locale \notin names /\ names # {}
    <3>1. (names = {"id"} /\ locale = "en") \/ (names = {"en"} /\ locale = "id")
      BY <1>1, <2>3
    <3>2. ASSUME names = {"en"}, locale = "id"
          PROVE  ResolveLocalized(names, locale) = "en" /\ PickJsonLocalized(names, locale) = "en"
      BY <3>2 DEF ResolveLocalized, PickJsonLocalized
    <3> QED BY <3>1, <3>2
  <2> QED BY <2>1, <2>2, <2>3
<1> HIDE DEF page, doc
<1> QED BY <1>2, <1>3, <1>4, <1>5, <1>6 DEF CardsAgree, page, doc, locale, names

\* For any asset, query and reader: what is found opens, search and list differ where
\* named, and cards, documents and pages agree.
THEOREM ReadersAgree == ReadingSpec => []AnswersAgree
<1>1. ReadingInv => AnswersAgree
  BY FindersOpen, SearchesList, CardsAlike DEF AnswersAgree
<1> QED BY <1>1, ReadingKept, PTL DEF ReadingSpec
-----------------------------------------------------------------------------
(* DiscoverRows: the cards of the rows.                                    *)

Spots == Nat \X Nat

\* Of two places, one comes first.
LEMMA UpToOrders ==
    ASSUME NEW p \in Spots, NEW q \in Spots
    PROVE  /\ UpTo(p, p)
           /\ UpTo(p, q) \/ UpTo(q, p)
           /\ UpTo(p, q) /\ UpTo(q, p) => p = q
           /\ \A r \in Spots : UpTo(p, q) /\ UpTo(q, r) => UpTo(p, r)
<1>1. /\ p[1] \in Nat /\ p[2] \in Nat /\ q[1] \in Nat /\ q[2] \in Nat
      /\ p = <<p[1], p[2]>> /\ q = <<q[1], q[2]>>
  BY DEF Spots
<1>2. ASSUME NEW r \in Spots, UpTo(p, q), UpTo(q, r) PROVE UpTo(p, r)
  <2>1. r[1] \in Nat /\ r[2] \in Nat
    BY DEF Spots
  <2> QED BY <1>1, <1>2, <2>1 DEF UpTo
<1>3. UpTo(p, p) /\ (UpTo(p, q) \/ UpTo(q, p))
  BY <1>1 DEF UpTo
<1>4. ASSUME UpTo(p, q), UpTo(q, p) PROVE p[1] = q[1] /\ p[2] = q[2]
  BY <1>1, <1>4 DEF UpTo
<1>5. UpTo(p, q) /\ UpTo(q, p) => p = q
  BY <1>1, <1>4
<1> QED BY <1>2, <1>3, <1>5

\* Of two places among some, the earlier has the smaller position.
LEMMA EarlierPosition ==
    ASSUME NEW P \in SUBSET Spots, IsFiniteSet(P), NEW p \in P, NEW q \in P, UpTo(p, q), p # q
    PROVE  Position(p, P) # Position(q, P)
<1> DEFINE U == {x \in P : UpTo(p, x)}
           V == {x \in P : UpTo(q, x)}
<1>1. V \subseteq U
  BY UpToOrders
<1>2. p \in U /\ p \notin V
  BY UpToOrders
<1>3. IsFiniteSet(U)
  BY FS_Subset
<1>4. Cardinality(U) # Cardinality(V)
  <2> HIDE DEF U, V
  <2>1. Cardinality(U) = Cardinality(V) => U = V
    BY <1>1, <1>3, FS_Subset
  <2> QED BY <1>2, <2>1
<1> QED BY <1>4 DEF Position

\* No two places have the same.
LEMMA PositionTells ==
    ASSUME NEW P \in SUBSET Spots, IsFiniteSet(P), NEW p \in P, NEW q \in P, Position(p, P) = Position(q, P)
    PROVE  p = q
<1>1. p \in Spots /\ q \in Spots
  OBVIOUS
<1>2. UpTo(p, q) \/ UpTo(q, p)
  BY <1>1, UpToOrders
<1> QED BY <1>2, EarlierPosition

\* The positions are numbers from 1 up to how many places there are.
LEMMA PositionType ==
    ASSUME NEW P \in SUBSET Spots, IsFiniteSet(P), NEW p \in P
    PROVE  Position(p, P) \in 1 .. Cardinality(P)
<1> DEFINE U == {x \in P : UpTo(p, x)}
<1>1. p \in U
  BY UpToOrders
<1>2. U \subseteq P
  OBVIOUS
<1> HIDE DEF U
<1>3. IsFiniteSet(U) /\ Cardinality(U) <= Cardinality(P)
  BY <1>2, FS_Subset
<1>4. Cardinality(U) \in Nat /\ Cardinality(P) \in Nat
  BY <1>3, FS_CardinalityType
<1>5. Cardinality(U) # 0
  BY <1>1, <1>3, FS_EmptySet
<1> QED BY <1>3, <1>4, <1>5 DEF Position, U

\* And each number is the position of a place.
LEMMA PositionsFilled ==
    ASSUME NEW P \in SUBSET Spots, IsFiniteSet(P), NEW k \in 1 .. Cardinality(P)
    PROVE  \E p \in P : Position(p, P) = k
<1> DEFINE n == Cardinality(P)
           f == [p \in P |-> Position(p, P)]
<1>1. n \in Nat /\ IsFiniteSet(1 .. n) /\ Cardinality(1 .. n) = n
  BY FS_CardinalityType, FS_Interval
<1>2. f \in [P -> 1 .. n]
  BY PositionType
<1>3. \A p, q \in P : f[p] = f[q] => p = q
  BY PositionTells
<1>4. f \in Injection(P, 1 .. n)
  BY <1>2, <1>3 DEF Injection, IsInjective
<1> HIDE DEF f
<1>5. f \in Surjection(P, 1 .. n)
  BY <1>1, <1>4, FS_Injection
<1>6. PICK p \in P : f[p] = k
  BY <1>5 DEF Surjection
<1> QED BY <1>6 DEF f

\* What the two queries found: each category has its own assets.
RankedTypes ==
    /\ ranked \in [Shelves -> SUBSET Works]
    /\ \A c, d \in Shelves : \A w \in ranked[c] \cap ranked[d] : c = d

\* A way to sort all rows.
Sorted(order) == \A c \in Shelves : order[c] \in Orders(ranked[c])

\* The asset at a place, the places that make a card, and that whose card a place gets.
AssetAt(order, p) == order[p[1]][p[2]]
Carded(order) == {p \in Places(order) : state[AssetAt(order, p)] # "gone"}
CardFor(order, p) == CHOOSE q \in Carded(order) : Position(q, Carded(order)) = Position(p, Places(order))

\* A row's order has each of its assets at one place.
LEMMA OrderIs ==
    ASSUME RankedTypes, NEW order, Sorted(order), NEW c \in Shelves
    PROVE  /\ IsFiniteSet(ranked[c]) /\ Cardinality(ranked[c]) \in Nat
           /\ DOMAIN order[c] = 1 .. Cardinality(ranked[c])
           /\ \A i \in DOMAIN order[c] : order[c][i] \in ranked[c]
           /\ \A i, j \in DOMAIN order[c] : order[c][i] = order[c][j] => i = j
           /\ \A w \in ranked[c] : \E i \in DOMAIN order[c] : order[c][i] = w
<1>1. ranked[c] \subseteq Works
  BY DEF RankedTypes
<1>2. IsFiniteSet(ranked[c]) /\ Cardinality(ranked[c]) \in Nat
  BY <1>1, RowsAssumption, FS_Subset, FS_CardinalityType DEF RowsAssumption
<1>3. order[c] \in Bijection(1 .. Cardinality(ranked[c]), ranked[c])
  BY DEF Sorted, Orders
<1> QED BY <1>2, <1>3 DEF Bijection, Injection, Surjection, IsInjective

\* A place is one of a row.
LEMMA PlacesAre ==
    ASSUME RankedTypes, NEW order, Sorted(order)
    PROVE  /\ Places(order) \subseteq Spots /\ IsFiniteSet(Places(order))
           /\ \A p : p \in Places(order) <=> \E c \in Shelves : \E i \in DOMAIN order[c] : p = <<c, i>>
           /\ Carded(order) \subseteq Places(order) /\ IsFiniteSet(Carded(order))
<1> DEFINE row == [c \in Shelves |-> {c} \X DOMAIN order[c]]
           all == {row[c] : c \in Shelves}
<1>1. Places(order) = UNION all
  BY DEF Places
<1>2. IsFiniteSet(Shelves) /\ \A c \in Shelves : c \in Nat
  BY RowsAssumption, FS_Interval DEF Shelves, RowsAssumption
<1>3. ASSUME NEW c \in Shelves PROVE DOMAIN order[c] \subseteq Nat /\ IsFiniteSet(DOMAIN order[c])
  <2>1. Cardinality(ranked[c]) \in Nat /\ DOMAIN order[c] = 1 .. Cardinality(ranked[c])
    BY OrderIs
  <2> QED BY <2>1, FS_Interval
<1>4. ASSUME NEW c \in Shelves PROVE IsFiniteSet(row[c])
  BY <1>3, FS_Singleton, FS_Product
<1>5. IsFiniteSet(all)
  <2>1. row \in Surjection(Shelves, all)
    BY DEF Surjection
  <2> HIDE DEF row, all
  <2> QED BY <1>2, <2>1, FS_Surjection
<1>6. IsFiniteSet(UNION all)
  <2>1. \A T \in all : IsFiniteSet(T)
    BY <1>4
  <2> HIDE DEF row, all
  <2> QED BY <1>5, <2>1, FS_UNION
<1>7. \A p : p \in Places(order) <=> \E c \in Shelves : \E i \in DOMAIN order[c] : p = <<c, i>>
  BY DEF Places
<1>8. Places(order) \subseteq Spots
  BY <1>2, <1>3, <1>7 DEF Spots
<1>9. Carded(order) \subseteq Places(order)
  BY DEF Carded
<1> QED BY <1>1, <1>6, <1>7, <1>8, <1>9, FS_Subset

\* No asset is at two places.
LEMMA PlacesApart ==
    ASSUME RankedTypes, NEW order, Sorted(order), NEW p \in Places(order), NEW q \in Places(order),
           AssetAt(order, p) = AssetAt(order, q)
    PROVE  p = q
<1>1. PICK c \in Shelves : \E i \in DOMAIN order[c] : p = <<c, i>>
  BY PlacesAre
<1>2. PICK i \in DOMAIN order[c] : p = <<c, i>>
  BY <1>1
<1>3. PICK d \in Shelves : \E j \in DOMAIN order[d] : q = <<d, j>>
  BY PlacesAre
<1>4. PICK j \in DOMAIN order[d] : q = <<d, j>>
  BY <1>3
<1>5. order[c][i] = order[d][j]
  BY <1>2, <1>4 DEF AssetAt
<1>6. order[c][i] \in ranked[c] /\ order[d][j] \in ranked[d]
  BY OrderIs
<1>7. c = d
  BY <1>5, <1>6 DEF RankedTypes
<1>8. i = j
  BY <1>5, <1>7, OrderIs
<1> QED BY <1>2, <1>4, <1>7, <1>8

\* A place no later than there are cards gets one, and no two get the same.
LEMMA CardsAre ==
    ASSUME RankedTypes, NEW order, Sorted(order), NEW p \in Places(order),
           Position(p, Places(order)) <= Cardinality(Carded(order))
    PROVE  /\ CardFor(order, p) \in Carded(order)
           /\ Position(CardFor(order, p), Carded(order)) = Position(p, Places(order))
<1> DEFINE flat == Places(order)
           cards == Carded(order)
<1>1. flat \in SUBSET Spots /\ IsFiniteSet(flat) /\ cards \in SUBSET Spots /\ IsFiniteSet(cards)
  BY PlacesAre
<1>2. Position(p, flat) \in 1 .. Cardinality(flat) /\ Cardinality(cards) \in Nat
  <2> HIDE DEF flat, cards
  <2> QED BY <1>1, PositionType, FS_CardinalityType DEF flat
<1>3. Position(p, flat) \in 1 .. Cardinality(cards)
  BY <1>2
<1>4. \E q \in cards : Position(q, cards) = Position(p, flat)
  <2> HIDE DEF flat, cards
  <2> QED BY <1>1, <1>3, PositionsFilled
<1> QED BY <1>4 DEF CardFor

\* The rows are dealt from these cards.
LEMMA DealIs ==
    ASSUME NEW order
    PROVE  Deal(order) =
               [c \in Shelves |->
                  [i \in {i \in DOMAIN order[c] :
                              Position(<<c, i>>, Places(order)) <= Cardinality(Carded(order))}
                     |-> AssetAt(order, CardFor(order, <<c, i>>))]]
BY DEF Deal, Carded, CardFor, AssetAt

\* No card is dealt twice, and each asset that was read has one.
LEMMA DealtOnce ==
    ASSUME RankedTypes, NEW order, Sorted(order)
    PROVE  LET dealt == Deal(order)
           IN /\ \A c, d \in Shelves : \A i \in DOMAIN dealt[c], j \in DOMAIN dealt[d] :
                     dealt[c][i] = dealt[d][j] => c = d /\ i = j
              /\ UNION {Range(dealt[c]) : c \in Shelves} = UNION {Existing(ranked[c]) : c \in Shelves}
<1> DEFINE dealt == Deal(order)
           flat == Places(order)
           cards == Carded(order)
<1>1. flat \in SUBSET Spots /\ IsFiniteSet(flat) /\ cards \in SUBSET Spots /\ IsFiniteSet(cards)
      /\ cards \subseteq flat
  BY PlacesAre
<1>2. ASSUME NEW c \in Shelves
      PROVE  /\ DOMAIN dealt[c] = {i \in DOMAIN order[c] : Position(<<c, i>>, flat) <= Cardinality(cards)}
             /\ \A i \in DOMAIN dealt[c] : dealt[c][i] = AssetAt(order, CardFor(order, <<c, i>>))
  BY DealIs
<1> HIDE DEF dealt
<1>3. ASSUME NEW c \in Shelves, NEW i \in DOMAIN dealt[c]
      PROVE  /\ <<c, i>> \in flat /\ Position(<<c, i>>, flat) <= Cardinality(cards)
             /\ CardFor(order, <<c, i>>) \in cards
             /\ Position(CardFor(order, <<c, i>>), cards) = Position(<<c, i>>, flat)
  <2>1. <<c, i>> \in flat /\ Position(<<c, i>>, flat) <= Cardinality(cards)
    BY <1>2, PlacesAre
  <2> QED BY <2>1, CardsAre
<1>4. ASSUME NEW c \in Shelves, NEW d \in Shelves, NEW i \in DOMAIN dealt[c], NEW j \in DOMAIN dealt[d],
             dealt[c][i] = dealt[d][j]
      PROVE  c = d /\ i = j
  <2> DEFINE p == <<c, i>>
             q == <<d, j>>
  <2>1. p \in flat /\ CardFor(order, p) \in cards /\ Position(CardFor(order, p), cards) = Position(p, flat)
    BY <1>3
  <2>2. q \in flat /\ CardFor(order, q) \in cards /\ Position(CardFor(order, q), cards) = Position(q, flat)
    BY <1>3
  <2>3. AssetAt(order, CardFor(order, p)) = AssetAt(order, CardFor(order, q))
    BY <1>2, <1>4
  <2> HIDE DEF p, q
  <2>4. CardFor(order, p) = CardFor(order, q)
    BY <1>1, <2>1, <2>2, <2>3, PlacesApart
  <2>5. Position(p, flat) = Position(q, flat)
    BY <2>1, <2>2, <2>4
  <2> HIDE DEF flat, cards
  <2>6. p = q
    BY <1>1, <2>1, <2>2, <2>5, PositionTells
  <2> QED BY <2>6 DEF p, q
<1>5. ASSUME NEW c \in Shelves, NEW w \in Range(dealt[c])
      PROVE  \E d \in Shelves : w \in Existing(ranked[d])
  <2>1. PICK i \in DOMAIN dealt[c] : w = dealt[c][i]
    BY <1>5 DEF Range
  <2>2. PICK q \in cards : w = AssetAt(order, q)
    BY <1>2, <1>3, <2>1
  <2>3. PICK d \in Shelves : \E j \in DOMAIN order[d] : q = <<d, j>>
    BY <1>1, PlacesAre
  <2>4. w \in ranked[d]
    BY <2>2, <2>3, OrderIs DEF AssetAt
  <2>5. state[w] # "gone"
    BY <2>2 DEF Carded
  <2> QED BY <2>4, <2>5 DEF Existing
<1>6. ASSUME NEW d \in Shelves, NEW w \in Existing(ranked[d])
      PROVE  \E c \in Shelves : w \in Range(dealt[c])
  <2>1. w \in ranked[d] /\ state[w] # "gone"
    BY DEF Existing
  <2>2. PICK j \in DOMAIN order[d] : order[d][j] = w
    BY <2>1, OrderIs
  <2> DEFINE q == <<d, j>>
  <2>3. AssetAt(order, q) = w
    BY <2>2 DEF AssetAt
  <2>4. q \in flat
    BY PlacesAre
  <2>5. q \in cards
    BY <2>1, <2>3, <2>4 DEF Carded
  <2> HIDE DEF q, flat, cards
  <2>6. Position(q, cards) \in 1 .. Cardinality(cards)
    BY <1>1, <2>5, PositionType
  <2>7. Cardinality(cards) \in Nat /\ Cardinality(flat) \in Nat /\ Cardinality(cards) <= Cardinality(flat)
    BY <1>1, FS_Subset, FS_CardinalityType
  <2>8. Position(q, cards) \in 1 .. Cardinality(flat)
    BY <2>6, <2>7
  <2>9. PICK p \in flat : Position(p, flat) = Position(q, cards)
    BY <1>1, <2>8, PositionsFilled
  <2>10. PICK c \in Shelves : \E i \in DOMAIN order[c] : p = <<c, i>>
    BY PlacesAre DEF flat
  <2>11. PICK i \in DOMAIN order[c] : p = <<c, i>>
    BY <2>10
  <2>12. i \in DOMAIN dealt[c]
    BY <1>2, <2>6, <2>7, <2>9, <2>11
  <2>13. CardFor(order, p) \in cards /\ Position(CardFor(order, p), cards) = Position(q, cards)
    BY <1>3, <2>9, <2>11, <2>12
  <2>14. CardFor(order, p) = q
    BY <1>1, <2>5, <2>13, PositionTells
  <2>15. dealt[c][i] = w
    BY <1>2, <2>3, <2>11, <2>12, <2>14
  <2> QED BY <2>12, <2>15 DEF Range
<1> HIDE DEF flat, cards
<1> QED BY <1>4, <1>5, <1>6 DEF dealt

\* Down to the first row that misses an asset, each has what was found, newest first.
LEMMA DealtInOrder ==
    ASSUME RankedTypes, NEW order, Sorted(order), NEW c \in Shelves,
           \A d \in 1 .. c : ranked[d] = Existing(ranked[d])
    PROVE  LET dealt == Deal(order)
           IN /\ Range(dealt[c]) = ranked[c]
              /\ \A i, j \in DOMAIN dealt[c] : i < j => dealt[c][i] > dealt[c][j]
<1> DEFINE dealt == Deal(order)
           flat == Places(order)
           cards == Carded(order)
<1>1. flat \in SUBSET Spots /\ IsFiniteSet(flat) /\ cards \in SUBSET Spots /\ IsFiniteSet(cards)
      /\ cards \subseteq flat
  BY PlacesAre
<1>2. ASSUME NEW q \in flat, q[1] <= c PROVE q \in cards
  <2>1. PICK d \in Shelves : \E j \in DOMAIN order[d] : q = <<d, j>>
    BY PlacesAre
  <2>2. d \in 1 .. c
    BY <1>2, <2>1, RowsAssumption DEF Shelves, RowsAssumption
  <2>3. AssetAt(order, q) \in ranked[d]
    BY <2>1, OrderIs DEF AssetAt
  <2>4. state[AssetAt(order, q)] # "gone"
    BY <2>2, <2>3 DEF Existing
  <2> QED BY <2>4 DEF Carded
<1>3. ASSUME NEW i \in DOMAIN order[c]
      PROVE  CardFor(order, <<c, i>>) = <<c, i>> /\ Position(<<c, i>>, flat) <= Cardinality(cards)
  <2> DEFINE p == <<c, i>>
  <2>1. p \in flat /\ p \in Spots /\ p[1] = c /\ c \in Nat
    <3>1. p \in flat
      BY PlacesAre
    <3>2. c \in Nat
      BY RowsAssumption DEF Shelves, RowsAssumption
    <3> QED BY <1>1, <3>1, <3>2
  <2>2. p \in cards
    BY <1>2, <2>1
  <2>3. {q \in flat : UpTo(p, q)} = {q \in cards : UpTo(p, q)}
    <3>1. ASSUME NEW q \in flat, UpTo(p, q) PROVE q \in cards
      <4>1. q[1] \in Nat
        BY <1>1 DEF Spots
      <4>2. q[1] <= c
        BY <2>1, <3>1, <4>1 DEF UpTo
      <4> QED BY <1>2, <4>2
    <3> HIDE DEF flat, cards, p
    <3> QED BY <1>1, <3>1
  <2>4. Position(p, flat) = Position(p, cards)
    BY <2>3 DEF Position
  <2> HIDE DEF p, flat, cards
  <2>5. Position(p, cards) \in 1 .. Cardinality(cards) /\ Cardinality(cards) \in Nat
    BY <1>1, <2>2, PositionType, FS_CardinalityType
  <2>6. Position(p, flat) <= Cardinality(cards)
    BY <2>4, <2>5
  <2>7. CardFor(order, p) \in cards /\ Position(CardFor(order, p), cards) = Position(p, flat)
    BY <2>1, <2>6, CardsAre DEF flat, cards
  <2>8. CardFor(order, p) = p
    BY <1>1, <2>2, <2>4, <2>7, PositionTells
  <2> QED BY <2>6, <2>8 DEF p
<1>4. DOMAIN dealt[c] = DOMAIN order[c] /\ \A i \in DOMAIN order[c] : dealt[c][i] = order[c][i]
  <2>1. /\ DOMAIN dealt[c] = {i \in DOMAIN order[c] : Position(<<c, i>>, flat) <= Cardinality(cards)}
        /\ \A i \in DOMAIN dealt[c] : dealt[c][i] = AssetAt(order, CardFor(order, <<c, i>>))
    BY DealIs
  <2> HIDE DEF dealt, flat, cards
  <2>2. DOMAIN dealt[c] = DOMAIN order[c]
    BY <1>3, <2>1
  <2>3. ASSUME NEW i \in DOMAIN order[c] PROVE dealt[c][i] = order[c][i]
    <3>1. dealt[c][i] = AssetAt(order, <<c, i>>)
      BY <1>3, <2>1, <2>2
    <3> QED BY <3>1 DEF AssetAt
  <2> QED BY <2>2, <2>3
<1> HIDE DEF dealt
<1>5. Range(dealt[c]) = ranked[c]
  BY <1>4, OrderIs DEF Range
<1>6. ranked[c] = Existing(ranked[c])
  BY RowsAssumption DEF Shelves, RowsAssumption
<1>7. \A i, j \in DOMAIN order[c] : i < j => order[c][i] > order[c][j]
  BY <1>6 DEF Sorted, Orders
<1> QED BY <1>4, <1>5, <1>7 DEF dealt

\* The inductive invariant of DiscoverRows.
RowsInv == RankedTypes /\ RowsExplained

LEMMA RowsKept ==
    /\ RowsInit => RowsInv
    /\ RowsInv /\ [RowsNext]_rowsVars => RowsInv'
<1>1. ASSUME RowsInit PROVE RowsInv
  <2>1. /\ ranked = [c \in Shelves |-> {}] /\ \A c \in Shelves : DOMAIN rows[c] = {}
        /\ \A c \in Shelves : owed[c].all = {} /\ owed[c].read = {}
    BY <1>1 DEF RowsInit, NoRows
  <2>2. \A c \in Shelves : Range(rows[c]) = {}
    BY <2>1 DEF Range
  <2>3. RankedTypes
    BY <2>1 DEF RankedTypes
  <2> QED BY <2>1, <2>2, <2>3 DEF RowsInv, RowsExplained
<1>2. ASSUME RowsInv, UNCHANGED <<ranked, rows, owed>> PROVE RowsInv'
  BY <1>2 DEF RowsInv, RankedTypes, RowsExplained
<1>3. ASSUME RowsInv, RankRows PROVE RowsInv'
  <2>1. ranked' = [c \in Shelves |-> RankedIn(c)] /\ UNCHANGED <<rows, owed>>
    BY <1>3 DEF RankRows
  <2>2. \A c \in Shelves : RankedIn(c) \subseteq Works /\ \A w \in RankedIn(c) : shelf[w] = c
    BY DEF RankedIn
  <2>3. RankedTypes'
    BY <2>1, <2>2 DEF RankedTypes
  <2>4. RowsExplained'
    BY <1>3, <2>1 DEF RowsInv, RowsExplained
  <2> QED BY <2>3, <2>4 DEF RowsInv
<1>4. ASSUME RowsInv, FillRows PROVE RowsInv'
  <2>1. RankedTypes
    BY <1>4 DEF RowsInv
  <2>2. PICK order : Sorted(order) /\ rows' = Deal(order)
    BY <1>4 DEF FillRows, Sorted
  <2>3. /\ owed' = [c \in Shelves |-> [all |-> ranked[c], read |-> Existing(ranked[c])]]
        /\ ranked' = [c \in Shelves |-> {}]
    BY <1>4 DEF FillRows
  <2>4. \A c \in Shelves : owed'[c].all = ranked[c] /\ owed'[c].read = Existing(ranked[c])
    BY <2>3
  <2>5. RankedTypes'
    BY <2>3 DEF RankedTypes
  <2>6. /\ \A c, d \in Shelves : \A i \in DOMAIN rows'[c], j \in DOMAIN rows'[d] :
               rows'[c][i] = rows'[d][j] => c = d /\ i = j
        /\ UNION {Range(rows'[c]) : c \in Shelves} = UNION {Existing(ranked[c]) : c \in Shelves}
    BY <2>1, <2>2, DealtOnce
  <2>7. UNION {Existing(ranked[c]) : c \in Shelves} = UNION {owed'[c].read : c \in Shelves}
    BY <2>4
  <2>8. ASSUME NEW c \in Shelves, \A d \in 1 .. c : owed'[d].all = owed'[d].read
        PROVE  /\ Range(rows'[c]) = owed'[c].all
               /\ \A i, j \in DOMAIN rows'[c] : i < j => rows'[c][i] > rows'[c][j]
    <3>1. 1 .. c \subseteq Shelves
      BY RowsAssumption DEF Shelves, RowsAssumption
    <3>2. \A d \in 1 .. c : ranked[d] = Existing(ranked[d])
      BY <2>4, <2>8, <3>1
    <3> QED BY <2>1, <2>2, <2>4, <3>2, DealtInOrder
  <2>9. RowsExplained'
    BY <2>6, <2>7, <2>8 DEF RowsExplained, Range
  <2> QED BY <2>5, <2>9 DEF RowsInv
<1>5. ASSUME RowsInv, RowsNext PROVE RowsInv'
  BY <1>2, <1>3, <1>4, <1>5 DEF RowsNext, Reshelve, SetStatus
<1> QED BY <1>1, <1>2, <1>5 DEF rowsVars

\* The rows of Discover show each asset that was read once, and what was found under each
\* category, newest first, but below a deleted asset (DiscoverService.buildRows), for any
\* number of categories and assets.
THEOREM RowsAreExplained == RowsSpec => []RowsExplained
<1>1. RowsInv => RowsExplained
  BY DEF RowsInv
<1> QED BY <1>1, RowsKept, PTL DEF RowsSpec
=============================================================================
