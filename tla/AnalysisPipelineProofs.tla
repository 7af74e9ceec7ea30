------------------------ MODULE AnalysisPipelineProofs ------------------------
(***************************************************************************)
(* What holds for any number of files, requests and attempts: of the        *)
(* pipeline (AnalysisPipeline), its types, that uploads alone never leave the *)
(* fan-in counter too high, and that outcomes are recorded; of what follows an *)
(* analysis (Previews), what thumbnails and variants show; of an admin's    *)
(* changes (AuditTrail), what the trail tells of them; of the nightly accounts *)
(* (Upkeep), what charts, totals and owners' bytes say.                     *)
(***************************************************************************)
EXTENDS AnalysisPipeline, Previews, AuditTrail, Upkeep, FiniteSetTheorems, WellFoundedInduction, TLAPS

-----------------------------------------------------------------------------
(* The counter.  Strengthening of FanInCovered for UploadSpec.             *)

\* Only completeUpload requests run, and one per file.
OnlyUploads ==
    /\ \A c \in Calls : pc[c] \in {"idle", "update", "drop", "incr", "add"}
    /\ \A c \in Calls : pc[c] = "idle" <=> arg[c] = NoFile
    /\ \A c, d \in Calls : c # d /\ arg[c] = arg[d] => arg[c] = NoFile

\* A file is enqueued once: while it has a handle or a request, it has no job.
EnqueuedOnce ==
    /\ \A f \in Files : row[f] = "new" => f \notin handle /\ job[f] = "absent"
    /\ \A f \in handle : job[f] = "absent"
    /\ \A f \in handle : \A c \in Calls : arg[c] = f => pc[c] \in {"update", "drop"}
    /\ \A c \in Calls : arg[c] # NoFile => row[arg[c]] = "present" /\ job[arg[c]] = "absent"

\* Nothing is deleted, so no job finds its file missing.
NothingDeleted == \A f \in Files : row[f] # "deleted"

\* The inductive invariant of UploadSpec.
UploadInv == TypeOK /\ OnlyUploads /\ EnqueuedOnce /\ NothingDeleted /\ FanInCovered

-----------------------------------------------------------------------------
(* Type correctness.                                                       *)

\* A step of an API request keeps the types.
LEMMA CallTypes ==
    ASSUME TypeOK, PipelineAssumption, NEW c \in Calls,
           CallStep(c) \/ CrashCall(c) \/ BeginReanalyze(c)
             \/ \E f \in Files : BeginComplete(c, f) \/ BeginDelete(c, f) \/ BeginAbort(c, f)
    PROVE  TypeOK'
<1> USE DEF TypeOK, PipelineAssumption, Begin, Goto, Finish, rows,
            fileVars, jobVars, rollupVars, budget
<1>1. CASE UpdateFile(c)
  BY <1>1 DEF UpdateFile, CallSteps
<1>2. CASE DropHandle(c)
  BY <1>2 DEF DropHandle, CallSteps
<1>3. CASE IncrCounter(c)
  BY <1>3 DEF IncrCounter, CallSteps
<1>4. CASE EnqueueAnalyze(c)
  <2>1. /\ job' = [job EXCEPT ![arg[c]] = IF @ = "absent" THEN "waiting" ELSE @]
        /\ job' \in [Files -> JobStates]
        /\ \A f \in Files : (job[f] = "active") <=> (job'[f] = "active")
    BY <1>4 DEF EnqueueAnalyze, AddAnalyze, JobStates
  <2> QED BY <1>4, <2>1 DEF EnqueueAnalyze, CallSteps
<1>5. CASE RemoveRow(c)
  <2>1. row' = [row EXCEPT ![arg[c]] = "deleted"] /\ UNCHANGED <<handle, meta, taken, lost>>
    BY <1>5 DEF RemoveRow
  <2>2. row' \in [Files -> {"new", "present", "deleted"}]
    BY <2>1
  <2>3. /\ pc' \in [Calls -> CallSteps] /\ arg' \in [Calls -> Files \cup {NoFile}]
        /\ todo' \in [Calls -> SUBSET Files]
    BY <1>5 DEF RemoveRow, CallSteps
  <2>4. UNCHANGED <<status, counter, jobVars, rollupVars, budget>>
    BY <1>5 DEF RemoveRow
  <2> QED BY <2>1, <2>2, <2>3, <2>4
<1>6. CASE ResetStatus(c)
  BY <1>6 DEF ResetStatus, CallSteps
<1>7. CASE PrimeCounter(c)
  <2>1. Cardinality(todo[c]) \in Int
    BY FS_Subset, FS_CardinalityType
  <2> QED BY <1>7, <2>1 DEF PrimeCounter, CallSteps
<1>8. ASSUME NEW f \in Files, FanOut(c, f) PROVE TypeOK'
  <2>1. /\ job' \in [Files -> JobStates]
        /\ \A g \in Files : (job[g] = "active") <=> (job'[g] = "active")
    BY <1>8 DEF FanOut, AddAnalyze, JobStates
  <2> QED BY <1>8, <2>1 DEF FanOut, CallSteps
<1>9. CASE CrashCall(c)
  BY <1>9 DEF CrashCall, CallSteps
<1>10. CASE BeginReanalyze(c)
  BY <1>10 DEF BeginReanalyze, CallSteps
<1>11. ASSUME NEW f \in Files, BeginComplete(c, f) \/ BeginDelete(c, f) \/ BeginAbort(c, f)
       PROVE  TypeOK'
  BY <1>11 DEF BeginComplete, BeginDelete, BeginAbort, CallSteps
<1> QED BY <1>1, <1>2, <1>3, <1>4, <1>5, <1>6, <1>7, <1>8, <1>9, <1>10, <1>11 DEF CallStep, CompleteStep

\* The end of an attempt keeps the types of the queue's variables.
LEMMA SettleTypes ==
    ASSUME TypeOK, PipelineAssumption, NEW f \in Files,
           Settle(f, TRUE) \/ Settle(f, FALSE)
    PROVE  /\ job' \in [Files -> JobStates] /\ tries' \in [Files -> Nat]
           /\ stalls' \in [Files -> Nat]
           /\ at' \in [Files -> WorkerSteps] /\ threw' \subseteq Files
           /\ \A g \in Files : (job'[g] = "active") <=> (at'[g] # "idle")
  BY DEF Settle, AfterThrow, TypeOK, PipelineAssumption, JobStates, WorkerSteps

\* An attempt ends by throwing or by returning.
LEMMA SettleCases ==
    ASSUME NEW f, Settle(f, f \in threw) PROVE Settle(f, TRUE) \/ Settle(f, FALSE)
<1>1. CASE f \in threw
  <2>1. Settle(f, TRUE)
    BY <1>1 DEF Settle
  <2> QED BY <2>1
<1>2. CASE f \notin threw
  <2>1. Settle(f, FALSE)
    BY <1>2 DEF Settle
  <2> QED BY <2>1
<1> QED BY <1>1, <1>2

\* A step of the analyze queue keeps the types.
LEMMA WorkerTypes ==
    ASSUME TypeOK, PipelineAssumption, NEW f \in Files,
           WorkerStep(f) \/ StepThrows(f) \/ Stall(f) \/ Forget(f)
    PROVE  TypeOK'
<1> USE DEF fileVars, jobVars, rollupVars, callVars, budget
<1>1. CASE Pickup(f)
  BY <1>1 DEF TypeOK, Pickup, JobStates, WorkerSteps
<1>2. CASE Fetch(f)
  <2>1. CASE f \in rows
    BY <1>2, <2>1 DEF TypeOK, Fetch, WorkerSteps
  <2>2. CASE f \notin rows
    BY <1>2, <2>2, SettleTypes DEF TypeOK, Fetch
  <2> QED BY <2>1, <2>2
<1>3. ASSUME NEW outcome \in {"report", "error"}, Analyze(f, outcome)
      PROVE  TypeOK'
  <2>1. CASE f \in rows
    BY <1>3, <2>1 DEF TypeOK, Analyze, WorkerSteps
  <2>2. CASE f \notin rows
    BY <1>3, <2>2, SettleTypes DEF TypeOK, Analyze
  <2> QED BY <2>1, <2>2
<1>4. CASE Decrement(f)
  <2>1. CASE counter - 1 <= 0
    BY <1>4, <2>1 DEF TypeOK, Decrement, WorkerSteps
  <2>2. CASE ~(counter - 1 <= 0)
    <3>1. Settle(f, f \in threw)
      BY <1>4, <2>2, Zenon DEF Decrement
    <3>2. Settle(f, TRUE) \/ Settle(f, FALSE)
      BY <3>1, SettleCases, Zenon
    <3>3. counter' = counter - 1 /\ UNCHANGED <<fileVars, status, rollupVars, callVars, budget>>
      BY <1>4, Zenon DEF Decrement
    <3>4. /\ job' \in [Files -> JobStates] /\ tries' \in [Files -> Nat]
          /\ stalls' \in [Files -> Nat]
          /\ at' \in [Files -> WorkerSteps] /\ threw' \subseteq Files
          /\ \A g \in Files : (job'[g] = "active") <=> (at'[g] # "idle")
      BY <3>2, SettleTypes, Zenon
    <3>5. /\ UNCHANGED <<fileVars, status, rollupVars, callVars, budget>> /\ broke' = broke
          /\ counter' \in Int
      BY <1>4, <3>3 DEF Decrement, TypeOK
    <3> QED BY <3>4, <3>5 DEF TypeOK
  <2> QED BY <2>1, <2>2
<1>5. CASE ClearCounter(f)
  BY <1>5 DEF TypeOK, ClearCounter, WorkerSteps
<1>6. CASE EnqueueRollup(f)
  <2>1. rjob' \in JobStates /\ ((rjob' = "active") <=> (rjob = "active"))
    BY <1>6 DEF TypeOK, EnqueueRollup, AddRollup, JobStates
  <2>2. Settle(f, TRUE) \/ Settle(f, FALSE)
    BY <1>6, SettleCases, Zenon DEF EnqueueRollup
  <2> QED BY <1>6, <2>1, <2>2, SettleTypes DEF TypeOK, EnqueueRollup
<1>7. CASE Stall(f)
  BY <1>7 DEF TypeOK, Stall, JobStates, WorkerSteps
<1>8. CASE Forget(f)
  BY <1>8 DEF TypeOK, Forget, JobStates
<1>9. CASE StepThrows(f)
  <2>1. Settle(f, TRUE) /\ broke' = broke \cup {f} /\ crashes' = crashes + 1
    BY <1>9 DEF StepThrows
  <2>2. /\ job' \in [Files -> JobStates] /\ tries' \in [Files -> Nat]
        /\ stalls' \in [Files -> Nat]
        /\ at' \in [Files -> WorkerSteps] /\ threw' \subseteq Files
        /\ \A g \in Files : (job'[g] = "active") <=> (at'[g] # "idle")
    BY <2>1, SettleTypes
  <2>3. counter' \in Int /\ UNCHANGED <<fileVars, status, rollupVars, callVars, reanalyses>>
    BY <1>9 DEF StepThrows, TypeOK
  <2> QED BY <2>1, <2>2, <2>3 DEF TypeOK
<1> QED BY <1>1, <1>2, <1>3, <1>4, <1>5, <1>6, <1>7, <1>8, <1>9 DEF WorkerStep

\* A step of a conversion keeps the types.
LEMMA ConvertTypes ==
    ASSUME TypeOK, NEW f \in Files, RewriteStep(f)
    PROVE  TypeOK'
BY DEF TypeOK, RewriteStep, EnqueueConvert, ConvertReads, ConvertWrites, ConvertEnds,
       jobVars, rollupVars, callVars, budget

\* A step of the rollup queue keeps the types.
LEMMA RollupTypes ==
    ASSUME TypeOK, PipelineAssumption,
           RollupStep \/ RollupFails(FALSE) \/ ForgetRollup
    PROVE  TypeOK'
<1> USE DEF TypeOK, PipelineAssumption, SettleRollup, AfterThrow, JobStates, RollupSteps,
            fileVars, jobVars, callVars, budget
<1>1. CASE PickupRollup
  BY <1>1 DEF PickupRollup
<1>2. CASE ReadFiles
  BY <1>2 DEF ReadFiles
<1>3. CASE MarkReady
  BY <1>3 DEF MarkReady
<1>4. ASSUME NEW stored \in BOOLEAN, RollupFails(stored) PROVE TypeOK'
  BY <1>4 DEF RollupFails
<1>5. CASE FanOutRollup
  BY <1>5 DEF FanOutRollup
<1>6. CASE ForgetRollup
  BY <1>6 DEF ForgetRollup
<1> QED BY <1>1, <1>2, <1>3, <1>4, <1>5, <1>6 DEF RollupStep

\* Every step of the whole system keeps the types.
LEMMA TypesPreserved == ASSUME TypeOK, PipelineAssumption, [Next]_vars PROVE TypeOK'
<1>1. CASE UNCHANGED vars
  BY <1>1 DEF TypeOK, vars, fileVars, jobVars, rollupVars, callVars, budget
<1>2. ASSUME NEW f \in Files, Initiate(f) PROVE TypeOK'
  BY <1>2 DEF TypeOK, Initiate, jobVars, rollupVars, callVars, budget
<1> QED BY <1>1, <1>2, CallTypes, WorkerTypes, ConvertTypes, RollupTypes DEF Next

\* The variables of the pipeline keep their types, and a job is active
\* exactly while a worker is at one of its steps.
THEOREM TypeCorrect == Spec => []TypeOK
<1>1. Init => TypeOK
  BY DEF Init, TypeOK, JobStates, WorkerSteps, RollupSteps, CallSteps
<1>2. TypeOK /\ [Next]_vars => TypeOK'
  BY PipelineAssumption, TypesPreserved
<1> QED BY <1>1, <1>2, PTL DEF Spec

-----------------------------------------------------------------------------
(* The counter is covered.                                                 *)

\* How a bound on a counter follows a set that gains or loses one element.
LEMMA Counting ==
    ASSUME NEW S, NEW T, NEW x, NEW n \in Int,
           IsFiniteSet(S), IsFiniteSet(T), n <= Cardinality(S)
    PROVE  /\ S \subseteq T => n <= Cardinality(T)
           /\ x \notin S /\ S \cup {x} \subseteq T => n + 1 <= Cardinality(T)
           /\ S \ {x} \subseteq T => n - 1 <= Cardinality(T)
           /\ 0 <= Cardinality(T)
<1>1. Cardinality(S) \in Nat /\ Cardinality(T) \in Nat
  BY FS_CardinalityType
<1>2. ASSUME S \subseteq T PROVE n <= Cardinality(T)
  BY <1>1, <1>2, FS_Subset
<1>3. ASSUME x \notin S, S \cup {x} \subseteq T PROVE n + 1 <= Cardinality(T)
  <2>1. IsFiniteSet(S \cup {x}) /\ Cardinality(S \cup {x}) = Cardinality(S) + 1
    BY <1>3, FS_AddElement
  <2> QED BY <1>1, <1>3, <2>1, FS_Subset
<1>4. ASSUME S \ {x} \subseteq T PROVE n - 1 <= Cardinality(T)
  <2>1. /\ IsFiniteSet(S \ {x})
        /\ Cardinality(S \ {x}) = IF x \in S THEN Cardinality(S) - 1 ELSE Cardinality(S)
    BY FS_RemoveElement
  <2> QED BY <1>1, <1>4, <2>1, FS_Subset
<1> QED BY <1>1, <1>2, <1>3, <1>4

\* Uploads are steps of the whole system.
LEMMA UploadStepIsStep == [UploadNext]_vars => [Next]_vars
  BY DEF UploadNext, Next, CompleteOnce, CallStep, PassingFault

\* What the counter has to do in a step, given who owes it a decrement.
LEMMA CoveredStep ==
    ASSUME PipelineAssumption, UploadInv, TypeOK',
           \/ counter' = counter /\ Owing \subseteq Owing'
           \/ counter' = 0
           \/ \E f \in Files : counter' = counter + 1 /\ f \notin Owing /\ Owing \cup {f} \subseteq Owing'
           \/ \E f \in Files : counter' = counter - 1 /\ Owing \ {f} \subseteq Owing'
    PROVE  FanInCovered'
<1>1. IsFiniteSet(Files) /\ Owing \subseteq Files /\ Owing' \subseteq Files
  BY DEF PipelineAssumption, Owing
<1>2. IsFiniteSet(Owing) /\ IsFiniteSet(Owing')
  BY <1>1, FS_Subset
<1>3. counter \in Int /\ counter <= Cardinality(Owing)
  BY DEF UploadInv, TypeOK, FanInCovered
<1>4. counter' <= Cardinality(Owing')
  <2>1. CASE counter' = counter /\ Owing \subseteq Owing'
    BY <1>2, <1>3, <2>1, Counting
  <2>2. CASE counter' = 0
    BY <1>2, <1>3, <2>2, Counting
  <2>3. ASSUME NEW f \in Files, counter' = counter + 1, f \notin Owing, Owing \cup {f} \subseteq Owing'
        PROVE  counter' <= Cardinality(Owing')
    BY <1>2, <1>3, <2>3, Counting
  <2>4. ASSUME NEW f \in Files, counter' = counter - 1, Owing \ {f} \subseteq Owing'
        PROVE  counter' <= Cardinality(Owing')
    BY <1>2, <1>3, <2>4, Counting
  <2> QED BY <2>1, <2>2, <2>3, <2>4
<1> QED BY <1>4 DEF FanInCovered

\* A step of an upload request keeps the invariant.
LEMMA UploadCalls ==
    ASSUME PipelineAssumption, UploadInv, TypeOK', NEW c \in Calls,
           CompleteStep(c) \/ \E f \in Files : CompleteOnce(c, f)
    PROVE  UploadInv'
<1> USE DEF UploadInv, fileVars, jobVars, rollupVars, budget
<1> DEFINE Rest == OnlyUploads /\ EnqueuedOnce /\ NothingDeleted
<1>1. ASSUME NEW f \in Files, CompleteOnce(c, f) PROVE UploadInv'
  <2>1. /\ pc' = [pc EXCEPT ![c] = "update"] /\ arg' = [arg EXCEPT ![c] = f]
        /\ pc[c] = "idle" /\ f \in handle /\ \A d \in Calls : arg[d] # f
        /\ UNCHANGED <<row, handle, job, at, counter>>
    BY <1>1 DEF CompleteOnce, BeginComplete, Begin, Goto
  <2>2. OnlyUploads'
    BY <2>1 DEF OnlyUploads, TypeOK, PipelineAssumption
  <2>3. EnqueuedOnce'
    BY <2>1 DEF EnqueuedOnce, OnlyUploads, NothingDeleted, TypeOK, PipelineAssumption
  <2>4. NothingDeleted'
    BY <2>1 DEF NothingDeleted
  <2>5. Owing \subseteq Owing'
    BY <2>1 DEF Owing, OnlyUploads, TypeOK
  <2> QED BY <2>1, <2>2, <2>3, <2>4, <2>5, CoveredStep
<1>2. CASE UpdateFile(c)
  <2>1. arg[c] \in rows /\ pc[c] = "update"
    BY <1>2 DEF UpdateFile, EnqueuedOnce, OnlyUploads, TypeOK, rows
  <2>2. /\ pc' = [pc EXCEPT ![c] = "drop"]
        /\ UNCHANGED <<row, handle, job, at, counter, arg>>
    BY <1>2, <2>1 DEF UpdateFile, Goto
  <2>3. Rest'
    BY <2>1, <2>2 DEF OnlyUploads, EnqueuedOnce, NothingDeleted, TypeOK
  <2>4. Owing \subseteq Owing'
    BY <2>1, <2>2 DEF Owing, TypeOK
  <2> QED BY <2>2, <2>3, <2>4, CoveredStep
<1>3. CASE DropHandle(c)
  <2>1. /\ pc[c] = "drop" /\ pc' = [pc EXCEPT ![c] = "incr"]
        /\ handle' = handle \ {arg[c]}
        /\ UNCHANGED <<row, job, at, counter, arg>>
    BY <1>3 DEF DropHandle, Goto, OnlyUploads
  <2>2. OnlyUploads' /\ NothingDeleted'
    BY <2>1 DEF OnlyUploads, NothingDeleted, TypeOK
  <2>3. EnqueuedOnce'
    BY <2>1 DEF OnlyUploads, EnqueuedOnce, TypeOK
  <2>4. Owing \subseteq Owing'
    BY <2>1 DEF Owing, TypeOK
  <2> QED BY <2>1, <2>2, <2>3, <2>4, CoveredStep
<1>4. CASE IncrCounter(c)
  <2>1. /\ pc[c] = "incr" /\ pc' = [pc EXCEPT ![c] = "add"] /\ counter' = counter + 1
        /\ UNCHANGED <<row, handle, job, at, arg>>
    BY <1>4 DEF IncrCounter, Goto
  <2>2. arg[c] \in Files /\ arg[c] # NoFile /\ arg[c] \notin handle /\ job[arg[c]] = "absent"
    BY <2>1 DEF OnlyUploads, EnqueuedOnce, TypeOK
  <2>3. Rest'
    BY <2>1, <2>2 DEF OnlyUploads, EnqueuedOnce, NothingDeleted, TypeOK
  <2>4. arg[c] \notin Owing
    BY <2>1, <2>2 DEF Owing, OnlyUploads, TypeOK
  <2>5. Owing \cup {arg[c]} \subseteq Owing'
    BY <2>1, <2>2 DEF Owing, TypeOK
  <2> QED BY <2>1, <2>2, <2>3, <2>4, <2>5, CoveredStep
<1>5. CASE EnqueueAnalyze(c)
  <2>1. /\ pc[c] = "add" /\ pc' = [pc EXCEPT ![c] = "idle"] /\ arg' = [arg EXCEPT ![c] = NoFile]
        /\ arg[c] \in Files /\ arg[c] # NoFile /\ arg[c] \notin handle
        /\ job[arg[c]] = "absent" /\ row[arg[c]] = "present"
        /\ UNCHANGED <<row, handle, at, counter>>
    BY <1>5 DEF EnqueueAnalyze, Finish, Goto, OnlyUploads, EnqueuedOnce, TypeOK
  <2>2. job' = [job EXCEPT ![arg[c]] = "waiting"]
    BY <1>5, <2>1 DEF EnqueueAnalyze, AddAnalyze, TypeOK
  <2>3. OnlyUploads' /\ NothingDeleted'
    BY <2>1, <2>2 DEF OnlyUploads, NothingDeleted, TypeOK
  <2>4. EnqueuedOnce'
    BY <2>1, <2>2 DEF OnlyUploads, EnqueuedOnce, TypeOK
  <2>5. Owing \subseteq Owing'
    BY <2>1, <2>2 DEF Owing, TypeOK
  <2> QED BY <2>1, <2>3, <2>4, <2>5, CoveredStep
<1> QED BY <1>1, <1>2, <1>3, <1>4, <1>5 DEF CompleteStep

\* A step of a worker keeps the invariant.
LEMMA UploadWorkers ==
    ASSUME PipelineAssumption, UploadInv, TypeOK', NEW f \in Files,
           WorkerStep(f) \/ PassingFault(f) \/ Forget(f)
    PROVE  UploadInv'
<1> USE DEF UploadInv, fileVars, callVars
<1>1. UNCHANGED <<row, handle, pc, arg>>
  BY DEF WorkerStep, PassingFault, StepThrows, Forget, Pickup, Fetch, Analyze, Decrement,
         ClearCounter, EnqueueRollup
<1>2. OnlyUploads' /\ NothingDeleted'
  BY <1>1 DEF OnlyUploads, NothingDeleted

\* A job appears only through add, and is forgotten only when settled.
<1>3. ASSUME job' \in [Files -> JobStates],
             \A g \in Files : job[g] = "absent" => job'[g] = "absent"
      PROVE  EnqueuedOnce'
  BY <1>1, <1>3 DEF EnqueuedOnce, TypeOK, OnlyUploads
<1>4. ASSUME job[f] # "absent", UNCHANGED counter,
             \E s \in JobStates : job' = [job EXCEPT ![f] = s],
             \E w \in WorkerSteps : at' = [at EXCEPT ![f] = w],
             f \in Owing => job'[f] = "waiting" \/ at'[f] \in {"fetch", "analyze", "decr"}
      PROVE  UploadInv'
  <2>1. EnqueuedOnce'
    BY <1>3, <1>4 DEF TypeOK
  <2>2. Owing \subseteq Owing'
    BY <1>1, <1>4 DEF Owing, TypeOK
  <2> QED BY <1>2, <1>4, <2>1, <2>2, CoveredStep
<1>5. CASE Pickup(f)
  <2>1. /\ job[f] = "waiting" /\ UNCHANGED counter
        /\ job' = [job EXCEPT ![f] = "active"] /\ at' = [at EXCEPT ![f] = "fetch"]
    BY <1>5 DEF Pickup
  <2>2. "active" \in JobStates /\ "fetch" \in WorkerSteps /\ at'[f] = "fetch"
    BY <2>1 DEF JobStates, WorkerSteps, TypeOK
  <2> QED BY <1>4, <2>1, <2>2
<1>6. CASE Fetch(f)
  <2>1. f \in rows /\ job[f] = "active"
    BY <1>6 DEF Fetch, EnqueuedOnce, NothingDeleted, TypeOK, rows
  <2>2. /\ at' = [at EXCEPT ![f] = "analyze"] /\ job' = job /\ UNCHANGED counter
    BY <1>6, <2>1 DEF Fetch
  <2>3. /\ job' = [job EXCEPT ![f] = "active"] /\ "active" \in JobStates
        /\ "analyze" \in WorkerSteps /\ at'[f] = "analyze"
    BY <2>1, <2>2 DEF JobStates, WorkerSteps, TypeOK
  <2> QED BY <1>4, <2>1, <2>2, <2>3
<1>7. ASSUME NEW outcome \in {"report", "error"}, Analyze(f, outcome) PROVE UploadInv'
  <2>1. f \in rows /\ job[f] = "active"
    BY <1>7 DEF Analyze, EnqueuedOnce, NothingDeleted, TypeOK, rows
  <2>2. /\ at' = [at EXCEPT ![f] = "decr"] /\ job' = job /\ UNCHANGED counter
    BY <1>7, <2>1 DEF Analyze
  <2>3. /\ job' = [job EXCEPT ![f] = "active"] /\ "active" \in JobStates
        /\ "decr" \in WorkerSteps /\ at'[f] = "decr"
    BY <2>1, <2>2 DEF JobStates, WorkerSteps, TypeOK
  <2> QED BY <1>4, <2>1, <2>2, <2>3
<1>8. ASSUME NEW t \in BOOLEAN, Settle(f, t) PROVE
        /\ at' = [at EXCEPT ![f] = "idle"]
        /\ \E s \in {"waiting", "failed", "completed"} : job' = [job EXCEPT ![f] = s]
  BY <1>8 DEF Settle, AfterThrow
<1>9. ASSUME Settle(f, TRUE) \/ Settle(f, FALSE), job[f] = "active"
      PROVE  EnqueuedOnce' /\ Owing \ {f} \subseteq Owing'
                /\ (f \notin Owing => Owing \subseteq Owing')
  <2>1. /\ at' = [at EXCEPT ![f] = "idle"]
        /\ \E s \in {"waiting", "failed", "completed"} : job' = [job EXCEPT ![f] = s]
    BY <1>8, <1>9
  <2>2. EnqueuedOnce'
    BY <1>3, <1>9, <2>1 DEF TypeOK
  <2> QED BY <1>1, <2>1, <2>2 DEF Owing, TypeOK
<1>10. CASE Decrement(f)
  <2>1. at[f] = "decr" /\ job[f] = "active" /\ counter' = counter - 1
    BY <1>10, Zenon DEF Decrement, TypeOK
  <2>2. CASE counter - 1 <= 0
    <3>1. at' = [at EXCEPT ![f] = "clear"] /\ job' = job
      BY <1>10, <2>2 DEF Decrement
    <3>2. EnqueuedOnce' /\ Owing \ {f} \subseteq Owing'
      BY <1>1, <1>3, <2>1, <3>1 DEF Owing, TypeOK
    <3> QED BY <1>2, <2>1, <3>2, CoveredStep
  <2>3. CASE ~(counter - 1 <= 0)
    <3>1. Settle(f, f \in threw)
      BY <1>10, <2>3, Zenon DEF Decrement
    <3>2. Settle(f, TRUE) \/ Settle(f, FALSE)
      BY <3>1, SettleCases, Zenon
    <3>3. EnqueuedOnce' /\ Owing \ {f} \subseteq Owing'
      BY <1>9, <2>1, <3>2
    <3> QED BY <1>2, <2>1, <3>3, CoveredStep
  <2> QED BY <2>2, <2>3
<1>11. CASE ClearCounter(f)
  <2>1. counter' = 0 /\ job' = job
    BY <1>11 DEF ClearCounter
  <2>2. EnqueuedOnce'
    BY <1>3, <2>1 DEF TypeOK
  <2> QED BY <1>2, <2>1, <2>2, CoveredStep
<1>12. CASE EnqueueRollup(f)
  <2>1. at[f] = "rollup" /\ UNCHANGED counter /\ Settle(f, f \in threw)
    BY <1>12, Zenon DEF EnqueueRollup
  <2>2. Settle(f, TRUE) \/ Settle(f, FALSE)
    BY <2>1, SettleCases, Zenon
  <2>3. job[f] = "active" /\ f \notin Owing
    <3>1. at[f] = "rollup"
      BY <2>1, Zenon
    <3> QED BY <3>1 DEF Owing, TypeOK, EnqueuedOnce, OnlyUploads, PipelineAssumption
  <2>4. UNCHANGED counter
    BY <2>1, Zenon
  <2> QED BY <1>2, <1>9, <2>2, <2>3, <2>4, CoveredStep
<1>13. CASE Forget(f)
  <2>1. /\ job[f] \in {"completed", "failed"} /\ job' = [job EXCEPT ![f] = "absent"]
        /\ UNCHANGED <<at, counter>>
    BY <1>13 DEF Forget, jobVars
  <2>2. EnqueuedOnce' /\ Owing \subseteq Owing'
    BY <1>1, <1>3, <2>1 DEF Owing, TypeOK
  <2> QED BY <1>2, <2>1, <2>2, CoveredStep
<1>14. CASE PassingFault(f)
  <2>1. /\ Settle(f, TRUE) /\ tries[f] + 1 < MaxAttempts /\ job[f] = "active"
        /\ counter' = counter \/ counter' = counter - 1
    BY <1>14 DEF PassingFault, StepThrows, TypeOK
  <2>2. job' = [job EXCEPT ![f] = "waiting"] /\ at' = [at EXCEPT ![f] = "idle"]
    BY <2>1 DEF Settle, AfterThrow
  <2>3. EnqueuedOnce'
    BY <1>9, <2>1
  <2>4. Owing \subseteq Owing'
    BY <1>1, <2>2 DEF Owing, TypeOK
  <2>5. CASE counter' = counter
    BY <1>2, <2>3, <2>4, <2>5, CoveredStep
  <2>6. CASE counter' = counter - 1
    BY <1>2, <2>3, <2>4, <2>6, CoveredStep
  <2> QED BY <2>1, <2>5, <2>6
<1> QED BY <1>5, <1>6, <1>7, <1>10, <1>11, <1>12, <1>13, <1>14 DEF WorkerStep

\* With uploads only, the fan-in counter never exceeds the decrements still to
\* come: the last per-file job of a version always reaches the rollup.
THEOREM CounterCovered == UploadSpec => []FanInCovered
<1>1. Init => UploadInv
  <2>1. ASSUME Init PROVE TypeOK /\ OnlyUploads /\ EnqueuedOnce /\ NothingDeleted
    BY <2>1 DEF Init, TypeOK, OnlyUploads, EnqueuedOnce, NothingDeleted,
                JobStates, WorkerSteps, RollupSteps, CallSteps
  <2>2. ASSUME Init PROVE FanInCovered
    <3>1. Owing = {} /\ counter = 0
      BY <2>2 DEF Init, Owing
    <3> QED BY <3>1, FS_EmptySet DEF FanInCovered
  <2> QED BY <2>1, <2>2 DEF UploadInv
<1>2. UploadInv /\ [UploadNext]_vars => UploadInv'
  <2> SUFFICES ASSUME UploadInv, [UploadNext]_vars PROVE UploadInv'
    OBVIOUS
  <2>1. PipelineAssumption /\ TypeOK'
    BY PipelineAssumption, UploadStepIsStep, TypesPreserved DEF UploadInv
  <2>2. ASSUME UNCHANGED <<fileVars, job, at, pc, arg, counter>> PROVE UploadInv'
    BY <2>1, <2>2 DEF UploadInv, OnlyUploads, EnqueuedOnce, NothingDeleted, FanInCovered,
                      Owing, fileVars
  <2>3. ASSUME NEW f \in Files, Initiate(f) PROVE UploadInv'
    <3>1. /\ row[f] = "new" /\ row' = [row EXCEPT ![f] = "present"]
          /\ handle' = handle \cup {f} /\ UNCHANGED <<job, at, pc, arg, counter>>
      BY <2>3 DEF Initiate, jobVars, callVars
    <3>2. f # NoFile /\ \A c \in Calls : arg[c] # f
      BY <2>1, <3>1 DEF UploadInv, EnqueuedOnce, PipelineAssumption
    <3>3. OnlyUploads' /\ NothingDeleted'
      BY <3>1 DEF UploadInv, TypeOK, OnlyUploads, NothingDeleted
    <3>4. EnqueuedOnce'
      BY <3>1, <3>2 DEF UploadInv, TypeOK, EnqueuedOnce
    <3>5. FanInCovered'
      BY <3>1 DEF UploadInv, FanInCovered, Owing
    <3> QED BY <2>1, <3>3, <3>4, <3>5 DEF UploadInv
  <2>4. ASSUME RollupStep \/ ForgetRollup PROVE UploadInv'
    BY <2>2, <2>4 DEF RollupStep, ForgetRollup, PickupRollup, ReadFiles, MarkReady, RollupFails,
                      FanOutRollup, jobVars, callVars
  <2>5. CASE UNCHANGED vars
    BY <2>2, <2>5 DEF vars, jobVars, callVars
  <2> QED BY <2>1, <2>3, <2>4, <2>5, UploadCalls, UploadWorkers DEF UploadNext
<1>3. UploadInv => FanInCovered
  BY DEF UploadInv
<1> QED BY <1>1, <1>2, <1>3, PTL DEF UploadSpec

-----------------------------------------------------------------------------
(* What Postgres says of a settled job.                                    *)

\* Handles, requests and jobs are about files that have, or had, a row.
Uploaded ==
    /\ \A f \in handle : row[f] # "new"
    /\ \A c \in Calls : arg[c] \in Files => row[arg[c]] # "new"
    /\ \A c \in Calls : \A f \in todo[c] : row[f] # "new"
    /\ \A f \in Files : row[f] = "new" => job[f] = "absent"

\* The last analysis of a file that is still there has left its outcome before
\* the counter is touched, and the outcome stays while the job is retained.
Recorded(f) ==
    /\ f \in threw => at[f] \in {"decr", "clear", "rollup"}
    /\ row[f] = "present" /\ at[f] \in {"decr", "clear", "rollup"} =>
           f \in lost \/ meta[f] = IF f \in threw THEN "error" ELSE "report"
    /\ row[f] = "present" /\ job[f] = "completed" => f \in lost \/ meta[f] = "report"
    /\ row[f] = "present" /\ job[f] = "failed" /\ stalls[f] <= MaxStalls /\ f \notin broke
         => f \in lost \/ meta[f] = "error"

\* The inductive invariant for what analyses leave behind.
OutcomeInv == TypeOK /\ Uploaded /\ \A f \in Files : Recorded(f)

\* What is recorded of a file that no step of the queue is about.
LEMMA RecordKept ==
    ASSUME NEW f \in Files, Recorded(f), TypeOK,
           row'[f] = row[f] \/ row'[f] = "deleted", f \in lost' \/ meta'[f] = meta[f],
           f \in lost => f \in lost', f \in broke' <=> f \in broke,
           at'[f] = at[f], f \in threw' <=> f \in threw, stalls'[f] = stalls[f],
           job'[f] = job[f] \/ job'[f] \in {"waiting", "absent"}
    PROVE  Recorded(f)'
BY DEF Recorded

\* A step of an API request.
LEMMA CallRecords ==
    ASSUME OutcomeInv, TypeOK', NEW c \in Calls,
           CallStep(c) \/ CrashCall(c) \/ BeginReanalyze(c)
             \/ \E f \in Files : BeginComplete(c, f) \/ BeginDelete(c, f) \/ BeginAbort(c, f)
    PROVE  OutcomeInv'
<1> USE DEF OutcomeInv, fileVars, jobVars, Begin, Goto, Finish
<1>1. /\ UNCHANGED <<meta, lost, at, threw, broke, stalls>>
      /\ \A f \in Files : row'[f] = row[f] \/ row'[f] = "deleted"
      /\ \A f \in Files : job'[f] = job[f] \/ job'[f] = "waiting"
  <2>1. CASE EnqueueAnalyze(c)
    BY <2>1 DEF EnqueueAnalyze, AddAnalyze, TypeOK
  <2>2. ASSUME NEW f \in Files, FanOut(c, f)
        PROVE  /\ UNCHANGED <<meta, lost, at, threw, broke, stalls, row>>
               /\ \A g \in Files : job'[g] = job[g] \/ job'[g] = "waiting"
    BY <2>2 DEF FanOut, AddAnalyze, TypeOK
  <2>3. CASE RemoveRow(c)
    BY <2>3 DEF RemoveRow, TypeOK
  <2>4. CASE \/ UpdateFile(c) \/ DropHandle(c) \/ IncrCounter(c) \/ ResetStatus(c) \/ PrimeCounter(c)
             \/ CrashCall(c) \/ BeginReanalyze(c)
             \/ \E f \in Files : BeginComplete(c, f) \/ BeginDelete(c, f) \/ BeginAbort(c, f)
    BY <2>4 DEF UpdateFile, DropHandle, IncrCounter, ResetStatus, PrimeCounter, CrashCall,
                BeginReanalyze, BeginComplete, BeginDelete, BeginAbort
  <2> QED BY <2>1, <2>2, <2>3, <2>4 DEF CallStep, CompleteStep
<1>2. \A f \in Files : Recorded(f)'
  BY <1>1, RecordKept
<1>3. /\ handle' \subseteq handle
      /\ arg'[c] = arg[c] \/ arg'[c] \in handle \cup rows \cup {NoFile}
      /\ todo'[c] \subseteq todo[c] \cup rows
      /\ \A d \in Calls \ {c} : arg'[d] = arg[d] /\ todo'[d] = todo[d]
  <2>1. CASE CompleteStep(c)
    BY <2>1 DEF CompleteStep, UpdateFile, DropHandle, IncrCounter, EnqueueAnalyze, TypeOK
  <2>2. CASE RemoveRow(c) \/ ResetStatus(c) \/ PrimeCounter(c)
    BY <2>2 DEF RemoveRow, ResetStatus, PrimeCounter, TypeOK
  <2>3. CASE \E f \in Files : FanOut(c, f)
    BY <2>3 DEF FanOut, TypeOK
  <2>4. CASE CrashCall(c) \/ BeginReanalyze(c)
    BY <2>4 DEF CrashCall, BeginReanalyze, TypeOK
  <2>5. CASE \E f \in Files : BeginComplete(c, f) \/ BeginDelete(c, f) \/ BeginAbort(c, f)
    BY <2>5 DEF BeginComplete, BeginDelete, BeginAbort, TypeOK
  <2> QED BY <2>1, <2>2, <2>3, <2>4, <2>5 DEF CallStep
<1>4. \A f \in Files : row[f] = "new" => job'[f] = job[f]
  <2>1. CASE EnqueueAnalyze(c)
    BY <2>1 DEF EnqueueAnalyze, AddAnalyze, TypeOK, Uploaded
  <2>2. CASE \E f \in Files : FanOut(c, f)
    BY <2>2 DEF FanOut, AddAnalyze, TypeOK, Uploaded
  <2>3. CASE \/ UpdateFile(c) \/ DropHandle(c) \/ IncrCounter(c) \/ RemoveRow(c)
             \/ ResetStatus(c) \/ PrimeCounter(c)
    BY <2>3 DEF UpdateFile, DropHandle, IncrCounter, RemoveRow, ResetStatus, PrimeCounter
  <2>4. CASE \/ CrashCall(c) \/ BeginReanalyze(c)
             \/ \E f \in Files : BeginComplete(c, f) \/ BeginDelete(c, f) \/ BeginAbort(c, f)
    BY <2>4 DEF CrashCall, BeginReanalyze, BeginComplete, BeginDelete, BeginAbort
  <2> QED BY <2>1, <2>2, <2>3, <2>4 DEF CallStep, CompleteStep
<1>5. Uploaded'
  <2>1. \A f \in handle' : row'[f] # "new"
    BY <1>1, <1>3 DEF Uploaded, TypeOK
  <2>2. \A d \in Calls : arg'[d] \in Files => row'[arg'[d]] # "new"
    BY <1>1, <1>3, PipelineAssumption DEF Uploaded, TypeOK, rows
  <2>3. \A d \in Calls : \A f \in todo'[d] : row'[f] # "new"
    BY <1>1, <1>3 DEF Uploaded, TypeOK, rows
  <2>4. \A f \in Files : row'[f] = "new" => job'[f] = "absent"
    BY <1>1, <1>4 DEF Uploaded
  <2> QED BY <2>1, <2>2, <2>3, <2>4 DEF Uploaded
<1> QED BY <1>2, <1>5

\* The end of an attempt, seen from the file it was about.
LEMMA SettleRecords ==
    ASSUME TypeOK, NEW f \in Files, NEW throws \in BOOLEAN, Settle(f, throws), meta' = meta, row' = row, lost' = lost,
           row[f] = "present" =>
               f \in lost \/ (f \in broke' /\ throws) \/ meta[f] = IF throws THEN "error" ELSE "report"
    PROVE  Recorded(f)'
<1>1. /\ at'[f] = "idle" /\ f \notin threw'
      /\ job'[f] \in {"completed", "waiting", "failed"}
      /\ throws => job'[f] # "completed"
      /\ ~throws => job'[f] = "completed"
  BY DEF Settle, AfterThrow, TypeOK
<1> QED BY <1>1 DEF Recorded

\* A step of the analyze queue.
LEMMA WorkerRecords ==
    ASSUME OutcomeInv, TypeOK', NEW f \in Files,
           WorkerStep(f) \/ StepThrows(f) \/ Stall(f) \/ Forget(f)
    PROVE  OutcomeInv'
<1> USE DEF OutcomeInv
<1>1. /\ UNCHANGED <<row, handle, callVars>>
      /\ \A g \in Files \ {f} : /\ meta'[g] = meta[g] /\ at'[g] = at[g] /\ stalls'[g] = stalls[g]
                               /\ job'[g] = job[g] /\ (g \in threw' <=> g \in threw)
                               /\ (g \in lost' <=> g \in lost) /\ (g \in broke' <=> g \in broke)
  <2> USE DEF fileVars, jobVars, Settle, TypeOK
  <2>1. CASE Pickup(f) \/ Fetch(f)
    BY <2>1 DEF Pickup, Fetch
  <2>2. ASSUME NEW outcome \in {"report", "error"}, Analyze(f, outcome)
        PROVE  /\ UNCHANGED <<row, handle, callVars>>
               /\ \A g \in Files \ {f} : /\ meta'[g] = meta[g] /\ at'[g] = at[g] /\ stalls'[g] = stalls[g]
                                        /\ job'[g] = job[g] /\ (g \in threw' <=> g \in threw)
                                        /\ (g \in lost' <=> g \in lost) /\ (g \in broke' <=> g \in broke)
    BY <2>2 DEF Analyze
  <2>3. CASE Decrement(f)
    BY <2>3 DEF Decrement
  <2>4. CASE ClearCounter(f) \/ EnqueueRollup(f)
    BY <2>4 DEF ClearCounter, EnqueueRollup
  <2>5. CASE Stall(f) \/ Forget(f) \/ StepThrows(f)
    BY <2>5 DEF Stall, Forget, StepThrows
  <2> QED BY <2>1, <2>2, <2>3, <2>4, <2>5 DEF WorkerStep
<1>2. \A g \in Files \ {f} : Recorded(g)'
  BY <1>1, RecordKept
<1>3. row[f] # "new"
  BY DEF WorkerStep, Pickup, Fetch, Analyze, Decrement, ClearCounter, EnqueueRollup, StepThrows,
         Stall, Forget, Uploaded, TypeOK
<1>4. Recorded(f)'
  <2>1. CASE Pickup(f)
    BY <2>1 DEF Pickup, Recorded, TypeOK, fileVars
  <2>2. CASE Fetch(f)
    <3>1. CASE f \in rows
      BY <2>2, <3>1 DEF Fetch, Recorded, TypeOK, fileVars
    <3>2. CASE f \notin rows
      BY <2>2, <3>2, SettleRecords DEF Fetch, rows, fileVars
    <3> QED BY <3>1, <3>2
  <2>3. ASSUME NEW outcome \in {"report", "error"}, Analyze(f, outcome) PROVE Recorded(f)'
    <3>1. CASE f \in rows
      BY <2>3, <3>1 DEF Analyze, Recorded, TypeOK
    <3>2. CASE f \notin rows
      BY <2>3, <3>2, SettleRecords DEF Analyze, rows
    <3> QED BY <3>1, <3>2
  <2>4. ASSUME Settle(f, f \in threw), meta' = meta, row' = row, lost' = lost, at[f] \in {"decr", "rollup"}
        PROVE  Recorded(f)'
    <3>1. row[f] = "present" => f \in lost \/ meta[f] = IF f \in threw THEN "error" ELSE "report"
      BY <2>4 DEF Recorded
    <3>2. CASE f \in threw
      <4>1. Settle(f, TRUE)
        BY <2>4, <3>2 DEF Settle
      <4> QED BY <2>4, <3>1, <3>2, <4>1, SettleRecords
    <3>3. CASE f \notin threw
      <4>1. Settle(f, FALSE)
        BY <2>4, <3>3 DEF Settle
      <4> QED BY <2>4, <3>1, <3>3, <4>1, SettleRecords
    <3> QED BY <3>2, <3>3
  <2>5. CASE Decrement(f)
    <3>1. CASE counter - 1 <= 0
      BY <2>5, <3>1 DEF Decrement, Recorded, TypeOK, fileVars
    <3>2. CASE ~(counter - 1 <= 0)
      <4>1. Settle(f, f \in threw) /\ at[f] = "decr" /\ meta' = meta /\ row' = row /\ lost' = lost
        BY <2>5, <3>2, Zenon DEF Decrement, fileVars
      <4> QED BY <2>4, <4>1
    <3> QED BY <3>1, <3>2
  <2>6. CASE ClearCounter(f)
    BY <2>6 DEF ClearCounter, Recorded, TypeOK, fileVars
  <2>7. CASE EnqueueRollup(f)
    <3>1. Settle(f, f \in threw) /\ at[f] = "rollup" /\ meta' = meta /\ row' = row /\ lost' = lost
      BY <2>7, Zenon DEF EnqueueRollup, fileVars
    <3> QED BY <2>4, <3>1
  <2>8. CASE Stall(f)
    <3>1. /\ at'[f] = "idle" /\ f \notin threw' /\ stalls'[f] = stalls[f] + 1 /\ stalls[f] \in Nat
          /\ job'[f] = IF stalls[f] < MaxStalls THEN "waiting" ELSE "failed"
      BY <2>8 DEF Stall, TypeOK
    <3>2. job'[f] = "failed" => ~(stalls'[f] <= MaxStalls)
      BY <3>1, PipelineAssumption
    <3> QED BY <3>1, <3>2 DEF Recorded
  <2>9. CASE Forget(f)
    BY <2>9 DEF Forget, Recorded, TypeOK, fileVars
  <2>10. CASE StepThrows(f)
    <3>1. Settle(f, TRUE) /\ meta' = meta /\ row' = row /\ lost' = lost /\ f \in broke'
      BY <2>10 DEF StepThrows, fileVars
    <3> QED BY <3>1, SettleRecords
  <2> QED BY <2>1, <2>2, <2>3, <2>5, <2>6, <2>7, <2>8, <2>9, <2>10 DEF WorkerStep
<1>5. Uploaded'
  BY <1>1, <1>3 DEF Uploaded, callVars
<1> QED BY <1>2, <1>4, <1>5

\* A step of a conversion: it writes what it found, or loses the outcome.
LEMMA ConvertRecords ==
    ASSUME OutcomeInv, TypeOK', NEW f \in Files, RewriteStep(f)
    PROVE  OutcomeInv'
<1> USE DEF OutcomeInv
<1>1. UNCHANGED <<row, handle, callVars, jobVars>>
  BY DEF RewriteStep, EnqueueConvert, ConvertReads, ConvertWrites, ConvertEnds
<1>2. \A g \in Files : (g \in lost' \/ meta'[g] = meta[g]) /\ (g \in lost => g \in lost')
  BY DEF RewriteStep, EnqueueConvert, ConvertReads, ConvertWrites, ConvertEnds, TypeOK
<1>3. \A g \in Files : Recorded(g)'
  BY <1>1, <1>2, RecordKept DEF jobVars
<1>4. Uploaded'
  BY <1>1 DEF Uploaded, jobVars, callVars
<1> QED BY <1>3, <1>4

\* A settled job of a file that is still there has its outcome in Postgres: the
\* report if it completed, the analyzerError if it ran out of attempts, however
\* it was retried, enqueued again or stalled, and whatever crashed; unless a
\* conversion put back an older meta, a call of the worker's own ended the last
\* attempt, or BullMQ gave up on a stalled job.
THEOREM OutcomesRecorded == Spec => []OutcomeRecorded
<1>1. Init => OutcomeInv
  <2>1. Init => TypeOK
    BY DEF Init, TypeOK, JobStates, WorkerSteps, RollupSteps, CallSteps
  <2> QED BY <2>1, PipelineAssumption DEF Init, OutcomeInv, Uploaded, Recorded
<1>2. OutcomeInv /\ [Next]_vars => OutcomeInv'
  <2> SUFFICES ASSUME OutcomeInv, [Next]_vars PROVE OutcomeInv'
    OBVIOUS
  <2>1. TypeOK'
    BY PipelineAssumption, TypesPreserved DEF OutcomeInv
  <2>2. ASSUME UNCHANGED <<fileVars, jobVars, callVars>> PROVE OutcomeInv'
    BY <2>1, <2>2 DEF OutcomeInv, Uploaded, Recorded, fileVars, jobVars, callVars
  <2>3. ASSUME NEW f \in Files, Initiate(f) PROVE OutcomeInv'
    <3>1. /\ row[f] = "new" /\ row' = [row EXCEPT ![f] = "present"]
          /\ handle' = handle \cup {f} /\ UNCHANGED <<meta, lost, jobVars, callVars>>
      BY <2>3 DEF Initiate
    <3>2. job[f] = "absent" /\ at[f] = "idle"
      BY <3>1 DEF OutcomeInv, Uploaded, TypeOK
    <3>3. Recorded(f)'
      BY <3>1, <3>2 DEF OutcomeInv, Recorded, jobVars
    <3>4. \A g \in Files \ {f} : Recorded(g)'
      BY <3>1, RecordKept DEF OutcomeInv, TypeOK, jobVars
    <3>5. Uploaded'
      BY <3>1 DEF OutcomeInv, Uploaded, TypeOK, jobVars, callVars
    <3> QED BY <2>1, <3>3, <3>4, <3>5 DEF OutcomeInv
  <2>4. CASE RollupStep \/ RollupFails(FALSE) \/ ForgetRollup
    BY <2>2, <2>4 DEF RollupStep, PickupRollup, ReadFiles, MarkReady, RollupFails, FanOutRollup, ForgetRollup
  <2>5. CASE UNCHANGED vars
    BY <2>2, <2>5 DEF vars
  <2> QED BY <2>1, <2>3, <2>4, <2>5, CallRecords, WorkerRecords, ConvertRecords DEF Next
<1>3. OutcomeInv => OutcomeRecorded
  BY DEF OutcomeInv, OutcomeRecorded, Recorded, rows
<1> QED BY <1>1, <1>2, <1>3, PTL DEF Spec

-----------------------------------------------------------------------------
(* Previews: the conversions and renders of a version's models.            *)

\* A file's metadata: the analysis they are of, and whether a converted GLB is among them.
Metadata == [of : Nat, glb : BOOLEAN]

\* The types of what the scene of the models changes.
ModelTypes ==
    /\ fileMeta \in [Models -> Metadata] /\ snap \in [Models -> Metadata]
    /\ analyses \in [Models -> Nat] /\ rolling \in BOOLEAN
    /\ convert \in [Models -> {"none", "waiting", "marking", "converting", "enqueueing", "recording",
                               "completed", "failed"}]
    /\ render \in [Models -> {"none", "waiting", "rendering", "second", "completed", "failed"}]
    /\ auto \in [{"1x", "2x"} -> Models \cup {Nothing}]
    /\ ahead \subseteq Models /\ overwrote \subseteq Models /\ unrendered \subseteq Models
    /\ outdated \in BOOLEAN

\* A conversion of the model is under way.
UnderConversion(g) == convert[g] \notin {"none", "completed", "failed"}

\* Why the automatic thumbnail need not show the model, whatever else there is.
Excused(g) == outdated \/ g \in unrendered \/ UnderConversion(g)

\* Another model that was converted is as large.
Matched(g) == \E h \in Models \ {g} : fileMeta[h].glb /\ Weight[h] >= Weight[g]

\* The automatic thumbnail shows a model that is as large.
AsLarge(x, g) == auto[x] = Nothing \/ Weight[auto[x]] >= Weight[g]

\* What is so of each model: only one that is not too large has a GLB; the
\* recording of a failure has read of its GLB; who renders began as the largest; a
\* GLB had its render asked for; and the images of which it was rendered show none
\* that is smaller, unless it was passed over for another that is still there.
Sound(g) ==
    /\ convert[g] = "marking" => g \in Huge
    /\ convert[g] \in {"converting", "enqueueing", "recording"} => g \notin Huge
    /\ g \in Huge => ~fileMeta[g].glb /\ ~snap[g].glb
    /\ convert[g] = "recording" /\ fileMeta[g].glb => snap[g].glb
    /\ render[g] \in {"rendering", "second"} => g \in ahead
    /\ fileMeta[g].glb /\ render[g] = "none" => g \in unrendered \/ UnderConversion(g)
    /\ fileMeta[g].glb /\ render[g] = "second" => Excused(g) \/ AsLarge("1x", g)
    /\ fileMeta[g].glb /\ render[g] = "completed" =>
           Excused(g) \/ Matched(g) \/ (AsLarge("1x", g) /\ AsLarge("2x", g))

\* A step about another model keeps what is so of this one.
LEMMA SoundStays ==
    ASSUME NEW g \in Models, Sound(g),
           convert'[g] = convert[g], snap'[g] = snap[g], fileMeta'[g] = fileMeta[g], render'[g] = render[g],
           g \in ahead => g \in ahead', g \in unrendered => g \in unrendered', outdated => outdated',
           auto' = auto \/ outdated' \/ ~fileMeta[g].glb,
           render[g] = "completed" /\ Matched(g) => Matched(g)' \/ g \in unrendered'
    PROVE  Sound(g)'
<1>1. UnderConversion(g) <=> UnderConversion(g)'
  BY DEF UnderConversion
<1>2. Excused(g) => Excused(g)'
  BY <1>1 DEF Excused
<1>3. outdated' => Excused(g)'
  BY DEF Excused
<1>4. auto' = auto => (AsLarge("1x", g) <=> AsLarge("1x", g)') /\ (AsLarge("2x", g) <=> AsLarge("2x", g)')
  BY DEF AsLarge
<1>5. g \in unrendered' => Excused(g)'
  BY DEF Excused
<1> QED BY <1>1, <1>2, <1>3, <1>4, <1>5 DEF Sound

\* GLBs that come keep a model matched.
LEMMA MatchedStays ==
    ASSUME NEW g \in Models, Matched(g), \A h \in Models : fileMeta[h].glb => fileMeta'[h].glb
    PROVE  Matched(g)'
BY DEF Matched

\* Every step of the analyses and conversions keeps it.
LEMMA ConvertStep ==
    ASSUME PreviewsAssumption, ModelTypes, \A g \in Models : Sound(g), NEW f \in Models,
           \/ AnalyzeModel(f) \/ BeginConvert(f) \/ WriteGlb(f) \/ AskRender(f)
           \/ FailConvert(f) \/ MarkSkipped(f) \/ ForgetConvert(f)
    PROVE  ModelTypes' /\ \A g \in Models : Sound(g)'
<1>1. CASE AnalyzeModel(f)
  <2>1. /\ analyses' = [analyses EXCEPT ![f] = @ + 1]
        /\ fileMeta' = [fileMeta EXCEPT ![f] = [NoMeta EXCEPT !.of = analyses'[f]]]
        /\ overwrote' = overwrote \ {f} /\ rolling' = TRUE
        /\ unrendered' = IF fileMeta[f].glb
                         THEN unrendered \cup {g \in Models : render[g] = "completed" /\ Weight[g] <= Weight[f]}
                         ELSE unrendered
        /\ UNCHANGED <<snap, convert, render, auto, outdated, ahead>>
    BY <1>1 DEF AnalyzeModel
  <2>2. analyses' \in [Models -> Nat]
    BY <2>1 DEF ModelTypes
  <2>3. [NoMeta EXCEPT !.of = analyses'[f]] \in Metadata /\ [NoMeta EXCEPT !.of = analyses'[f]].glb = FALSE
    BY <2>2 DEF NoMeta, Metadata
  <2>4. /\ fileMeta' \in [Models -> Metadata] /\ fileMeta'[f].glb = FALSE
        /\ \A g \in Models \ {f} : fileMeta'[g] = fileMeta[g]
    BY <2>1, <2>3 DEF ModelTypes
  <2>5. ModelTypes'
    BY <2>1, <2>2, <2>4 DEF ModelTypes
  <2>6. ASSUME NEW g \in Models \ {f}
        PROVE  Sound(g)'
    <3>1. render[g] = "completed" /\ Matched(g) => Matched(g)' \/ g \in unrendered'
      <4> SUFFICES ASSUME render[g] = "completed", Matched(g), g \notin unrendered'
                   PROVE  Matched(g)'
        OBVIOUS
      <4>1. PICK h \in Models \ {g} : fileMeta[h].glb /\ Weight[h] >= Weight[g]
        BY DEF Matched
      <4>2. h # f
        BY <2>1, <4>1 DEF PreviewsAssumption
      <4> QED BY <2>4, <4>1, <4>2 DEF Matched
    <3>2. g \in unrendered => g \in unrendered'
      BY <2>1
    <3> QED BY <2>1, <2>4, <3>1, <3>2, SoundStays
  <2>7. Sound(f)'
    <3>1. Sound(f)
      OBVIOUS
    <3> QED BY <2>1, <2>4, <3>1 DEF Sound
  <2> QED BY <2>5, <2>6, <2>7
<1>2. CASE BeginConvert(f)
  <2>1. /\ convert[f] = "waiting" /\ convert' = [convert EXCEPT ![f] = IF f \in Huge THEN "marking" ELSE "converting"]
        /\ snap' = [snap EXCEPT ![f] = fileMeta[f]]
        /\ UNCHANGED <<fileMeta, analyses, rolling, render, auto, overwrote, outdated, unrendered, ahead>>
    BY <1>2 DEF BeginConvert
  <2>2. /\ convert'[f] = (IF f \in Huge THEN "marking" ELSE "converting") /\ snap'[f] = fileMeta[f]
        /\ \A g \in Models \ {f} : convert'[g] = convert[g] /\ snap'[g] = snap[g]
    BY <2>1 DEF ModelTypes
  <2>3. ModelTypes'
    BY <2>1 DEF ModelTypes
  <2>4. ASSUME NEW g \in Models \ {f}
        PROVE  Sound(g)'
    BY <2>1, <2>2, SoundStays, MatchedStays
  <2>5. UnderConversion(f)'
    BY <2>2 DEF UnderConversion
  <2>6. Sound(f)'
    <3>1. Sound(f)
      OBVIOUS
    <3> QED BY <2>1, <2>2, <2>5, <3>1 DEF Sound, Excused
  <2> QED BY <2>3, <2>4, <2>6
<1>3. CASE WriteGlb(f)
  <2>1. /\ convert[f] = "converting" /\ convert' = [convert EXCEPT ![f] = "enqueueing"]
        /\ fileMeta' = [fileMeta EXCEPT ![f] = [snap[f] EXCEPT !.glb = TRUE]]
        /\ snap' = [snap EXCEPT ![f] = NoMeta] /\ overwrote' \subseteq overwrote \cup {f}
        /\ UNCHANGED <<analyses, rolling, render, auto, outdated, unrendered, ahead>>
    BY <1>3 DEF WriteGlb
  <2>2. /\ [snap[f] EXCEPT !.glb = TRUE] \in Metadata /\ NoMeta \in Metadata /\ NoMeta.glb = FALSE
        /\ [snap[f] EXCEPT !.glb = TRUE].glb = TRUE
    <3>1. snap[f] \in Metadata
      BY DEF ModelTypes
    <3>2. [snap[f] EXCEPT !.glb = TRUE] \in Metadata /\ [snap[f] EXCEPT !.glb = TRUE].glb = TRUE
      BY <3>1 DEF Metadata
    <3> QED BY <3>2 DEF Metadata, NoMeta
  <2>3. /\ convert'[f] = "enqueueing" /\ snap'[f] = NoMeta /\ fileMeta'[f].glb = TRUE
        /\ \A g \in Models \ {f} : convert'[g] = convert[g] /\ snap'[g] = snap[g] /\ fileMeta'[g] = fileMeta[g]
    BY <2>1, <2>2 DEF ModelTypes
  <2>4. ModelTypes'
    BY <2>1, <2>2 DEF ModelTypes
  <2>5. \A g \in Models : Matched(g) => Matched(g)'
    BY <2>3, MatchedStays
  <2>6. ASSUME NEW g \in Models \ {f}
        PROVE  Sound(g)'
    BY <2>1, <2>3, <2>5, SoundStays
  <2>7. UnderConversion(f)'
    BY <2>3 DEF UnderConversion
  <2>8. Sound(f)'
    <3>1. Sound(f)
      OBVIOUS
    <3> QED BY <2>1, <2>2, <2>3, <2>7, <3>1 DEF Sound, Excused
  <2> QED BY <2>4, <2>6, <2>8
<1>4. CASE AskRender(f)
  <2>1. /\ convert[f] = "enqueueing" /\ render' = [render EXCEPT ![f] = Asked(@)]
        /\ convert' = [convert EXCEPT ![f] = "completed"]
        /\ unrendered' = IF render[f] = "none" THEN unrendered ELSE unrendered \cup {f}
        /\ UNCHANGED <<fileMeta, analyses, rolling, snap, auto, overwrote, outdated, ahead>>
    BY <1>4 DEF AskRender
  <2>2. /\ convert'[f] = "completed" /\ render'[f] = (IF render[f] = "none" THEN "waiting" ELSE render[f])
        /\ \A g \in Models \ {f} : convert'[g] = convert[g] /\ render'[g] = render[g]
        /\ unrendered \subseteq unrendered' /\ (render[f] # "none" => f \in unrendered')
    BY <2>1 DEF ModelTypes, Asked
  <2>3. ModelTypes'
    BY <2>1 DEF ModelTypes, Asked
  <2>4. ASSUME NEW g \in Models \ {f}
        PROVE  Sound(g)'
    BY <2>1, <2>2, SoundStays, MatchedStays
  <2>5. Sound(f)'
    <3>1. Sound(f)
      OBVIOUS
    <3> QED BY <2>1, <2>2, <3>1 DEF Sound, Excused
  <2> QED BY <2>3, <2>4, <2>5
<1>5. CASE FailConvert(f)
  <2>1. /\ convert[f] \in {"converting", "enqueueing"} /\ convert' = [convert EXCEPT ![f] = "recording"]
        /\ snap' = [snap EXCEPT ![f] = fileMeta[f]]
        /\ UNCHANGED <<fileMeta, analyses, rolling, render, auto, overwrote, outdated, unrendered, ahead>>
    BY <1>5 DEF FailConvert
  <2>2. /\ convert'[f] = "recording" /\ snap'[f] = fileMeta[f]
        /\ \A g \in Models \ {f} : convert'[g] = convert[g] /\ snap'[g] = snap[g]
    BY <2>1 DEF ModelTypes
  <2>3. ModelTypes'
    BY <2>1 DEF ModelTypes
  <2>4. ASSUME NEW g \in Models \ {f}
        PROVE  Sound(g)'
    BY <2>1, <2>2, SoundStays, MatchedStays
  <2>5. UnderConversion(f)'
    BY <2>2 DEF UnderConversion
  <2>6. Sound(f)'
    <3>1. Sound(f)
      OBVIOUS
    <3> QED BY <2>1, <2>2, <2>5, <3>1 DEF Sound, Excused
  <2> QED BY <2>3, <2>4, <2>6
<1>6. CASE MarkSkipped(f)
  <2>1. PICK next \in {"completed", "waiting", "failed"} :
            /\ convert[f] = "marking" <=> next = "completed"
            /\ convert' = [convert EXCEPT ![f] = next]
    BY <1>6 DEF MarkSkipped, Again
  <2>2. /\ convert[f] \in {"marking", "recording"}
        /\ fileMeta' = [fileMeta EXCEPT ![f] = snap[f]] /\ snap' = [snap EXCEPT ![f] = NoMeta]
        /\ overwrote' \subseteq overwrote \cup {f}
        /\ unrendered' = IF convert'[f] = "failed" THEN unrendered \cup {f} ELSE unrendered
        /\ UNCHANGED <<analyses, rolling, render, auto, outdated, ahead>>
    BY <1>6 DEF MarkSkipped
  <2>3. NoMeta \in Metadata /\ NoMeta.glb = FALSE
    BY DEF Metadata, NoMeta
  <2>4. /\ convert'[f] = next /\ snap'[f] = NoMeta /\ fileMeta'[f] = snap[f]
        /\ \A g \in Models \ {f} : convert'[g] = convert[g] /\ snap'[g] = snap[g] /\ fileMeta'[g] = fileMeta[g]
        /\ unrendered \subseteq unrendered' /\ (next = "failed" => f \in unrendered')
    BY <2>1, <2>2 DEF ModelTypes
  <2>5. ModelTypes'
    BY <2>1, <2>2, <2>3 DEF ModelTypes
  <2>6. Sound(f)
    OBVIOUS
  <2>7. fileMeta[f].glb => fileMeta'[f].glb
    BY <2>2, <2>4, <2>6 DEF Sound
  <2>8. \A g \in Models : Matched(g) => Matched(g)'
    BY <2>4, <2>7, MatchedStays
  <2>9. ASSUME NEW g \in Models \ {f}
        PROVE  Sound(g)'
    BY <2>2, <2>4, <2>8, SoundStays
  <2>10. next = "waiting" => UnderConversion(f)'
    BY <2>4 DEF UnderConversion
  <2>11. next = "completed" => ~fileMeta'[f].glb
    BY <2>1, <2>4, <2>6 DEF Sound
  <2>12. Sound(f)'
    BY <2>1, <2>2, <2>3, <2>4, <2>6, <2>10, <2>11 DEF Sound, Excused
  <2> QED BY <2>5, <2>9, <2>12
<1>7. CASE ForgetConvert(f)
  <2>1. /\ convert[f] \in {"completed", "failed"} /\ convert' = [convert EXCEPT ![f] = "none"]
        /\ UNCHANGED <<fileMeta, analyses, rolling, snap, render, auto, overwrote, outdated, unrendered, ahead>>
    BY <1>7 DEF ForgetConvert
  <2>2. convert'[f] = "none" /\ \A g \in Models \ {f} : convert'[g] = convert[g]
    BY <2>1 DEF ModelTypes
  <2>3. ModelTypes'
    BY <2>1 DEF ModelTypes
  <2>4. ASSUME NEW g \in Models \ {f}
        PROVE  Sound(g)'
    BY <2>1, <2>2, SoundStays, MatchedStays
  <2>5. ~UnderConversion(f) /\ ~UnderConversion(f)'
    BY <2>1, <2>2 DEF UnderConversion
  <2>6. (Matched(f) <=> Matched(f)') /\ (\A x \in {"1x", "2x"} : AsLarge(x, f) <=> AsLarge(x, f)')
    BY <2>1 DEF Matched, AsLarge
  <2>7. Sound(f)'
    <3>1. Sound(f)
      OBVIOUS
    <3> QED BY <2>1, <2>2, <2>5, <2>6, <3>1 DEF Sound, Excused
  <2> QED BY <2>3, <2>4, <2>7
<1> QED BY <1>1, <1>2, <1>3, <1>4, <1>5, <1>6, <1>7

\* So does the rollup's.
LEMMA AskStep ==
    ASSUME ModelTypes, \A g \in Models : Sound(g), AskConversions
    PROVE  ModelTypes' /\ \A g \in Models : Sound(g)'
<1>1. /\ rolling' = FALSE
      /\ convert' = [f \in Models |-> IF analyses[f] > 0 THEN Asked(convert[f]) ELSE convert[f]]
      /\ UNCHANGED <<fileMeta, analyses, snap, render, auto, overwrote, outdated, unrendered, ahead>>
  BY DEF AskConversions
<1>2. \A g \in Models : convert'[g] = convert[g] \/ (convert[g] = "none" /\ convert'[g] = "waiting")
  BY <1>1 DEF Asked
<1>3. ModelTypes'
  <2>1. convert' \in [Models -> {"none", "waiting", "marking", "converting", "enqueueing", "recording",
                                 "completed", "failed"}]
    BY <1>1, <1>2 DEF ModelTypes
  <2> QED BY <1>1, <2>1 DEF ModelTypes
<1>4. ASSUME NEW g \in Models
      PROVE  Sound(g)'
  <2>1. CASE convert'[g] = convert[g]
    BY <1>1, <2>1, SoundStays, MatchedStays
  <2>2. CASE convert[g] = "none" /\ convert'[g] = "waiting"
    <3>1. UnderConversion(g)'
      BY <2>2 DEF UnderConversion
    <3>2. Sound(g)
      OBVIOUS
    <3> QED BY <1>1, <2>2, <3>1, <3>2 DEF Sound, Excused
  <2> QED BY <1>2, <2>1, <2>2
<1> QED BY <1>3, <1>4

\* So does every step of a render: one that a larger GLB overtook is recorded.
LEMMA RenderStep ==
    ASSUME PreviewsAssumption, ModelTypes, \A g \in Models : Sound(g), NEW f \in Models,
           \/ BeginRender(f) \/ FailRender(f)
           \/ PutAuto(f, "1x", "rendering", "second") \/ PutAuto(f, "2x", "second", "completed")
    PROVE  ModelTypes' /\ \A g \in Models : Sound(g)'
<1>1. CASE BeginRender(f)
  <2>1. /\ render[f] = "waiting"
        /\ ahead' = IF Outweighed(f) THEN ahead \ {f} ELSE ahead \cup {f}
        /\ UNCHANGED <<fileMeta, analyses, rolling, snap, convert, auto, overwrote, outdated, unrendered>>
    BY <1>1 DEF BeginRender
  <2>2. PICK next \in {"rendering", "completed"} :
            /\ render' = [render EXCEPT ![f] = next]
            /\ next = "rendering" => f \in PickLargestGlb \/ ~\E g \in Models : fileMeta[g].glb
            /\ next = "completed" => PickLargestGlb \ {f} # {}
    BY <1>1 DEF BeginRender
  <2>3. render'[f] = next /\ \A g \in Models \ {f} : render'[g] = render[g]
    BY <2>2 DEF ModelTypes
  <2>4. ModelTypes'
    BY <2>1, <2>2 DEF ModelTypes
  <2>5. ASSUME NEW g \in Models \ {f}
        PROVE  Sound(g)'
    <3>1. g \in ahead => g \in ahead'
      BY <2>1
    <3> QED BY <2>1, <2>3, <3>1, SoundStays, MatchedStays
  <2>6. Sound(f)'
    <3>1. Sound(f)
      OBVIOUS
    <3>2. CASE next = "rendering" /\ f \in PickLargestGlb
      <4>1. ~Outweighed(f)
        BY <3>2 DEF PickLargestGlb, Outweighed, PreviewsAssumption
      <4> QED BY <2>1, <2>3, <3>1, <3>2, <4>1 DEF Sound
    <3>3. CASE next = "rendering" /\ f \notin PickLargestGlb
      <4>1. ~Outweighed(f)
        BY <2>2, <3>3 DEF Outweighed
      <4> QED BY <2>1, <2>3, <3>1, <3>3, <4>1 DEF Sound
    <3>4. CASE next = "completed"
      <4>1. PICK h \in Models \ {f} : fileMeta[h].glb /\ \A g \in Models : fileMeta[g].glb => Weight[g] <= Weight[h]
        BY <2>2, <3>4 DEF PickLargestGlb
      <4>2. fileMeta[f].glb => Matched(f)
        BY <4>1 DEF Matched, PreviewsAssumption
      <4>3. Matched(f) => Matched(f)'
        BY <2>1 DEF Matched
      <4> QED BY <2>1, <2>3, <3>1, <3>4, <4>2, <4>3 DEF Sound
    <3> QED BY <3>2, <3>3, <3>4
  <2> QED BY <2>4, <2>5, <2>6
<1>2. CASE FailRender(f)
  <2>1. /\ render[f] \in {"rendering", "second"}
        /\ UNCHANGED <<fileMeta, analyses, rolling, snap, convert, auto, overwrote, outdated, unrendered, ahead>>
    BY <1>2 DEF FailRender
  <2>2. PICK next \in {"waiting", "failed"} : render' = [render EXCEPT ![f] = next]
    BY <1>2 DEF FailRender, Again
  <2>3. render'[f] = next /\ \A g \in Models \ {f} : render'[g] = render[g]
    BY <2>2 DEF ModelTypes
  <2>4. ModelTypes'
    BY <2>1, <2>2 DEF ModelTypes
  <2>5. ASSUME NEW g \in Models \ {f}
        PROVE  Sound(g)'
    BY <2>1, <2>3, SoundStays, MatchedStays
  <2>6. Sound(f)'
    <3>1. Sound(f)
      OBVIOUS
    <3> QED BY <2>1, <2>3, <3>1 DEF Sound
  <2> QED BY <2>4, <2>5, <2>6
<1>3. ASSUME NEW x \in {"1x", "2x"}, NEW from \in {"rendering", "second"}, NEW to \in {"second", "completed"},
             PutAuto(f, x, from, to), x = "1x" => to = "second",
             x = "2x" => from = "second" /\ to = "completed"
      PROVE  ModelTypes' /\ \A g \in Models : Sound(g)'
  <2>1. /\ render[f] = from /\ auto' = [auto EXCEPT ![x] = f]
        /\ outdated' = (outdated \/ (f \in ahead /\ Outweighed(f)))
        /\ render' = [render EXCEPT ![f] = to]
        /\ UNCHANGED <<fileMeta, analyses, rolling, snap, convert, overwrote, unrendered, ahead>>
    BY <1>3 DEF PutAuto
  <2>2. /\ render'[f] = to /\ \A g \in Models \ {f} : render'[g] = render[g]
        /\ auto'[x] = f /\ \A y \in {"1x", "2x"} \ {x} : auto'[y] = auto[y]
    BY <2>1 DEF ModelTypes
  <2>3. ModelTypes'
    <3>1. outdated' \in BOOLEAN
      BY <2>1
    <3> QED BY <2>1, <3>1 DEF ModelTypes
  <2>4. f \in ahead
    <3>1. Sound(f)
      OBVIOUS
    <3> QED BY <2>1, <3>1 DEF Sound
  <2>5. ASSUME NEW g \in Models \ {f}
        PROVE  Sound(g)'
    <3>1. Sound(g)
      OBVIOUS
    <3>2. CASE fileMeta[g].glb /\ Weight[g] > Weight[f]
      <4>1. outdated'
        BY <2>1, <2>4, <3>2 DEF Outweighed
      <4> QED BY <2>1, <2>2, <3>1, <4>1, SoundStays, MatchedStays
    <3>3. CASE fileMeta[g].glb /\ ~(Weight[g] > Weight[f])
      <4>1. Weight[f] >= Weight[g]
        BY <3>3 DEF PreviewsAssumption
      <4>2. \A y \in {"1x", "2x"} : AsLarge(y, g) => AsLarge(y, g)'
        BY <2>2, <4>1 DEF AsLarge
      <4>3. (Matched(g) <=> Matched(g)') /\ (Excused(g) => Excused(g)') /\ (UnderConversion(g) <=> UnderConversion(g)')
        BY <2>1 DEF Matched, Excused, UnderConversion
      <4> QED BY <2>1, <2>2, <3>1, <4>2, <4>3 DEF Sound
    <3>4. CASE ~fileMeta[g].glb
      BY <2>1, <2>2, <3>1, <3>4, SoundStays, MatchedStays
    <3> QED BY <3>2, <3>3, <3>4
  <2>6. Sound(f)'
    <3>1. Sound(f)
      OBVIOUS
    <3>2. AsLarge(x, f)'
      BY <2>2 DEF AsLarge, PreviewsAssumption
    <3>3. (Excused(f) => Excused(f)') /\ (UnderConversion(f) <=> UnderConversion(f)')
      BY <2>1 DEF Excused, UnderConversion
    <3>4. CASE x = "1x"
      BY <1>3, <2>1, <2>2, <2>4, <3>1, <3>2, <3>3, <3>4 DEF Sound
    <3>5. CASE x = "2x"
      <4>1. AsLarge("1x", f) <=> AsLarge("1x", f)'
        BY <2>2, <3>5 DEF AsLarge
      <4> QED BY <1>3, <2>1, <2>2, <2>4, <3>1, <3>2, <3>3, <3>5, <4>1 DEF Sound
    <3> QED BY <3>4, <3>5
  <2> QED BY <2>3, <2>5, <2>6
<1>4. CASE PutAuto(f, "1x", "rendering", "second")
  BY <1>3, <1>4
<1>5. CASE PutAuto(f, "2x", "second", "completed")
  BY <1>3, <1>5
<1> QED BY <1>1, <1>2, <1>4, <1>5

\* The metadata are of the last analysis, but for those that an overtaken
\* conversion put back.
LEMMA MetaStep ==
    ASSUME ModelTypes, MetaExplained, ModelTypes', NEW f \in Models,
           \/ AnalyzeModel(f) \/ BeginConvert(f) \/ WriteGlb(f) \/ AskRender(f)
           \/ FailConvert(f) \/ MarkSkipped(f) \/ ForgetConvert(f)
    PROVE  MetaExplained'
<1>1. CASE AnalyzeModel(f)
  <2>1. /\ analyses' = [analyses EXCEPT ![f] = @ + 1] /\ overwrote' = overwrote \ {f}
        /\ fileMeta' = [fileMeta EXCEPT ![f] = [NoMeta EXCEPT !.of = analyses'[f]]]
    BY <1>1 DEF AnalyzeModel
  <2>2. /\ fileMeta'[f].of = analyses'[f]
        /\ \A g \in Models \ {f} : fileMeta'[g] = fileMeta[g] /\ analyses'[g] = analyses[g]
    BY <2>1 DEF ModelTypes, NoMeta
  <2> QED BY <2>1, <2>2 DEF MetaExplained
<1>2. CASE WriteGlb(f)
  <2>1. /\ fileMeta' = [fileMeta EXCEPT ![f] = [snap[f] EXCEPT !.glb = TRUE]] /\ analyses' = analyses
        /\ overwrote' = IF snap[f].of # analyses[f] THEN overwrote \cup {f} ELSE overwrote
    BY <1>2 DEF WriteGlb
  <2>2. snap[f] \in Metadata
    BY DEF ModelTypes
  <2>3. fileMeta'[f].of = snap[f].of /\ \A g \in Models \ {f} : fileMeta'[g] = fileMeta[g]
    BY <2>1, <2>2 DEF ModelTypes, Metadata
  <2> QED BY <2>1, <2>3 DEF MetaExplained
<1>3. CASE MarkSkipped(f)
  <2>1. /\ fileMeta' = [fileMeta EXCEPT ![f] = snap[f]] /\ analyses' = analyses
        /\ overwrote' = IF snap[f].of # analyses[f] THEN overwrote \cup {f} ELSE overwrote
    BY <1>3 DEF MarkSkipped
  <2>2. fileMeta'[f] = snap[f] /\ \A g \in Models \ {f} : fileMeta'[g] = fileMeta[g]
    BY <2>1 DEF ModelTypes
  <2> QED BY <2>1, <2>2 DEF MetaExplained
<1>4. CASE BeginConvert(f) \/ AskRender(f) \/ FailConvert(f) \/ ForgetConvert(f)
  BY <1>4 DEF BeginConvert, AskRender, FailConvert, ForgetConvert, MetaExplained
<1> QED BY <1>1, <1>2, <1>3, <1>4

\* What is so of each model explains what the images show.
LEMMA SoundShows ==
    ASSUME PreviewsAssumption, ModelTypes, \A g \in Models : Sound(g)
    PROVE  LargestShows
<1> SUFFICES ASSUME NEW x \in {"1x", "2x"}, NEW g \in Models,
                    auto[x] # Nothing, fileMeta[g].glb, Weight[g] > Weight[auto[x]],
                    ~outdated, g \notin unrendered,
                    render[g] \notin {"waiting", "rendering", "second", "failed"},
                    convert[g] \in {"none", "completed", "failed"}
             PROVE  \E h \in Models \ {g} : fileMeta[h].glb /\ Weight[h] >= Weight[g]
  BY DEF LargestShows
<1>1. ~Excused(g) /\ ~UnderConversion(g)
  BY DEF Excused, UnderConversion
<1>2. auto[x] \in Models
  BY DEF ModelTypes
<1>3. ~AsLarge(x, g)
  BY <1>2 DEF AsLarge, PreviewsAssumption
<1>4. render[g] \in {"none", "completed"}
  BY DEF ModelTypes
<1>5. Sound(g)
  OBVIOUS
<1>6. Matched(g)
  BY <1>1, <1>3, <1>4, <1>5 DEF Sound
<1> QED BY <1>6 DEF Matched

-----------------------------------------------------------------------------
(* Previews: the variants of an author's thumbnails.                       *)

\* The types of what the scene of the thumbnails changes.
ThumbTypes ==
    /\ key \in Uploads \cup {Nothing} /\ asking \subseteq Uploads /\ unvaried \in BOOLEAN
    /\ variant \in [1 .. Sizes -> Uploads \cup {Nothing}]
    /\ vary \in [Uploads -> {"none", "waiting", "running", "completed", "failed"}]
    /\ made \in [Uploads -> 0 .. Sizes]

\* Before the first thumbnail there is nothing; after that the job of the present
\* one, once it is asked for, has written the variants it says, and no other has
\* since.
VariantsInv ==
    /\ key = Nothing =>
           /\ asking = {} /\ \A u \in Uploads : vary[u] = "none"
           /\ \A s \in 1 .. Sizes : variant[s] = Nothing
    /\ key # Nothing /\ ~unvaried /\ key \notin asking =>
           /\ vary[key] # "none"
           /\ vary[key] = "running" => \A s \in 1 .. Sizes : s <= made[key] => variant[s] = key
           /\ vary[key] = "completed" => \A s \in 1 .. Sizes : variant[s] = key

\* The inductive invariant of that scene.
ThumbInv == ThumbTypes /\ VariantsInv

\* Every step keeps it.
LEMMA ThumbStep ==
    ASSUME PreviewsAssumption, ThumbInv, NEW u \in Uploads,
           \/ CompleteThumbnail(u) \/ AskVariants(u) \/ BeginVariants(u)
           \/ PutVariant(u) \/ FailVariants(u)
    PROVE  ThumbInv'
<1>1. u # Nothing /\ Sizes \in Nat \ {0}
  BY DEF PreviewsAssumption
<1>2. CASE CompleteThumbnail(u)
  BY <1>1, <1>2 DEF CompleteThumbnail, ThumbInv, ThumbTypes, VariantsInv
<1>3. CASE AskVariants(u)
  <2>1. /\ u \in asking /\ asking' = asking \ {u} /\ vary' = [vary EXCEPT ![u] = Asked(@)]
        /\ unvaried' = (unvaried \/ vary[u] # "none")
        /\ UNCHANGED <<key, variant, made>>
    BY <1>3 DEF AskVariants
  <2>2. /\ vary'[u] = (IF vary[u] = "none" THEN "waiting" ELSE vary[u])
        /\ \A v \in Uploads \ {u} : vary'[v] = vary[v]
    BY <2>1 DEF ThumbInv, ThumbTypes, Asked
  <2>3. ThumbTypes'
    <3>1. vary' \in [Uploads -> {"none", "waiting", "running", "completed", "failed"}]
      BY <2>1 DEF ThumbInv, ThumbTypes, Asked
    <3>2. unvaried' \in BOOLEAN
      BY <2>1
    <3> QED BY <2>1, <3>1, <3>2 DEF ThumbInv, ThumbTypes
  <2>4. key # Nothing /\ key \in Uploads
    BY <2>1 DEF ThumbInv, ThumbTypes, VariantsInv
  <2>5. CASE key = u
    <3>1. ~unvaried' => vary[u] = "none"
      BY <2>1
    <3>2. VariantsInv'
      BY <2>1, <2>2, <2>4, <2>5, <3>1 DEF VariantsInv
    <3> QED BY <2>3, <3>2 DEF ThumbInv
  <2>6. CASE key # u
    <3>1. (~unvaried' => ~unvaried) /\ (key \notin asking' => key \notin asking)
      BY <2>1, <2>6
    <3>2. VariantsInv'
      BY <2>1, <2>2, <2>4, <2>6, <3>1 DEF ThumbInv, VariantsInv
    <3> QED BY <2>3, <3>2 DEF ThumbInv
  <2> QED BY <2>5, <2>6
<1>4. CASE BeginVariants(u)
  <2>1. /\ vary[u] = "waiting" /\ vary' = [vary EXCEPT ![u] = "running"] /\ made' = [made EXCEPT ![u] = 0]
        /\ UNCHANGED <<key, variant, asking, unvaried>>
    BY <1>4 DEF BeginVariants
  <2>2. /\ vary'[u] = "running" /\ made'[u] = 0
        /\ \A v \in Uploads \ {u} : vary'[v] = vary[v] /\ made'[v] = made[v]
    BY <2>1 DEF ThumbInv, ThumbTypes
  <2>3. ThumbTypes'
    BY <1>1, <2>1 DEF ThumbInv, ThumbTypes
  <2>4. key # Nothing /\ key \in Uploads
    BY <2>1 DEF ThumbInv, ThumbTypes, VariantsInv
  <2>5. VariantsInv'
    BY <2>1, <2>2, <2>4 DEF ThumbInv, VariantsInv
  <2> QED BY <2>3, <2>5 DEF ThumbInv
<1>5. CASE PutVariant(u)
  <2> DEFINE s == made[u] + 1
  <2>1. /\ vary[u] = "running" /\ made[u] < Sizes
        /\ variant' = [variant EXCEPT ![s] = u] /\ made' = [made EXCEPT ![u] = s]
        /\ vary' = [vary EXCEPT ![u] = IF s = Sizes THEN "completed" ELSE @]
        /\ unvaried' = (unvaried \/ u # key)
        /\ UNCHANGED <<key, asking>>
    BY <1>5 DEF PutVariant
  <2>2. s \in 1 .. Sizes /\ made[u] \in 0 .. Sizes
    BY <1>1, <2>1 DEF ThumbInv, ThumbTypes
  <2>3. /\ vary'[u] = (IF s = Sizes THEN "completed" ELSE "running") /\ made'[u] = s
        /\ variant'[s] = u /\ \A r \in 1 .. Sizes : r # s => variant'[r] = variant[r]
    BY <2>1, <2>2 DEF ThumbInv, ThumbTypes
  <2>4. ThumbTypes'
    <3>1. unvaried' \in BOOLEAN
      BY <2>1
    <3>2. variant' \in [1 .. Sizes -> Uploads \cup {Nothing}] /\ made' \in [Uploads -> 0 .. Sizes]
      BY <1>1, <2>1, <2>2 DEF ThumbInv, ThumbTypes
    <3>3. vary' \in [Uploads -> {"none", "waiting", "running", "completed", "failed"}]
      BY <2>1 DEF ThumbInv, ThumbTypes
    <3> QED BY <2>1, <3>1, <3>2, <3>3 DEF ThumbInv, ThumbTypes
  <2>5. key # Nothing
    BY <2>1 DEF ThumbInv, VariantsInv
  <2>6. VariantsInv'
    <3> SUFFICES ASSUME ~unvaried', key \notin asking
                 PROVE  /\ vary'[key] # "none"
                        /\ vary'[key] = "running" => \A r \in 1 .. Sizes : r <= made'[key] => variant'[r] = key
                        /\ vary'[key] = "completed" => \A r \in 1 .. Sizes : variant'[r] = key
      BY <2>1, <2>5 DEF VariantsInv
    <3>1. u = key /\ ~unvaried
      BY <2>1
    <3>2. \A r \in 1 .. Sizes : r <= made[u] => variant[r] = u
      BY <2>1, <2>5, <3>1 DEF ThumbInv, VariantsInv
    <3>3. \A r \in 1 .. Sizes : r <= s => variant'[r] = u
      BY <2>2, <2>3, <3>2
    <3> QED BY <1>1, <2>2, <2>3, <3>1, <3>3
  <2> QED BY <2>4, <2>6 DEF ThumbInv
<1>6. CASE FailVariants(u)
  <2>1. vary[u] = "running" /\ UNCHANGED <<key, variant, made, asking, unvaried>>
    BY <1>6 DEF FailVariants
  <2>2. PICK next \in {"waiting", "failed"} : vary' = [vary EXCEPT ![u] = next]
    BY <1>6 DEF FailVariants, Again
  <2>3. vary'[u] = next /\ \A v \in Uploads \ {u} : vary'[v] = vary[v]
    BY <2>2 DEF ThumbInv, ThumbTypes
  <2>4. ThumbTypes'
    BY <2>1, <2>2 DEF ThumbInv, ThumbTypes
  <2>5. key # Nothing /\ key \in Uploads
    BY <2>1 DEF ThumbInv, ThumbTypes, VariantsInv
  <2>6. VariantsInv'
    BY <2>1, <2>3, <2>5 DEF ThumbInv, VariantsInv
  <2> QED BY <2>4, <2>6 DEF ThumbInv
<1> QED BY <1>2, <1>3, <1>4, <1>5, <1>6

\* A file's metadata are of its last analysis, an automatic thumbnail shows the
\* largest GLB, and the variants show the thumbnail that was completed last, but for
\* jobs that are to come, failed, or were overtaken by another.
THEOREM PreviewsAreExplained == PreviewsSpec => []PreviewsExplained
<1> DEFINE Inv == ModelTypes /\ (\A g \in Models : Sound(g)) /\ MetaExplained /\ ThumbInv
<1>1. PreviewsInit => Inv
  <2> SUFFICES ASSUME PreviewsInit PROVE Inv
    OBVIOUS
  <2>1. NoMeta \in Metadata /\ NoMeta.glb = FALSE /\ NoMeta.of = 0
    BY DEF NoMeta, Metadata
  <2>2. ModelTypes
    BY <2>1 DEF PreviewsInit, ModelTypes
  <2>3. ASSUME NEW g \in Models
        PROVE  Sound(g)
    BY <2>1 DEF PreviewsInit, Sound
  <2>4. MetaExplained
    BY <2>1 DEF PreviewsInit, MetaExplained
  <2>5. ThumbInv
    <3>1. 0 \in 0 .. Sizes
      BY PreviewsAssumption DEF PreviewsAssumption
    <3>2. ThumbTypes
      BY <3>1 DEF PreviewsInit, ThumbTypes
    <3>3. VariantsInv
      BY DEF PreviewsInit, VariantsInv
    <3> QED BY <3>2, <3>3 DEF ThumbInv
  <2> QED BY <2>2, <2>3, <2>4, <2>5
<1>2. Inv /\ [PreviewsNext]_previewsVars => Inv'
  <2> SUFFICES ASSUME Inv, [PreviewsNext]_previewsVars PROVE Inv'
    OBVIOUS
  <2>1. ASSUME UNCHANGED thumbVars PROVE ThumbInv'
    BY <2>1 DEF thumbVars, ThumbInv, ThumbTypes, VariantsInv
  <2>2. ASSUME UNCHANGED modelVars
        PROVE  ModelTypes' /\ (\A g \in Models : Sound(g)') /\ MetaExplained'
    BY <2>2 DEF modelVars, ModelTypes, Sound, Excused, Matched, AsLarge, UnderConversion, MetaExplained
  <2>3. CASE AskConversions /\ UNCHANGED thumbVars
    <3>1. MetaExplained'
      BY <2>3 DEF AskConversions, MetaExplained
    <3> QED BY <2>1, <2>3, <3>1, AskStep
  <2>4. ASSUME NEW f \in Models, UNCHANGED thumbVars,
               \/ AnalyzeModel(f) \/ BeginConvert(f) \/ WriteGlb(f) \/ AskRender(f)
               \/ FailConvert(f) \/ MarkSkipped(f) \/ ForgetConvert(f)
        PROVE  Inv'
    <3>1. ModelTypes' /\ \A g \in Models : Sound(g)'
      BY <2>4, ConvertStep, PreviewsAssumption
    <3>2. MetaExplained'
      BY <2>4, <3>1, MetaStep
    <3> QED BY <2>1, <2>4, <3>1, <3>2
  <2>5. ASSUME NEW f \in Models, UNCHANGED thumbVars,
               \/ BeginRender(f) \/ FailRender(f)
               \/ PutAuto(f, "1x", "rendering", "second") \/ PutAuto(f, "2x", "second", "completed")
        PROVE  Inv'
    <3>1. ModelTypes' /\ \A g \in Models : Sound(g)'
      BY <2>5, RenderStep, PreviewsAssumption
    <3>2. MetaExplained'
      BY <2>5 DEF BeginRender, FailRender, PutAuto, MetaExplained
    <3> QED BY <2>1, <2>5, <3>1, <3>2
  <2>6. ASSUME NEW u \in Uploads, UNCHANGED modelVars,
               \/ CompleteThumbnail(u) \/ AskVariants(u) \/ BeginVariants(u)
               \/ PutVariant(u) \/ FailVariants(u)
        PROVE  Inv'
    BY <2>2, <2>6, ThumbStep, PreviewsAssumption
  <2>7. CASE UNCHANGED previewsVars
    <3>1. UNCHANGED thumbVars /\ UNCHANGED modelVars
      BY <2>7 DEF previewsVars
    <3> QED BY <2>1, <2>2, <3>1
  <2> HIDE DEF Inv
  <2> QED BY <2>3, <2>4, <2>5, <2>6, <2>7 DEF PreviewsNext
<1>3. Inv => PreviewsExplained
  <2> SUFFICES ASSUME Inv PROVE PreviewsExplained
    OBVIOUS
  <2>1. LargestShows
    BY SoundShows, PreviewsAssumption
  <2>2. VariantsExplained
    <3> SUFFICES ASSUME NEW s \in 1 .. Sizes, variant[s] # key, ~unvaried, key \notin asking
                 PROVE  vary[key] \in {"waiting", "running", "failed"}
      BY DEF VariantsExplained
    <3>1. key \in Uploads
      BY DEF ThumbInv, ThumbTypes, VariantsInv
    <3> QED BY <3>1, PreviewsAssumption DEF PreviewsAssumption, ThumbInv, ThumbTypes, VariantsInv
  <2> QED BY <2>1, <2>2 DEF PreviewsExplained
<1> QED BY <1>1, <1>2, <1>3, PTL DEF PreviewsSpec

-----------------------------------------------------------------------------
(* AuditTrail: the rows tell of the changes.                               *)

\* What is recorded of a change.
Trail == [day : Nat, previous : TrailStatuses \cup {"none"}]

\* The types of the variables of AuditTrail.
TrailTypes ==
    /\ standing \in TrailStatuses /\ today \in Nat
    /\ request \in [Admins -> [step : {"new", "read", "changed", "asked", "recorded", "over"},
                               to : TrailStatuses \cup {"none"}, saw : TrailStatuses \cup {"none"}]]
    /\ recorded \in [Admins -> Trail] /\ changed \in [Admins -> Trail]
    /\ noted \in [Admins -> {"no", "pending", "there", "lost"}]
    /\ failed \subseteq Admins /\ overtaken \subseteq Admins

\* What is so of a request at each of its steps.
AtStep(r) ==
    /\ request[r].step = "new" <=> request[r] = NoRequest
    /\ request[r].step # "over" => r \notin failed /\ noted[r] = "no"
    /\ request[r].step \in {"new", "read"} => changed[r] = NoTrail /\ recorded[r] = NoTrail
    /\ request[r].step = "read" => request[r].saw = standing \/ r \in overtaken
    /\ request[r].step \in {"read", "changed", "asked", "recorded"} =>
           request[r].saw \in TrailStatuses /\ request[r].to \in TrailStatuses
    /\ request[r].step \in {"changed", "asked", "recorded"} => changed[r] # NoTrail
    /\ request[r].step \in {"changed", "asked"} =>
           changed[r].previous = request[r].saw \/ r \in overtaken

\* And of the rows that tell of it.
InRows(r) ==
    /\ request[r].step \in {"recorded", "over"} /\ HasChanged(r) /\ r \notin failed
           /\ today < changed[r].day + RetentionDays => recorded[r] # NoTrail
    /\ recorded[r] # NoTrail =>
           /\ changed[r] # NoTrail /\ changed[r].day <= recorded[r].day
           /\ recorded[r].previous = changed[r].previous \/ r \in overtaken
    /\ changed[r].day <= today
    /\ noted[r] # "no" => changed[r] # NoTrail /\ r \notin failed

\* What the inductive invariant says of one request.
Told(r) == AtStep(r) /\ InRows(r)

\* A step about another request, or none, keeps it.
LEMMA ToldStays ==
    ASSUME TrailAssumption, TrailTypes, NEW r \in Admins, Told(r), today' \in Nat, today <= today',
           request'[r] = request[r], recorded'[r] = recorded[r], changed'[r] = changed[r],
           noted'[r] = noted[r], r \in failed' => r \in failed, r \in failed => r \in failed',
           r \in overtaken => r \in overtaken',
           standing' = standing \/ request[r].step # "read" \/ r \in overtaken'
    PROVE  Told(r)'
<1>1. changed[r].day \in Nat /\ today \in Nat /\ RetentionDays \in Nat
  BY DEF TrailTypes, Trail, TrailAssumption
<1>2. HasChanged(r) <=> HasChanged(r)'
  BY DEF HasChanged
<1>3. today < changed[r].day + RetentionDays \/ ~(today' < changed[r].day + RetentionDays)
  BY <1>1
<1>4. changed[r].day <= today => changed[r].day <= today'
  BY <1>1
<1>5. AtStep(r)'
  BY DEF Told, AtStep
<1>6. InRows(r)'
  BY <1>2, <1>3, <1>4 DEF Told, InRows
<1> QED BY <1>5, <1>6 DEF Told

\* Every step keeps the types, and what is so of each request.
LEMMA TrailStep ==
    ASSUME TrailAssumption, TrailTypes, \A r \in Admins : Told(r), [TrailNext]_trailVars
    PROVE  TrailTypes' /\ \A r \in Admins : Told(r)'
<1>1. NoTrail \in Trail /\ NoTrail.previous = "none" /\ "none" \notin TrailStatuses
  BY DEF NoTrail, Trail, TrailStatuses
<1>2. ASSUME NEW r \in Admins, NEW step \in {"changed", "asked", "recorded", "over"}, Advance(r, step)
      PROVE  /\ request'[r] = [request[r] EXCEPT !.step = step] /\ request'[r].step = step
             /\ request'[r].saw = request[r].saw /\ request'[r].to = request[r].to
             /\ \A q \in Admins \ {r} : request'[q] = request[q]
             /\ request' \in [Admins -> [step : {"new", "read", "changed", "asked", "recorded", "over"},
                                         to : TrailStatuses \cup {"none"}, saw : TrailStatuses \cup {"none"}]]
             /\ request'[r] # NoRequest
  <2>1. request' = [request EXCEPT ![r] = [request[r] EXCEPT !.step = step]]
    BY <1>2 DEF Advance
  <2>2. /\ [request[r] EXCEPT !.step = step] \in
              [step : {"new", "read", "changed", "asked", "recorded", "over"},
               to : TrailStatuses \cup {"none"}, saw : TrailStatuses \cup {"none"}]
        /\ [request[r] EXCEPT !.step = step].step = step
        /\ [request[r] EXCEPT !.step = step].saw = request[r].saw
        /\ [request[r] EXCEPT !.step = step].to = request[r].to
    BY DEF TrailTypes
  <2> QED BY <2>1, <2>2 DEF TrailTypes, NoRequest
<1>3. ASSUME NEW r \in Admins, NEW to \in TrailStatuses, ReadStanding(r, to)
      PROVE  TrailTypes' /\ \A q \in Admins : Told(q)'
  <2>1. /\ request[r] = NoRequest
        /\ request' = [request EXCEPT ![r] = [step |-> "read", to |-> to, saw |-> standing]]
        /\ UNCHANGED <<standing, today, recorded, noted, changed, failed, overtaken>>
    BY <1>3 DEF ReadStanding
  <2>2. TrailTypes'
    BY <2>1 DEF TrailTypes
  <2>3. /\ request'[r] = [step |-> "read", to |-> to, saw |-> standing]
        /\ \A q \in Admins \ {r} : request'[q] = request[q]
    BY <2>1 DEF TrailTypes
  <2>4. ASSUME NEW q \in Admins \ {r}
        PROVE  Told(q)'
    BY <2>1, <2>3, <2>4, ToldStays DEF TrailTypes
  <2>5. Told(r)'
    <3>1. Told(r) /\ request[r].step = "new"
      BY <2>1 DEF NoRequest
    <3> QED BY <2>1, <2>3, <3>1 DEF Told, AtStep, InRows, NoRequest, TrailTypes
  <2> QED BY <2>2, <2>4, <2>5
<1>4. ASSUME NEW r \in Admins, UpdateStanding(r)
      PROVE  TrailTypes' /\ \A q \in Admins : Told(q)'
  <2>1. /\ request[r].step = "read" /\ standing' = request[r].to
        /\ changed' = [changed EXCEPT ![r] = [day |-> today, previous |-> standing]]
        /\ overtaken' = overtaken \cup {q \in Admins \ {r} : request[q].step = "read"}
        /\ Advance(r, "changed")
        /\ UNCHANGED <<today, recorded, noted, failed>>
    BY <1>4 DEF UpdateStanding
  <2>2. Told(r)
    OBVIOUS
  <2>3. [day |-> today, previous |-> standing] \in Trail /\ [day |-> today, previous |-> standing] # NoTrail
    BY <1>1 DEF TrailTypes, Trail, NoTrail
  <2>4. TrailTypes'
    BY <1>2, <2>1, <2>2, <2>3 DEF TrailTypes, Told, AtStep, InRows
  <2>5. /\ changed'[r] = [day |-> today, previous |-> standing]
        /\ \A q \in Admins \ {r} : changed'[q] = changed[q]
    BY <2>1 DEF TrailTypes
  <2>6. ASSUME NEW q \in Admins \ {r}
        PROVE  Told(q)'
    <3>1. request[q].step # "read" \/ q \in overtaken'
      BY <2>1
    <3>2. q \in overtaken => q \in overtaken'
      BY <2>1
    <3>3. request'[q] = request[q] /\ today' \in Nat /\ today <= today' /\ Told(q)
      <4>1. request'[q] = request[q]
        BY <1>2, <2>1
      <4>2. today' = today /\ today \in Nat
        BY <2>1 DEF TrailTypes
      <4> QED BY <4>1, <4>2
    <3> QED BY <2>1, <2>5, <3>1, <3>2, <3>3, ToldStays
  <2>7. Told(r)'
    <3>1. /\ request'[r].step = "changed" /\ request'[r] # NoRequest
          /\ request'[r].saw = request[r].saw /\ request'[r].to = request[r].to
      BY <1>2, <2>1
    <3>2. changed'[r].previous = standing /\ changed'[r].day = today /\ changed'[r] # NoTrail
      BY <2>3, <2>5
    <3> QED BY <2>1, <2>2, <3>1, <3>2 DEF Told, AtStep, InRows, TrailTypes
  <2> QED BY <2>4, <2>6, <2>7
<1>5. ASSUME NEW r \in Admins, AskReindex(r)
      PROVE  TrailTypes' /\ \A q \in Admins : Told(q)'
  <2>1. /\ request[r].step = "changed" /\ Advance(r, "asked")
        /\ UNCHANGED <<standing, today, recorded, noted, changed, failed, overtaken>>
    BY <1>5 DEF AskReindex
  <2>2. TrailTypes'
    BY <1>2, <2>1 DEF TrailTypes
  <2>3. ASSUME NEW q \in Admins \ {r}
        PROVE  Told(q)'
    <3>1. request'[q] = request[q] /\ today' \in Nat /\ today <= today' /\ Told(q)
      <4>1. request'[q] = request[q]
        BY <1>2, <2>1
      <4>2. today' = today /\ today \in Nat
        BY <2>1 DEF TrailTypes
      <4> QED BY <4>1, <4>2
    <3> QED BY <2>1, <2>3, <3>1, ToldStays
  <2>4. Told(r)'
    <3>1. /\ request'[r].step = "asked" /\ request'[r] # NoRequest
          /\ request'[r].saw = request[r].saw /\ request'[r].to = request[r].to
      BY <1>2, <2>1
    <3>2. Told(r)
      OBVIOUS
    <3> QED BY <2>1, <3>1, <3>2 DEF Told, AtStep, InRows
  <2> QED BY <2>2, <2>3, <2>4
<1>6. ASSUME NEW r \in Admins, Record(r)
      PROVE  TrailTypes' /\ \A q \in Admins : Told(q)'
  <2>1. /\ request[r].step = "asked" /\ Advance(r, "recorded")
        /\ recorded' = [recorded EXCEPT ![r] = [day |-> today, previous |-> request[r].saw]]
        /\ UNCHANGED <<standing, today, noted, changed, failed, overtaken>>
    BY <1>6 DEF Record
  <2>2. Told(r)
    OBVIOUS
  <2>3. request[r].saw \in TrailStatuses
    BY <2>1, <2>2 DEF Told, AtStep, InRows
  <2>4. /\ [day |-> today, previous |-> request[r].saw] \in Trail
        /\ [day |-> today, previous |-> request[r].saw] # NoTrail
    BY <1>1, <2>3 DEF TrailTypes, Trail, NoTrail
  <2>5. TrailTypes'
    BY <1>2, <2>1, <2>4 DEF TrailTypes
  <2>6. /\ recorded'[r] = [day |-> today, previous |-> request[r].saw]
        /\ \A q \in Admins \ {r} : recorded'[q] = recorded[q]
    BY <2>1 DEF TrailTypes
  <2>7. ASSUME NEW q \in Admins \ {r}
        PROVE  Told(q)'
    <3>1. request'[q] = request[q] /\ today' \in Nat /\ today <= today' /\ Told(q)
      <4>1. request'[q] = request[q]
        BY <1>2, <2>1
      <4>2. today' = today /\ today \in Nat
        BY <2>1 DEF TrailTypes
      <4> QED BY <4>1, <4>2
    <3> QED BY <2>1, <2>6, <2>7, <3>1, ToldStays
  <2>8. Told(r)'
    <3>1. /\ request'[r].step = "recorded" /\ request'[r] # NoRequest
          /\ request'[r].saw = request[r].saw /\ request'[r].to = request[r].to
      BY <1>2, <2>1
    <3>2. recorded'[r].previous = request[r].saw /\ recorded'[r].day = today /\ recorded'[r] # NoTrail
      BY <2>4, <2>6
    <3> QED BY <2>1, <2>2, <3>1, <3>2 DEF Told, AtStep, InRows
  <2> QED BY <2>5, <2>7, <2>8
<1>7. ASSUME NEW r \in Admins, Fail(r)
      PROVE  TrailTypes' /\ \A q \in Admins : Told(q)'
  <2>1. /\ request[r].step \in {"changed", "asked"} /\ Advance(r, "over") /\ failed' = failed \cup {r}
        /\ UNCHANGED <<standing, today, recorded, noted, changed, overtaken>>
    BY <1>7 DEF Fail
  <2>2. TrailTypes'
    BY <1>2, <2>1 DEF TrailTypes
  <2>3. ASSUME NEW q \in Admins \ {r}
        PROVE  Told(q)'
    <3>1. request'[q] = request[q] /\ today' \in Nat /\ today <= today' /\ Told(q)
      <4>1. request'[q] = request[q]
        BY <1>2, <2>1
      <4>2. today' = today /\ today \in Nat
        BY <2>1 DEF TrailTypes
      <4> QED BY <4>1, <4>2
    <3> QED BY <2>1, <2>3, <3>1, ToldStays
  <2>4. Told(r)'
    <3>1. request'[r].step = "over" /\ request'[r] # NoRequest
      BY <1>2, <2>1
    <3>2. Told(r)
      OBVIOUS
    <3> QED BY <2>1, <3>1, <3>2 DEF Told, AtStep, InRows
  <2> QED BY <2>2, <2>3, <2>4
<1>8. ASSUME NEW r \in Admins, Answer(r)
      PROVE  TrailTypes' /\ \A q \in Admins : Told(q)'
  <2>1. /\ request[r].step = "recorded" /\ Advance(r, "over") /\ noted' = [noted EXCEPT ![r] = "pending"]
        /\ UNCHANGED <<standing, today, recorded, changed, failed, overtaken>>
    BY <1>8 DEF Answer
  <2>2. TrailTypes'
    BY <1>2, <2>1 DEF TrailTypes
  <2>3. noted'[r] = "pending" /\ \A q \in Admins \ {r} : noted'[q] = noted[q]
    BY <2>1 DEF TrailTypes
  <2>4. ASSUME NEW q \in Admins \ {r}
        PROVE  Told(q)'
    <3>1. request'[q] = request[q] /\ today' \in Nat /\ today <= today' /\ Told(q)
      <4>1. request'[q] = request[q]
        BY <1>2, <2>1
      <4>2. today' = today /\ today \in Nat
        BY <2>1 DEF TrailTypes
      <4> QED BY <4>1, <4>2
    <3> QED BY <2>1, <2>3, <2>4, <3>1, ToldStays
  <2>5. Told(r)'
    <3>1. request'[r].step = "over" /\ request'[r] # NoRequest
      BY <1>2, <2>1
    <3>2. Told(r)
      OBVIOUS
    <3> QED BY <2>1, <3>1, <3>2 DEF Told, AtStep, InRows, HasChanged
  <2> QED BY <2>2, <2>4, <2>5
<1>9. ASSUME NEW r \in Admins, NEW ok \in BOOLEAN, Note(r, ok)
      PROVE  TrailTypes' /\ \A q \in Admins : Told(q)'
  <2>1. /\ noted[r] = "pending" /\ noted' = [noted EXCEPT ![r] = IF ok THEN "there" ELSE "lost"]
        /\ UNCHANGED <<standing, today, request, recorded, changed, failed, overtaken>>
    BY <1>9 DEF Note
  <2>2. TrailTypes'
    BY <2>1 DEF TrailTypes
  <2>3. \A q \in Admins \ {r} : noted'[q] = noted[q]
    BY <2>1 DEF TrailTypes
  <2>4. ASSUME NEW q \in Admins \ {r}
        PROVE  Told(q)'
    BY <2>1, <2>3, <2>4, ToldStays DEF TrailTypes
  <2>5. Told(r)'
    <3>1. Told(r)
      OBVIOUS
    <3> QED BY <2>1, <3>1 DEF Told, AtStep, InRows, HasChanged
  <2> QED BY <2>2, <2>4, <2>5
<1>10. CASE ExitApi
  <2>1. /\ failed' = failed \cup {r \in Admins : request[r].step \notin {"new", "over"}}
        /\ request' = [r \in Admins |-> IF request[r] = NoRequest THEN NoRequest
                                        ELSE [request[r] EXCEPT !.step = "over"]]
        /\ noted' = [r \in Admins |-> IF noted[r] = "pending" THEN "lost" ELSE noted[r]]
        /\ UNCHANGED <<standing, today, recorded, changed, overtaken>>
    BY <1>10 DEF ExitApi
  <2>2. \A r \in Admins : [request[r] EXCEPT !.step = "over"] \in
              [step : {"new", "read", "changed", "asked", "recorded", "over"},
               to : TrailStatuses \cup {"none"}, saw : TrailStatuses \cup {"none"}]
    BY DEF TrailTypes
  <2>3. TrailTypes'
    BY <2>1, <2>2 DEF TrailTypes, NoRequest
  <2>4. ASSUME NEW r \in Admins
        PROVE  Told(r)'
    <3>1. Told(r)
      OBVIOUS
    <3>2. CASE request[r] = NoRequest
      BY <2>1, <3>1, <3>2 DEF Told, AtStep, InRows, HasChanged, NoRequest
    <3>3. CASE request[r] # NoRequest
      <4>1. request'[r] = [request[r] EXCEPT !.step = "over"]
        BY <2>1, <3>3
      <4>2. request'[r].step = "over" /\ request'[r] # NoRequest
        BY <4>1 DEF TrailTypes, NoRequest
      <4>3. request[r].step \in {"over", "read", "changed", "asked", "recorded"}
        BY <3>1, <3>3 DEF Told, AtStep, InRows, TrailTypes
      <4>4. CASE request[r].step = "over"
        BY <2>1, <3>1, <4>2, <4>4 DEF Told, AtStep, InRows, HasChanged
      <4>5. CASE request[r].step # "over"
        BY <2>1, <3>1, <4>2, <4>3, <4>5 DEF Told, AtStep, InRows, HasChanged
      <4> QED BY <4>4, <4>5
    <3> QED BY <3>2, <3>3
  <2> QED BY <2>3, <2>4
<1>11. CASE Tomorrow
  <2>1. today' = today + 1 /\ UNCHANGED <<standing, request, recorded, noted, changed, failed, overtaken>>
    BY <1>11 DEF Tomorrow
  <2>2. TrailTypes'
    BY <2>1 DEF TrailTypes
  <2>3. ASSUME NEW r \in Admins
        PROVE  Told(r)'
    BY <2>1, <2>3, ToldStays DEF TrailTypes
  <2> QED BY <2>2, <2>3
<1>12. ASSUME NEW early \in BOOLEAN, PurgeRows(early)
       PROVE  TrailTypes' /\ \A q \in Admins : Told(q)'
  <2>1. /\ recorded' = [r \in Admins |->
                          IF recorded[r].day + RetentionDays < today + (IF early THEN 1 ELSE 0)
                          THEN NoTrail ELSE recorded[r]]
        /\ UNCHANGED <<standing, today, request, noted, changed, failed, overtaken>>
    BY <1>12 DEF PurgeRows
  <2>2. TrailTypes'
    BY <1>1, <2>1 DEF TrailTypes
  <2>3. ASSUME NEW r \in Admins
        PROVE  Told(r)'
    <3>1. CASE recorded'[r] = recorded[r]
      BY <2>1, <3>1, ToldStays DEF TrailTypes
    <3>2. CASE recorded'[r] # recorded[r]
      <4>1. recorded'[r] = NoTrail /\ recorded[r].day + RetentionDays < today + 1 /\ recorded[r] # NoTrail
        BY <2>1, <3>2 DEF TrailTypes, Trail, TrailAssumption
      <4>2. recorded[r].day \in Nat /\ changed[r].day \in Nat /\ today \in Nat /\ RetentionDays \in Nat
        BY DEF TrailTypes, Trail, TrailAssumption
      <4>3. Told(r)
        OBVIOUS
      <4>4. ~(today < changed[r].day + RetentionDays)
        BY <4>1, <4>2, <4>3 DEF Told, AtStep, InRows
      <4> QED BY <2>1, <4>1, <4>3, <4>4 DEF Told, AtStep, InRows, HasChanged
    <3> QED BY <3>1, <3>2
  <2> QED BY <2>2, <2>3
<1>13. CASE UNCHANGED trailVars
  BY <1>13 DEF trailVars, TrailTypes, Told, AtStep, InRows, HasChanged
<1> QED BY <1>3, <1>4, <1>5, <1>6, <1>7, <1>8, <1>9, <1>10, <1>11, <1>12, <1>13 DEF TrailNext

\* While they are kept, the audit rows tell of every change whose request was
\* answered, of none that did not happen, and of the status it replaced, unless
\* another change came between the read and the update.
THEOREM TrailIsExplained == TrailSpec => []TrailExplained
<1> DEFINE Inv == TrailTypes /\ \A r \in Admins : Told(r)
<1>1. TrailInit => Inv
  <2> SUFFICES ASSUME TrailInit PROVE Inv
    OBVIOUS
  <2>1. TrailTypes
    BY DEF TrailInit, TrailTypes, Trail, NoTrail, NoRequest
  <2>2. ASSUME NEW r \in Admins PROVE Told(r)
    BY DEF TrailInit, Told, AtStep, InRows, NoTrail, NoRequest, HasChanged
  <2> QED BY <2>1, <2>2
<1>2. Inv /\ [TrailNext]_trailVars => Inv'
  BY TrailStep, TrailAssumption
<1>3. Inv => TrailExplained
  <2> SUFFICES ASSUME Inv, NEW r \in Admins
               PROVE  /\ HasChanged(r) /\ Over(r) /\ r \notin failed /\ today < changed[r].day + RetentionDays =>
                             recorded[r] # NoTrail
                      /\ recorded[r] # NoTrail =>
                             HasChanged(r) /\ (recorded[r].previous = changed[r].previous \/ r \in overtaken)
                      /\ noted[r] # "no" => HasChanged(r) /\ r \notin failed
    BY DEF TrailExplained
  <2>1. Told(r)
    OBVIOUS
  <2> QED BY <2>1 DEF Told, AtStep, InRows, HasChanged, Over
<1> QED BY <1>1, <1>2, <1>3, PTL DEF TrailSpec

-----------------------------------------------------------------------------
(* Upkeep: sums.                                                           *)

\* Descent over the natural numbers, as a set of pairs.
LessRel == {ss \in Nat \X Nat : ss[1] < ss[2]}

\* A set of natural numbers has a least one.
LEMMA LeastNumber ==
    ASSUME NEW S \in SUBSET Nat, S # {}
    PROVE  \E n \in S : \A m \in S : n <= m
<1>1. IsWellFoundedOn(LessRel, Nat)
  BY NatLessThanWellFounded DEF OpToRel, LessRel
<1>2. PICK x \in S : \A y \in S : ~(<<y, x>> \in LessRel)
  BY <1>1, WFMin
<1>3. ASSUME NEW m \in S
      PROVE  x <= m
  <2>1. <<m, x>> \in Nat \X Nat
    OBVIOUS
  <2>2. ~(m < x)
    BY <1>2, <2>1 DEF LessRel
  <2> QED BY <2>2
<1> QED BY <1>3

\* The element a sum takes out first.
Pick(s) == CHOOSE x \in s : TRUE

\* The recursion by which a sum over the subsets of S is defined, as far as those
\* of at most n elements.
Parts(S, n) == {s \in SUBSET S : Cardinality(s) <= n}
Adds(h, f, P) == h = [s \in P |-> IF s = {} THEN 0 ELSE f[Pick(s)] + h[s \ {Pick(s)}]]

\* A part without one of its elements is smaller.
LEMMA PartSmaller ==
    ASSUME NEW S, IsFiniteSet(S), NEW s \in SUBSET S, NEW x \in s
    PROVE  /\ IsFiniteSet(s) /\ s \ {x} \in SUBSET S
           /\ Cardinality(s \ {x}) = Cardinality(s) - 1
           /\ Cardinality(s) \in Nat \ {0} /\ Cardinality(s \ {x}) \in Nat
<1>1. IsFiniteSet(s)
  BY FS_Subset
<1>2. IsFiniteSet(s \ {x}) /\ Cardinality(s \ {x}) = Cardinality(s) - 1
  BY <1>1, FS_RemoveElement
<1>3. Cardinality(s) \in Nat /\ Cardinality(s \ {x}) \in Nat
  BY <1>1, <1>2, FS_CardinalityType
<1> QED BY <1>1, <1>2, <1>3

\* There is a function that obeys it for every n, and so for all of S.
LEMMA SumsExist ==
    ASSUME NEW S, IsFiniteSet(S), NEW f
    PROVE  \E h : Adds(h, f, SUBSET S)
<1> DEFINE Bad == {n \in Nat : ~\E h : Adds(h, f, Parts(S, n))}
<1>1. Bad = {}
  <2> SUFFICES ASSUME Bad # {} PROVE FALSE
    OBVIOUS
  <2>1. PICK n \in Bad : \A m \in Bad : n <= m
    <3> HIDE DEF Bad
    <3>1. Bad \in SUBSET Nat BY DEF Bad
    <3> QED BY <3>1, LeastNumber
  <2>2. n \in Nat /\ ~\E h : Adds(h, f, Parts(S, n))
    OBVIOUS
  <2>3. CASE n = 0
    <3>1. ASSUME NEW s \in Parts(S, 0) PROVE s = {}
      <4>1. IsFiniteSet(s) /\ Cardinality(s) \in Nat /\ Cardinality(s) <= 0
        BY FS_Subset, FS_CardinalityType DEF Parts
      <4> QED BY <4>1, FS_EmptySet
    <3> DEFINE h == [s \in Parts(S, 0) |-> 0]
    <3>2. Adds(h, f, Parts(S, 0))
      BY <3>1 DEF Adds
    <3> QED BY <2>2, <2>3, <3>2
  <2>4. CASE n # 0
    <3>1. n - 1 \in Nat /\ n - 1 \notin Bad
      BY <2>1, <2>2, <2>4
    <3>2. PICK g : Adds(g, f, Parts(S, n - 1))
      BY <3>1
    <3> DEFINE h == [s \in Parts(S, n) |->
                        IF s = {} THEN 0 ELSE f[Pick(s)] + g[s \ {Pick(s)}]]
    <3>3. ASSUME NEW s \in Parts(S, n), s # {}
          PROVE  s \ {Pick(s)} \in Parts(S, n - 1)
      <4> DEFINE x == Pick(s)
      <4>1. x \in s /\ s \in SUBSET S /\ Cardinality(s) <= n
        BY <3>3 DEF Parts, Pick
      <4> HIDE DEF x
      <4>2. /\ s \ {x} \in SUBSET S /\ Cardinality(s \ {x}) = Cardinality(s) - 1
            /\ Cardinality(s) \in Nat
        BY <4>1, PartSmaller
      <4>3. Cardinality(s \ {x}) <= n - 1
        BY <2>2, <4>1, <4>2
      <4>4. s \ {x} \in Parts(S, n - 1)
        BY <4>2, <4>3 DEF Parts
      <4> QED BY <4>4 DEF x
    <3>4. ASSUME NEW s \in Parts(S, n - 1) PROVE s \in Parts(S, n) /\ h[s] = g[s]
      <4>1. s \in Parts(S, n)
        <5>1. Cardinality(s) \in Nat
          BY FS_Subset, FS_CardinalityType DEF Parts
        <5> QED BY <2>2, <5>1 DEF Parts
      <4>2. g[s] = IF s = {} THEN 0 ELSE f[Pick(s)] + g[s \ {Pick(s)}]
        BY <3>2 DEF Adds
      <4> QED BY <4>1, <4>2
    <3>5. h = [s \in Parts(S, n) |->
                  IF s = {} THEN 0 ELSE f[Pick(s)] + h[s \ {Pick(s)}]]
      <4> HIDE DEF h
      <4>1. \A s \in Parts(S, n) : s # {} =>
               h[s \ {Pick(s)}] = g[s \ {Pick(s)}]
        BY <3>3, <3>4
      <4> QED BY <4>1 DEF h
    <3>6. Adds(h, f, Parts(S, n))
      <4> HIDE DEF h
      <4> QED BY <3>5 DEF Adds
    <3> QED BY <2>2, <3>6
  <2> QED BY <2>3, <2>4
<1>2. Cardinality(S) \in Nat
  BY FS_CardinalityType
<1>3. Parts(S, Cardinality(S)) = SUBSET S
  <2>1. \A s \in SUBSET S : Cardinality(s) <= Cardinality(S)
    BY FS_Subset
  <2> QED BY <2>1 DEF Parts
<1>4. Cardinality(S) \notin Bad
  BY <1>1
<1> QED BY <1>2, <1>3, <1>4

\* A sum over S is the value at S of a function that obeys the recursion.
LEMMA TotalUnfolds ==
    ASSUME NEW S, IsFiniteSet(S), NEW f
    PROVE  \E h : Adds(h, f, SUBSET S) /\ Total(f, S) = h[S]
<1> DEFINE h == CHOOSE h : h = [s \in SUBSET S |->
              IF s = {} THEN 0 ELSE f[Pick(s)] + h[s \ {Pick(s)}]]
<1>1. Adds(h, f, SUBSET S)
  <2>1. PICK g : Adds(g, f, SUBSET S)
    BY SumsExist
  <2> QED BY <2>1 DEF Adds
<1>2. Total(f, S) = h[S]
  BY DEF Total, MapThenSumSet, MapThenFoldSet, Pick
<1> QED BY <1>1, <1>2

\* Among parts of a finite set there is one of which no smaller part is among them.
LEMMA SmallestPart ==
    ASSUME NEW S, IsFiniteSet(S), NEW B \in SUBSET SUBSET S, B # {}
    PROVE  \E s \in B : \A x \in s : s \ {x} \notin B
<1>1. B \subseteq FiniteSubsetsOf(S)
  BY FS_Subset DEF FiniteSubsetsOf
<1>2. PICK s \in B : \A t \in B : ~(<<t, s>> \in StrictSubsetOrdering(S))
  BY <1>1, FS_StrictSubsetOrderingWellFounded, WFMin
<1>3. ASSUME NEW x \in s, s \ {x} \in B
      PROVE  FALSE
  <2>1. <<s \ {x}, s>> \in StrictSubsetOrdering(S)
    BY <1>3 DEF StrictSubsetOrdering
  <2> QED BY <1>2, <1>3, <2>1
<1> QED BY <1>3

\* Two functions that obey the recursion agree where both are defined.
LEMMA SumsAgree ==
    ASSUME NEW S, NEW R \in SUBSET S, IsFiniteSet(R), NEW f, NEW h, NEW k,
           Adds(h, f, SUBSET S), Adds(k, f, SUBSET R)
    PROVE  \A s \in SUBSET R : h[s] = k[s]
<1> DEFINE B == {s \in SUBSET R : h[s] # k[s]}
<1> SUFFICES ASSUME B # {} PROVE FALSE
  OBVIOUS
<1>1. PICK s \in B : \A x \in s : s \ {x} \notin B
  <2>1. B \in SUBSET SUBSET R
    OBVIOUS
  <2> HIDE DEF B
  <2> QED BY <2>1, SmallestPart
<1>2. s \in SUBSET R /\ s \in SUBSET S /\ h[s] # k[s]
  OBVIOUS
<1>3. h[s] = IF s = {} THEN 0 ELSE f[Pick(s)] + h[s \ {Pick(s)}]
  BY <1>2 DEF Adds
<1>4. k[s] = IF s = {} THEN 0 ELSE f[Pick(s)] + k[s \ {Pick(s)}]
  BY <1>2 DEF Adds
<1>5. s # {}
  BY <1>2, <1>3, <1>4
<1>6. Pick(s) \in s
  BY <1>5 DEF Pick
<1>7. h[s \ {Pick(s)}] = k[s \ {Pick(s)}]
  BY <1>1, <1>2, <1>6
<1> QED BY <1>2, <1>3, <1>4, <1>5, <1>7

\* The sum of nothing is zero; otherwise it is the picked element's and the rest's.
LEMMA TotalEmpty ==
    ASSUME NEW f
    PROVE  Total(f, {}) = 0
<1>1. PICK h : Adds(h, f, SUBSET {}) /\ Total(f, {}) = h[{}]
  BY TotalUnfolds, FS_EmptySet
<1>2. {} \in SUBSET {}
  OBVIOUS
<1> QED BY <1>1, <1>2 DEF Adds

LEMMA TotalPicked ==
    ASSUME NEW S, IsFiniteSet(S), S # {}, NEW f
    PROVE  Pick(S) \in S /\ Total(f, S) = f[Pick(S)] + Total(f, S \ {Pick(S)})
<1> DEFINE R == S \ {Pick(S)}
<1>1. Pick(S) \in S
  BY DEF Pick
<1>2. IsFiniteSet(R) /\ R \in SUBSET S
  BY FS_Subset
<1>3. PICK h : Adds(h, f, SUBSET S) /\ Total(f, S) = h[S]
  BY TotalUnfolds
<1>4. PICK k : Adds(k, f, SUBSET R) /\ Total(f, R) = k[R]
  <2> HIDE DEF R
  <2> QED BY <1>2, TotalUnfolds
<1>5. h[R] = k[R]
  <2> HIDE DEF R
  <2>1. R \in SUBSET R
    OBVIOUS
  <2> QED BY <1>2, <1>3, <1>4, <2>1, SumsAgree
<1>6. h[S] = f[Pick(S)] + h[R]
  <2>1. S \in SUBSET S
    OBVIOUS
  <2>2. h[S] = IF S = {} THEN 0 ELSE f[Pick(S)] + h[S \ {Pick(S)}]
    BY <1>3, <2>1 DEF Adds
  <2> QED BY <2>2
<1> QED BY <1>1, <1>3, <1>4, <1>5, <1>6

\* Induction over the parts of a finite set, the property given as the set of the parts
\* that have it.
LEMMA PartInduction ==
    ASSUME NEW S, IsFiniteSet(S), NEW T, {} \in T,
           \A s \in SUBSET S : \A x \in s : s \ {x} \in T => s \in T
    PROVE  S \in T
<1> DEFINE B == {s \in SUBSET S : s \notin T}
<1> SUFFICES ASSUME B # {} PROVE FALSE
  OBVIOUS
<1>1. PICK s \in B : \A x \in s : s \ {x} \notin B
  <2>1. B \in SUBSET SUBSET S
    OBVIOUS
  <2> HIDE DEF B
  <2> QED BY <2>1, SmallestPart
<1>2. s # {}
  OBVIOUS
<1>3. PICK x \in s : TRUE
  BY <1>2
<1>4. s \ {x} \in T
  BY <1>1
<1> QED BY <1>4

\* Sums of numbers are numbers.
LEMMA TotalIsNat ==
    ASSUME NEW S, IsFiniteSet(S), NEW f, \A x \in S : f[x] \in Nat
    PROVE  Total(f, S) \in Nat
<1> DEFINE B == {s \in SUBSET S : Total(f, s) \notin Nat}
<1> SUFFICES ASSUME B # {} PROVE FALSE
  OBVIOUS
<1>1. PICK s \in B : \A x \in s : s \ {x} \notin B
  <2>1. B \in SUBSET SUBSET S
    OBVIOUS
  <2> HIDE DEF B
  <2> QED BY <2>1, SmallestPart
<1>2. s # {} /\ IsFiniteSet(s)
  <2>1. Total(f, {}) = 0
    BY TotalEmpty
  <2>2. Total(f, s) \notin Nat /\ s \in SUBSET S
    OBVIOUS
  <2>3. s # {}
    <3> SUFFICES ASSUME s = {} PROVE FALSE
      OBVIOUS
    <3>1. Total(f, s) = 0
      BY <2>1
    <3> QED BY <2>2, <3>1
  <2>4. IsFiniteSet(s)
    BY <2>2, FS_Subset
  <2> QED BY <2>3, <2>4
<1>3. Pick(s) \in s /\ Total(f, s) = f[Pick(s)] + Total(f, s \ {Pick(s)})
  BY <1>2, TotalPicked
<1>4. Total(f, s \ {Pick(s)}) \in Nat
  BY <1>1, <1>3
<1> QED BY <1>3, <1>4

\* Any element may be taken out first.
LEMMA TotalAdds ==
    ASSUME NEW S, IsFiniteSet(S), NEW f, \A x \in S : f[x] \in Nat, NEW y \in S
    PROVE  /\ Total(f, S \ {y}) \in Nat
           /\ Total(f, S) = f[y] + Total(f, S \ {y})
<1> DEFINE B == {s \in SUBSET S : \E x \in s : Total(f, s) # f[x] + Total(f, s \ {x})}
<1>1. B = {}
  <2> SUFFICES ASSUME B # {} PROVE FALSE
    OBVIOUS
  <2>1. PICK s \in B : \A x \in s : s \ {x} \notin B
    <3>1. B \in SUBSET SUBSET S
      OBVIOUS
    <3> HIDE DEF B
    <3> QED BY <3>1, SmallestPart
  <2>2. PICK x \in s : Total(f, s) # f[x] + Total(f, s \ {x})
    OBVIOUS
  <2>3. s # {} /\ IsFiniteSet(s) /\ s \in SUBSET S
    BY <2>2, FS_Subset
  <2> DEFINE p == Pick(s)
  <2>4. p \in s /\ Total(f, s) = f[p] + Total(f, s \ {p})
    BY <2>3, TotalPicked
  <2> HIDE DEF p
  <2>5. p # x
    BY <2>2, <2>4
  <2>6. Total(f, s \ {p}) = f[x] + Total(f, (s \ {p}) \ {x})
    BY <2>1, <2>3, <2>4, <2>5
  <2>7. Total(f, s \ {x}) = f[p] + Total(f, (s \ {x}) \ {p})
    BY <2>1, <2>2, <2>3, <2>4, <2>5
  <2>8. (s \ {x}) \ {p} = (s \ {p}) \ {x}
    OBVIOUS
  <2>9. Total(f, (s \ {p}) \ {x}) \in Nat
    <3> DEFINE r == (s \ {p}) \ {x}
    <3>1. IsFiniteSet(r) /\ \A z \in r : f[z] \in Nat
      BY <2>3, FS_Subset
    <3> HIDE DEF r
    <3>2. Total(f, r) \in Nat
      BY <3>1, TotalIsNat
    <3> QED BY <3>2 DEF r
  <2>10. f[p] \in Nat /\ f[x] \in Nat
    BY <2>2, <2>3, <2>4
  <2> DEFINE rest == Total(f, (s \ {p}) \ {x})
  <2>11. Total(f, s) = f[p] + (f[x] + rest) /\ Total(f, s \ {x}) = f[p] + rest
    BY <2>4, <2>6, <2>7, <2>8
  <2>12. rest \in Nat
    BY <2>9
  <2> HIDE DEF rest
  <2> QED BY <2>2, <2>10, <2>11, <2>12
<1>2. Total(f, S) = f[y] + Total(f, S \ {y})
  BY <1>1
<1>3. IsFiniteSet(S \ {y})
  BY FS_Subset
<1>4. Total(f, S \ {y}) \in Nat
  BY <1>3, TotalIsNat
<1> QED BY <1>2, <1>4

\* What counts is the values of the elements, and more values make no smaller a sum.
LEMMA TotalEqual ==
    ASSUME NEW S, IsFiniteSet(S), NEW f, NEW g, \A x \in S : f[x] \in Nat /\ g[x] = f[x]
    PROVE  Total(f, S) = Total(g, S)
<1> DEFINE T == {s \in SUBSET S : Total(f, s) = Total(g, s)}
<1>1. {} \in T
  BY TotalEmpty
<1>2. ASSUME NEW s \in SUBSET S, NEW x \in s, s \ {x} \in T
      PROVE  s \in T
  <2>1. IsFiniteSet(s) /\ \A z \in s : f[z] \in Nat /\ g[z] \in Nat
    BY FS_Subset
  <2>2. Total(f, s) = f[x] + Total(f, s \ {x})
    BY <2>1, TotalAdds
  <2>3. Total(g, s) = g[x] + Total(g, s \ {x})
    BY <2>1, TotalAdds
  <2> QED BY <1>2, <2>2, <2>3
<1>3. S \in T
  <2> HIDE DEF T
  <2> QED BY <1>1, <1>2, PartInduction
<1> QED BY <1>3

LEMMA TotalGrows ==
    ASSUME NEW S, IsFiniteSet(S), NEW f, NEW g,
           \A x \in S : f[x] \in Nat /\ g[x] \in Nat /\ f[x] <= g[x]
    PROVE  Total(f, S) <= Total(g, S)
<1> DEFINE T == {s \in SUBSET S : Total(f, s) <= Total(g, s)}
<1>1. {} \in T
  BY TotalEmpty
<1>2. ASSUME NEW s \in SUBSET S, NEW x \in s, s \ {x} \in T
      PROVE  s \in T
  <2>1. IsFiniteSet(s) /\ \A z \in s : f[z] \in Nat /\ g[z] \in Nat
    BY FS_Subset
  <2>2. Total(f, s) = f[x] + Total(f, s \ {x}) /\ Total(f, s \ {x}) \in Nat
    BY <2>1, TotalAdds
  <2>3. Total(g, s) = g[x] + Total(g, s \ {x}) /\ Total(g, s \ {x}) \in Nat
    BY <2>1, TotalAdds
  <2>4. Total(f, s \ {x}) <= Total(g, s \ {x})
    BY <1>2
  <2>5. f[x] \in Nat /\ g[x] \in Nat /\ f[x] <= g[x]
    OBVIOUS
  <2> QED BY <2>2, <2>3, <2>4, <2>5
<1>3. S \in T
  <2> HIDE DEF T
  <2> QED BY <1>1, <1>2, PartInduction
<1> QED BY <1>3

\* Elements without value may be left out.
LEMMA TotalSkips ==
    ASSUME NEW S, IsFiniteSet(S), NEW R \in SUBSET S, NEW f,
           \A x \in S : f[x] \in Nat /\ (x \notin R => f[x] = 0)
    PROVE  Total(f, S) = Total(f, R)
<1> DEFINE T == {s \in SUBSET S : Total(f, s) = Total(f, s \cap R)}
<1>1. {} \in T
  <2>1. {} \cap R = {}
    OBVIOUS
  <2> QED BY <2>1
<1>2. ASSUME NEW s \in SUBSET S, NEW x \in s, s \ {x} \in T
      PROVE  s \in T
  <2>1. IsFiniteSet(s) /\ IsFiniteSet(s \cap R) /\ \A z \in s : f[z] \in Nat
    BY FS_Subset
  <2>2. Total(f, s) = f[x] + Total(f, s \ {x}) /\ Total(f, s \ {x}) \in Nat
    BY <2>1, TotalAdds
  <2>3. Total(f, s \ {x}) = Total(f, (s \ {x}) \cap R)
    BY <1>2
  <2>4. CASE x \in R
    <3>1. Total(f, s \cap R) = f[x] + Total(f, (s \cap R) \ {x})
      <4> DEFINE r == s \cap R
      <4>1. IsFiniteSet(r) /\ x \in r /\ \A z \in r : f[z] \in Nat
        BY <2>1, <2>4
      <4> HIDE DEF r
      <4>2. Total(f, r) = f[x] + Total(f, r \ {x})
        BY <4>1, TotalAdds
      <4> QED BY <4>2 DEF r
    <3>2. (s \cap R) \ {x} = (s \ {x}) \cap R
      OBVIOUS
    <3> QED BY <2>2, <2>3, <3>1, <3>2
  <2>5. CASE x \notin R
    <3>1. s \cap R = (s \ {x}) \cap R /\ f[x] = 0
      BY <2>5
    <3>2. Total(f, s \cap R) = Total(f, s \ {x})
      BY <2>3, <3>1
    <3>3. Total(f, s) = Total(f, s \ {x})
      BY <2>2, <3>1
    <3> QED BY <3>2, <3>3
  <2> QED BY <2>4, <2>5
<1>3. S \in T
  <2> HIDE DEF T
  <2> QED BY <1>1, <1>2, PartInduction
<1>4. S \cap R = R
  OBVIOUS
<1> QED BY <1>3, <1>4

\* A sum over a set is that of the sums over the parts a function o divides it into.
LEMMA TotalByPart ==
    ASSUME NEW S, IsFiniteSet(S), NEW U, IsFiniteSet(U), NEW o, \A x \in S : o[x] \in U,
           NEW f, \A x \in S : f[x] \in Nat
    PROVE  Total([u \in U |-> Total(f, {x \in S : o[x] = u})], U) = Total(f, S)
<1> DEFINE Sum(s) == [u \in U |-> Total(f, {x \in s : o[x] = u})]
           T == {s \in SUBSET S : Total(Sum(s), U) = Total(f, s)}
<1>0. ASSUME NEW s \in SUBSET S, NEW u \in U
      PROVE  Sum(s)[u] = Total(f, {x \in s : o[x] = u}) /\ Sum(s)[u] \in Nat
  <2>1. IsFiniteSet({x \in s : o[x] = u})
    BY FS_Subset
  <2> DEFINE r == {x \in s : o[x] = u}
  <2>2. \A x \in r : f[x] \in Nat
    OBVIOUS
  <2> HIDE DEF r
  <2>3. Total(f, r) \in Nat
    BY <2>1, <2>2, TotalIsNat DEF r
  <2> QED BY <2>3 DEF r
<1>1. {} \in T
  <2>1. ASSUME NEW u \in U PROVE Sum({})[u] = 0
    <3>1. {x \in {} : o[x] = u} = {}
      OBVIOUS
    <3> QED BY <3>1, TotalEmpty
  <2>2. Total(Sum({}), U) = Total(Sum({}), {})
    <3> HIDE DEF Sum
    <3>1. {} \in SUBSET U /\ \A u \in U : Sum({})[u] \in Nat /\ (u \notin {} => Sum({})[u] = 0)
      BY <2>1
    <3> QED BY <3>1, TotalSkips
  <2> QED BY <2>2, TotalEmpty
<1>2. ASSUME NEW s \in SUBSET S, NEW y \in s, s \ {y} \in T
      PROVE  s \in T
  <2> DEFINE v == o[y]
             t == s \ {y}
             F == Sum(s)
             G == Sum(t)
  <2>1. v \in U /\ t \in SUBSET S /\ IsFiniteSet(s) /\ f[y] \in Nat
    BY FS_Subset
  <2>2. Total(f, s) = f[y] + Total(f, t) /\ Total(f, t) \in Nat
    BY <2>1, TotalAdds
  <2>3. \A u \in U : F[u] \in Nat /\ G[u] \in Nat
    BY <1>0, <2>1
  <2>4. ASSUME NEW u \in U, u # v PROVE F[u] = G[u]
    <3>1. {x \in s : o[x] = u} = {x \in t : o[x] = u}
      BY <2>4
    <3> QED BY <3>1
  <2>5. F[v] = f[y] + G[v]
    <3> DEFINE r == {x \in s : o[x] = v}
    <3>1. IsFiniteSet(r) /\ y \in r /\ \A x \in r : f[x] \in Nat
      BY <2>1, FS_Subset
    <3>2. r \ {y} = {x \in t : o[x] = v}
      OBVIOUS
    <3>3. F[v] = Total(f, r) /\ G[v] = Total(f, r \ {y})
      BY <2>1, <3>2
    <3> HIDE DEF r
    <3>4. Total(f, r) = f[y] + Total(f, r \ {y})
      BY <3>1, TotalAdds
    <3> QED BY <3>3, <3>4
  <2>6. Total(G, U) = Total(f, t)
    BY <1>2
  <2> HIDE DEF F, G, v
  <2>7. Total(F, U) = F[v] + Total(F, U \ {v})
    BY <2>1, <2>3, TotalAdds
  <2>8. Total(G, U) = G[v] + Total(G, U \ {v}) /\ Total(G, U \ {v}) \in Nat
    BY <2>1, <2>3, TotalAdds
  <2>9. Total(G, U \ {v}) = Total(F, U \ {v})
    <3>1. IsFiniteSet(U \ {v}) /\ \A u \in U \ {v} : G[u] \in Nat /\ F[u] = G[u]
      BY <2>3, <2>4, FS_Subset
    <3> QED BY <3>1, TotalEqual
  <2>10. G[v] \in Nat
    BY <2>1, <2>3
  <2>11. Total(F, U) = Total(f, s)
    BY <2>1, <2>2, <2>5, <2>6, <2>7, <2>8, <2>9, <2>10
  <2> QED BY <2>11 DEF F
<1>3. S \in T
  <2> HIDE DEF T
  <2> QED BY <1>1, <1>2, PartInduction
<1> QED BY <1>3

-----------------------------------------------------------------------------
(* Upkeep: the book of downloads.                                          *)

RollupRec == [at : {"idle", "daily", "queried", "totals"}, began : Days, found : [Goods -> Nat], left : SUBSET Goods]

\* The types; a job that writes a day's rows began on a later day.
LedgerTypes ==
    /\ day \in Days /\ goods \in SUBSET Goods
    /\ raw \in [Goods -> [Days -> Nat]] /\ ever \in [Goods -> [Days -> Nat]]
    /\ daily \in [Goods -> [Days -> Nat \cup {NoRow}]] /\ total \in [Goods -> Nat \cup {NoRow}]
    /\ rollup \in RollupRec /\ (rollup.at = "daily" => 0 < rollup.began /\ rollup.began <= day)
    /\ covered \in SUBSET Days /\ high \in [Goods -> Nat] /\ thinned \in SUBSET Goods

\* What goes has no raw rows left, and what has gone gets none.
GoneIsEmpty == \A g \in Goods \ goods : \A d \in Days : raw[g][d] = 0

\* With two days of raw rows or more, yesterday's and today's are whole; a job has found,
\* and the daily rows say, what was downloaded on a day that is over.
DaysKept ==
    /\ \A g \in Goods : \A d \in Days : day <= d + 1 => raw[g][d] = ever[g][d]
    /\ \A g \in Goods : \A d \in Days :
           daily[g][d] # NoRow => d < day /\ daily[g][d] = ever[g][d]
    /\ rollup.at = "daily" =>
           \A g \in Goods :
               /\ rollup.found[g] = ever[g][rollup.began - 1]
               /\ (g \in goods \ rollup.left /\ rollup.found[g] > 0 => daily[g][rollup.began - 1] # NoRow)
    /\ \A d \in covered : d < day /\ \A g \in goods : ChartOfAsset(g, d) = ever[g][d]

\* Where no raw rows were trimmed, no total shown or about to be written is more than they
\* are, and none about to be written is less than one shown.
TotalsKept ==
    \A g \in Goods \ thinned :
        /\ total[g] # NoRow => total[g] = high[g]
        /\ high[g] <= Total(raw[g], Days)
        /\ rollup.at = "totals" /\ g \in rollup.left =>
               high[g] <= rollup.found[g] /\ rollup.found[g] <= Total(raw[g], Days)

LEMMA DaysFinite == IsFiniteSet(Days)
<1>1. LastDay \in Nat
  BY UpkeepAssumption
<1> QED BY <1>1, FS_Interval DEF Days

\* The rows of one asset, over all days, are a number.
LEMMA RowsAreNat ==
    ASSUME LedgerTypes, NEW g \in Goods
    PROVE  Total(raw[g], Days) \in Nat
<1>1. \A d \in Days : raw[g][d] \in Nat
  BY DEF LedgerTypes
<1> QED BY <1>1, DaysFinite, TotalIsNat

\* Every step of the book of downloads keeps the types.
LEMMA LedgerTyped ==
    ASSUME LedgerTypes, DownloadsNext
    PROVE  LedgerTypes'
<1> USE UpkeepAssumption
<1>0. NoRollup \in RollupRec
  BY DEF NoRollup, RollupRec, Days
<1>1. ASSUME NEW g \in Goods, Download(g) PROVE LedgerTypes'
  <2>1. raw' \in [Goods -> [Days -> Nat]] /\ ever' \in [Goods -> [Days -> Nat]]
    BY <1>1 DEF Download, LedgerTypes
  <2> QED BY <1>1, <2>1 DEF Download, LedgerTypes
<1>2. ASSUME NextDay PROVE LedgerTypes'
  BY <1>2 DEF NextDay, LedgerTypes, Days, downloadVars, RollupRec
<1>3. ASSUME NEW g \in Goods, PurgeGood(g) PROVE LedgerTypes'
  BY <1>3 DEF PurgeGood, LedgerTypes
<1>4. ASSUME QueryDay PROVE LedgerTypes'
  <2>1. day - 1 \in Days
    BY <1>4 DEF QueryDay, LedgerTypes, Days
  <2>2. DayRows(day - 1) \in [Goods -> Nat]
    BY <2>1 DEF DayRows, LedgerTypes
  <2>3. rollup' \in RollupRec /\ (rollup'.at = "daily" => rollup'.began = day)
    <3>1. CASE rollup' = [at |-> "daily", began |-> day, found |-> DayRows(day - 1),
                          left |-> {g \in Goods : DayRows(day - 1)[g] > 0}]
      BY <2>2, <3>1 DEF RollupRec, LedgerTypes
    <3>2. CASE rollup' = [NoRollup EXCEPT !.at = "queried", !.began = day]
      BY <1>0, <3>2 DEF RollupRec, LedgerTypes
    <3> QED BY <1>4, <3>1, <3>2 DEF QueryDay
  <2> QED BY <1>4, <2>3 DEF QueryDay, LedgerTypes, Days
<1>5. ASSUME NEW g \in Goods, WriteDay(g) PROVE LedgerTypes'
  <2>1. rollup' = [rollup EXCEPT !.left = @ \ {g}] /\ rollup \in RollupRec
    BY <1>5 DEF WriteDay, LedgerTypes
  <2>2. rollup' \in RollupRec /\ rollup'.at = rollup.at /\ rollup'.began = rollup.began
    BY <2>1 DEF RollupRec
  <2>3. daily' \in [Goods -> [Days -> Nat \cup {NoRow}]]
    <3>1. rollup.found[g] \in Nat
      BY <2>1 DEF RollupRec
    <3> QED BY <1>5, <3>1 DEF WriteDay, LedgerTypes
  <2> QED BY <1>5, <2>2, <2>3 DEF WriteDay, LedgerTypes
<1>6. ASSUME DayWritten PROVE LedgerTypes'
  <2>1. rollup' \in RollupRec /\ rollup'.at = "queried"
    BY <1>6 DEF DayWritten, LedgerTypes, RollupRec
  <2>2. rollup.began - 1 \in Days
    BY <1>6 DEF DayWritten, LedgerTypes, RollupRec, Days
  <2> QED BY <1>6, <2>1, <2>2 DEF DayWritten, LedgerTypes
<1>7. ASSUME QueryTotals PROVE LedgerTypes'
  <2>1. TotalRows \in [Goods -> Nat]
    BY RowsAreNat DEF TotalRows
  <2>2. rollup' \in RollupRec /\ rollup'.at = "totals"
    BY <1>7, <2>1 DEF QueryTotals, LedgerTypes, RollupRec
  <2> QED BY <1>7, <2>2 DEF QueryTotals, LedgerTypes
<1>8. ASSUME NEW g \in Goods, WriteTotal(g) PROVE LedgerTypes'
  <2>1. rollup \in RollupRec /\ rollup.found[g] \in Nat
    BY DEF LedgerTypes, RollupRec
  <2>2. rollup' \in RollupRec /\ rollup'.at # "daily"
    <3>1. [rollup EXCEPT !.left = @ \ {g}] \in RollupRec
      BY <2>1 DEF RollupRec
    <3>2. [rollup EXCEPT !.left = @ \ {g}].at = rollup.at
      BY <2>1 DEF RollupRec
    <3>3. rollup.at = "totals" /\ (rollup' = [rollup EXCEPT !.left = @ \ {g}] \/ rollup' = NoRollup)
      BY <1>8 DEF WriteTotal
    <3>4. NoRollup.at = "idle"
      BY DEF NoRollup
    <3> QED BY <1>0, <3>1, <3>2, <3>3, <3>4
  <2>3. total' \in [Goods -> Nat \cup {NoRow}] /\ high' \in [Goods -> Nat]
    BY <1>8, <2>1 DEF WriteTotal, LedgerTypes
  <2> QED BY <1>8, <2>2, <2>3 DEF WriteTotal, LedgerTypes
<1>9. ASSUME Trim PROVE LedgerTypes'
  <2>1. raw' \in [Goods -> [Days -> Nat]]
    BY <1>9 DEF Trim, LedgerTypes
  <2> QED BY <1>9, <1>0, <2>1 DEF Trim, LedgerTypes, NoRollup
<1>10. ASSUME RollupDies PROVE LedgerTypes'
  BY <1>10, <1>0 DEF RollupDies, LedgerTypes, NoRollup
<1> QED BY <1>1, <1>2, <1>3, <1>4, <1>5, <1>6, <1>7, <1>8, <1>9, <1>10 DEF DownloadsNext

\* Raw rows are added to what is there, and what goes has none.
LEMMA GoneStaysEmpty ==
    ASSUME LedgerTypes, GoneIsEmpty, DownloadsNext
    PROVE  GoneIsEmpty'
<1>1. ASSUME NEW g \in Goods, Download(g) PROVE GoneIsEmpty'
  <2>1. goods' = goods /\ g \in goods
    BY <1>1 DEF Download
  <2>2. \A h \in Goods : h # g => raw'[h] = raw[h]
    BY <1>1 DEF Download, LedgerTypes
  <2> QED BY <2>1, <2>2 DEF GoneIsEmpty
<1>2. ASSUME NEW g \in Goods, PurgeGood(g) PROVE GoneIsEmpty'
  BY <1>2 DEF PurgeGood, GoneIsEmpty
<1>3. ASSUME Trim PROVE GoneIsEmpty'
  <2>1. goods' = goods
    BY <1>3 DEF Trim
  <2>2. \A h \in Goods : \A d \in Days : raw[h][d] = 0 => raw'[h][d] = 0
    BY <1>3 DEF Trim
  <2> QED BY <2>1, <2>2 DEF GoneIsEmpty
<1>4. ASSUME goods' = goods, raw' = raw PROVE GoneIsEmpty'
  BY <1>4 DEF GoneIsEmpty
<1>5. NextDay \/ QueryDay \/ DayWritten \/ QueryTotals \/ RollupDies => goods' = goods /\ raw' = raw
  BY DEF NextDay, QueryDay, DayWritten, QueryTotals, RollupDies, downloadVars
<1>6. \A g \in Goods : WriteDay(g) \/ WriteTotal(g) => goods' = goods /\ raw' = raw
  BY DEF WriteDay, WriteTotal
<1> QED BY <1>1, <1>2, <1>3, <1>4, <1>5, <1>6 DEF DownloadsNext

\* The days kept, step by step.
LEMMA DaysStayKept ==
    ASSUME LedgerTypes, Retention > 1, DaysKept, DownloadsNext
    PROVE  DaysKept'
<1> USE UpkeepAssumption
<1>0. day \in Nat /\ Days \subseteq Nat /\ rollup \in RollupRec /\ rollup.began \in Nat /\ NoRollup.at = "idle"
  BY DEF LedgerTypes, RollupRec, Days, NoRollup
<1>1. ASSUME NEW g \in Goods, Download(g) PROVE DaysKept'
  <2>1. /\ raw' = [raw EXCEPT ![g][day] = @ + 1] /\ ever' = [ever EXCEPT ![g][day] = @ + 1]
        /\ UNCHANGED <<day, goods, daily, rollup, covered>>
    BY <1>1 DEF Download
  <2>2. \A h \in Goods : \A d \in Days :
           /\ d # day => raw'[h][d] = raw[h][d] /\ ever'[h][d] = ever[h][d]
           /\ raw[h][d] = ever[h][d] => raw'[h][d] = ever'[h][d]
    BY <2>1 DEF LedgerTypes
  <2>3. \A h \in Goods : \A d \in Days : day <= d + 1 => raw'[h][d] = ever'[h][d]
    BY <2>2 DEF DaysKept
  <2>4. \A h \in Goods : \A d \in Days : daily[h][d] # NoRow => d < day /\ daily[h][d] = ever'[h][d]
    BY <1>0, <2>2 DEF DaysKept
  <2>5. ASSUME rollup.at = "daily", NEW h \in Goods PROVE rollup.found[h] = ever'[h][rollup.began - 1]
    <3>1. 0 < rollup.began /\ rollup.began <= day /\ day \in Days
      BY <2>5 DEF LedgerTypes
    <3>2. rollup.began - 1 \in Days /\ rollup.began - 1 # day
      BY <3>1, <1>0 DEF Days
    <3>3. rollup.found[h] = ever[h][rollup.began - 1]
      BY <2>5 DEF DaysKept
    <3> QED BY <2>2, <3>2, <3>3
  <2>6. ASSUME NEW d \in covered, NEW h \in goods PROVE d < day /\ ChartOfAsset(h, d)' = ever'[h][d]
    <3>1. d \in Days /\ h \in Goods /\ d < day /\ ChartOfAsset(h, d) = ever[h][d]
      BY DEF DaysKept, LedgerTypes
    <3>2. ever'[h][d] = ever[h][d]
      BY <1>0, <2>2, <3>1
    <3>3. ChartOfAsset(h, d)' = ChartOfAsset(h, d)
      BY <2>1 DEF ChartOfAsset
    <3> QED BY <3>1, <3>2, <3>3
  <2>7. rollup.at = "daily" => \A h \in Goods :
           h \in goods \ rollup.left /\ rollup.found[h] > 0 => daily[h][rollup.began - 1] # NoRow
    BY DEF DaysKept
  <2>8. \A d \in covered : d < day
    BY DEF DaysKept
  <2> QED BY <2>1, <2>3, <2>4, <2>5, <2>6, <2>7, <2>8 DEF DaysKept
<1>2. ASSUME NextDay PROVE DaysKept'
  <2>1. day' = day + 1 /\ UNCHANGED <<goods, raw, ever, daily, rollup, covered>>
    BY <1>2 DEF NextDay, downloadVars
  <2>2. \A g, d : ChartOfAsset(g, d)' = ChartOfAsset(g, d)
    BY <2>1 DEF ChartOfAsset
  <2>3. \A d \in covered : d \in Nat /\ d < day => d < day'
    BY <1>0, <2>1
  <2>4. covered \subseteq Nat
    BY <1>0 DEF LedgerTypes
  <2>5. \A g \in Goods : \A d \in Days : day' <= d + 1 => raw[g][d] = ever[g][d]
    BY <1>0, <2>1 DEF DaysKept
  <2>6. \A g \in Goods : \A d \in Days : daily[g][d] # NoRow => d < day' /\ daily[g][d] = ever[g][d]
    BY <1>0, <2>1 DEF DaysKept
  <2>7. \A d \in covered : d < day' /\ \A g \in goods : ChartOfAsset(g, d) = ever[g][d]
    BY <2>3, <2>4 DEF DaysKept
  <2>8. rollup.at = "daily" =>
           \A g \in Goods :
               /\ rollup.found[g] = ever[g][rollup.began - 1]
               /\ (g \in goods \ rollup.left /\ rollup.found[g] > 0 => daily[g][rollup.began - 1] # NoRow)
    BY DEF DaysKept
  <2> QED BY <2>1, <2>2, <2>5, <2>6, <2>7, <2>8 DEF DaysKept
<1>3. ASSUME NEW g \in Goods, PurgeGood(g) PROVE DaysKept'
  <2>1. /\ goods' = goods \ {g} /\ daily' = [daily EXCEPT ![g] = [d \in Days |-> NoRow]]
        /\ UNCHANGED <<day, raw, ever, rollup, covered>>
    BY <1>3 DEF PurgeGood
  <2>2. \A h \in Goods : h # g => daily'[h] = daily[h]
    BY <2>1 DEF LedgerTypes
  <2>3. \A d \in Days : daily'[g][d] = NoRow
    BY <2>1 DEF LedgerTypes
  <2>4. \A h \in goods' : \A d : ChartOfAsset(h, d)' = ChartOfAsset(h, d)
    BY <2>1, <2>2 DEF ChartOfAsset, LedgerTypes
  <2>5. \A h \in Goods : \A d \in Days : daily'[h][d] # NoRow => d < day /\ daily'[h][d] = ever[h][d]
    BY <2>2, <2>3 DEF DaysKept
  <2>6. \A d \in covered : d < day /\ \A h \in goods' : ChartOfAsset(h, d)' = ever[h][d]
    BY <2>1, <2>4 DEF DaysKept
  <2>7. rollup.at = "daily" =>
           \A h \in Goods :
               /\ rollup.found[h] = ever[h][rollup.began - 1]
               /\ (h \in goods' \ rollup.left /\ rollup.found[h] > 0 => daily'[h][rollup.began - 1] # NoRow)
    BY <2>1, <2>2 DEF DaysKept
  <2>8. \A h \in Goods : \A d \in Days : day <= d + 1 => raw[h][d] = ever[h][d]
    BY DEF DaysKept
  <2> QED BY <2>1, <2>5, <2>6, <2>7, <2>8 DEF DaysKept
<1>4. ASSUME QueryDay PROVE DaysKept'
  <2>1. UNCHANGED <<day, goods, raw, ever, daily, covered>>
    BY <1>4 DEF QueryDay
  <2>2. \A g, d : ChartOfAsset(g, d)' = ChartOfAsset(g, d)
    BY <2>1 DEF ChartOfAsset
  <2>3. ASSUME rollup'.at = "daily", NEW g \in Goods
        PROVE  /\ rollup'.found[g] = ever[g][rollup'.began - 1]
               /\ ~(g \in goods \ rollup'.left /\ rollup'.found[g] > 0)
    <3>1. NoRollup \in RollupRec
      BY DEF NoRollup, RollupRec, Days
    <3>2. rollup' # [NoRollup EXCEPT !.at = "queried", !.began = day]
      BY <2>3, <3>1 DEF RollupRec
    <3>3. rollup' = [at |-> "daily", began |-> day, found |-> DayRows(day - 1),
                     left |-> {h \in Goods : DayRows(day - 1)[h] > 0}]
      BY <1>4, <3>2 DEF QueryDay
    <3>4. day - 1 \in Days /\ day > 0
      BY <1>4 DEF QueryDay, LedgerTypes, Days
    <3>5. DayRows(day - 1)[g] = raw[g][day - 1]
      BY DEF DayRows
    <3>6. raw[g][day - 1] = ever[g][day - 1]
      BY <1>0, <3>4 DEF DaysKept
    <3>7. rollup'.began = day /\ rollup'.found = DayRows(day - 1) /\ rollup'.left = {h \in Goods : DayRows(day - 1)[h] > 0}
      BY <3>3
    <3> QED BY <3>5, <3>6, <3>7
  <2> QED BY <2>1, <2>2, <2>3 DEF DaysKept
<1>5. ASSUME NEW g \in Goods, WriteDay(g) PROVE DaysKept'
  <2> DEFINE b == rollup.began - 1
  <2>1. /\ rollup.at = "daily" /\ daily' = [daily EXCEPT ![g][b] = rollup.found[g]]
        /\ rollup' = [rollup EXCEPT !.left = @ \ {g}] /\ UNCHANGED <<day, goods, raw, ever, covered>>
    BY <1>5 DEF WriteDay
  <2>2. /\ rollup'.at = "daily" /\ rollup'.began = rollup.began /\ rollup'.found = rollup.found
        /\ rollup'.left = rollup.left \ {g} /\ rollup.found[g] \in Nat
    BY <2>1, <1>0 DEF RollupRec
  <2>3. b \in Days /\ b < day
    BY <2>1, <1>0 DEF LedgerTypes, Days
  <2>4. rollup.found[g] = ever[g][b] /\ rollup.found[g] # NoRow
    BY <2>1, <2>2 DEF DaysKept
  <2> HIDE DEF b
  <2>5. \A h \in Goods : \A d \in Days : (h # g \/ d # b) => daily'[h][d] = daily[h][d]
    BY <2>1, <2>3 DEF LedgerTypes
  <2>6. daily'[g][b] = ever[g][b]
    BY <2>1, <2>3, <2>4 DEF LedgerTypes
  <2>7. \A h \in Goods : \A d \in Days : daily'[h][d] # NoRow => d < day /\ daily'[h][d] = ever[h][d]
    BY <2>3, <2>5, <2>6 DEF DaysKept
  <2>8. \A h \in Goods : h \in goods \ rollup'.left /\ rollup.found[h] > 0 => daily'[h][b] # NoRow
    <3>1. \A h \in Goods : h \in goods \ rollup.left /\ rollup.found[h] > 0 => daily[h][b] # NoRow
      BY <2>1 DEF DaysKept, b
    <3> QED BY <2>2, <2>3, <2>4, <2>5, <2>6, <3>1
  <2>9. ASSUME NEW d \in covered, NEW h \in goods PROVE ChartOfAsset(h, d)' = ever[h][d]
    <3>1. h \in Goods /\ d \in Days /\ ChartOfAsset(h, d) = ever[h][d]
      BY DEF DaysKept, LedgerTypes
    <3>2. CASE h = g /\ d = b
      BY <2>4, <2>6, <3>2 DEF ChartOfAsset
    <3>3. CASE ~(h = g /\ d = b)
      BY <2>5, <3>1, <3>3 DEF ChartOfAsset
    <3> QED BY <3>2, <3>3
  <2>10. \A h \in Goods : rollup.found[h] = ever[h][b]
    BY <2>1 DEF DaysKept, b
  <2>11. /\ \A h \in Goods : \A d \in Days : day <= d + 1 => raw[h][d] = ever[h][d]
         /\ \A d \in covered : d < day
    BY DEF DaysKept
  <2>12. rollup'.began - 1 = b
    BY <2>2 DEF b
  <2> QED BY <2>1, <2>2, <2>7, <2>8, <2>9, <2>10, <2>11, <2>12 DEF DaysKept
<1>6. ASSUME DayWritten PROVE DaysKept'
  <2> DEFINE b == rollup.began - 1
  <2>1. /\ rollup.at = "daily" /\ rollup.left = {} /\ rollup'.at = "queried" /\ covered' = covered \cup {b}
        /\ UNCHANGED <<day, goods, raw, ever, daily>>
    BY <1>6, <1>0 DEF DayWritten, RollupRec
  <2>2. b \in Days /\ b < day
    BY <2>1, <1>0 DEF LedgerTypes, Days
  <2>3. ASSUME NEW g \in goods PROVE ChartOfAsset(g, b) = ever[g][b]
    <3>1. g \in Goods /\ rollup.found[g] = ever[g][b] /\ rollup.found[g] \in Nat
      BY <2>1, <1>0 DEF DaysKept, LedgerTypes, RollupRec
    <3>2. rollup.found[g] > 0 => daily[g][b] # NoRow
      BY <2>1, <3>1 DEF DaysKept
    <3>3. daily[g][b] # NoRow => daily[g][b] = ever[g][b]
      BY <2>2, <3>1 DEF DaysKept
    <3> HIDE DEF b
    <3> QED BY <3>1, <3>2, <3>3 DEF ChartOfAsset
  <2>4. \A g, d : ChartOfAsset(g, d)' = ChartOfAsset(g, d)
    BY <2>1 DEF ChartOfAsset
  <2> HIDE DEF b
  <2>5. \A d \in covered' : d < day /\ \A g \in goods : ChartOfAsset(g, d) = ever[g][d]
    BY <2>1, <2>2, <2>3 DEF DaysKept
  <2>6. /\ \A h \in Goods : \A d \in Days : day <= d + 1 => raw[h][d] = ever[h][d]
        /\ \A h \in Goods : \A d \in Days : daily[h][d] # NoRow => d < day /\ daily[h][d] = ever[h][d]
    BY DEF DaysKept
  <2> QED BY <2>1, <2>4, <2>5, <2>6 DEF DaysKept
<1>7. ASSUME UNCHANGED <<day, goods, raw, ever, daily, covered>>, rollup'.at # "daily" PROVE DaysKept'
  <2>1. \A g, d : ChartOfAsset(g, d)' = ChartOfAsset(g, d)
    BY <1>7 DEF ChartOfAsset
  <2> QED BY <1>7, <2>1 DEF DaysKept
<1>8. QueryTotals \/ RollupDies => UNCHANGED <<day, goods, raw, ever, daily, covered>> /\ rollup'.at # "daily"
  BY <1>0 DEF QueryTotals, RollupDies, RollupRec
<1>9. ASSUME NEW g \in Goods, WriteTotal(g)
      PROVE  UNCHANGED <<day, goods, raw, ever, daily, covered>> /\ rollup'.at # "daily"
  <2>1. rollup.at = "totals" /\ (rollup' = [rollup EXCEPT !.left = @ \ {g}] \/ rollup' = NoRollup)
    BY <1>9 DEF WriteTotal
  <2>2. [rollup EXCEPT !.left = @ \ {g}].at = rollup.at
    BY <1>0 DEF RollupRec
  <2>3. rollup'.at # "daily"
    BY <1>0, <2>1, <2>2
  <2> QED BY <1>9, <2>3 DEF WriteTotal
<1>10. ASSUME Trim PROVE DaysKept'
  <2>1. rollup' = NoRollup /\ UNCHANGED <<day, goods, ever, daily, covered>>
    BY <1>10 DEF Trim
  <2>2. ASSUME NEW g \in Goods, NEW d \in Days, day <= d + 1 PROVE raw'[g][d] = ever[g][d]
    <3>1. ~(d + Retention < day) /\ d + Retention # day
      BY <1>0, <2>2
    <3>2. raw'[g][d] = raw[g][d]
      BY <1>10, <3>1 DEF Trim
    <3> QED BY <2>2, <3>2 DEF DaysKept
  <2>3. \A g, d : ChartOfAsset(g, d)' = ChartOfAsset(g, d)
    BY <2>1 DEF ChartOfAsset
  <2> QED BY <1>0, <2>1, <2>2, <2>3 DEF DaysKept
<1> QED BY <1>1, <1>2, <1>3, <1>4, <1>5, <1>6, <1>7, <1>8, <1>9, <1>10 DEF DownloadsNext

\* The totals kept, step by step.
LEMMA TotalsStayKept ==
    ASSUME LedgerTypes, TotalsKept, DownloadsNext
    PROVE  TotalsKept'
<1>0. rollup \in RollupRec /\ NoRollup.at = "idle"
  BY DEF LedgerTypes, NoRollup
<1>1. ASSUME NEW g \in Goods, Download(g) PROVE TotalsKept'
  <2>1. raw' = [raw EXCEPT ![g][day] = @ + 1] /\ UNCHANGED <<thinned, total, high, rollup>>
    BY <1>1 DEF Download
  <2>2. ASSUME NEW h \in Goods PROVE Total(raw[h], Days) <= Total(raw'[h], Days) /\ Total(raw'[h], Days) \in Nat
    <3>1. \A d \in Days : raw[h][d] \in Nat /\ raw'[h][d] \in Nat /\ raw[h][d] <= raw'[h][d]
      BY <2>1 DEF LedgerTypes
    <3> QED BY <3>1, DaysFinite, TotalGrows, TotalIsNat
  <2>3. \A h \in Goods : Total(raw[h], Days) \in Nat /\ high[h] \in Nat /\ rollup.found[h] \in Nat
    BY <1>0, RowsAreNat DEF LedgerTypes, RollupRec
  <2>4. ASSUME NEW h \in Goods \ thinned
        PROVE  /\ total[h] # NoRow => total[h] = high[h]
               /\ high[h] <= Total(raw'[h], Days)
               /\ rollup.at = "totals" /\ h \in rollup.left =>
                     high[h] <= rollup.found[h] /\ rollup.found[h] <= Total(raw'[h], Days)
    <3> DEFINE sum == Total(raw[h], Days)
               more == Total(raw'[h], Days)
    <3>1. /\ total[h] # NoRow => total[h] = high[h]
          /\ high[h] <= sum
          /\ rollup.at = "totals" /\ h \in rollup.left => high[h] <= rollup.found[h] /\ rollup.found[h] <= sum
      BY DEF TotalsKept
    <3>2. sum \in Nat /\ more \in Nat /\ sum <= more /\ high[h] \in Nat /\ rollup.found[h] \in Nat
      BY <2>2, <2>3
    <3> HIDE DEF sum, more
    <3>3. high[h] <= more /\ (rollup.found[h] <= sum => rollup.found[h] <= more)
      BY <3>1, <3>2
    <3> QED BY <3>1, <3>3 DEF more
  <2> QED BY <2>1, <2>4 DEF TotalsKept
<1>2. ASSUME UNCHANGED <<raw, thinned, total, high>>, rollup'.at # "totals" PROVE TotalsKept'
  BY <1>2 DEF TotalsKept
<1>3. QueryDay \/ DayWritten \/ RollupDies => UNCHANGED <<raw, thinned, total, high>> /\ rollup'.at # "totals"
  <2>1. NoRollup \in [at : {"idle"}, began : {0}, found : {[g \in Goods |-> 0]}, left : {{}}]
    BY DEF NoRollup
  <2>2. [NoRollup EXCEPT !.at = "queried", !.began = day].at = "queried"
    BY <2>1
  <2>3. ASSUME QueryDay PROVE UNCHANGED <<raw, thinned, total, high>> /\ rollup'.at # "totals"
    <3>1. \/ rollup'.at = "daily"
          \/ rollup' = [NoRollup EXCEPT !.at = "queried", !.began = day]
      BY <2>3 DEF QueryDay
    <3>2. UNCHANGED <<raw, thinned, total, high>>
      BY <2>3 DEF QueryDay
    <3> QED BY <2>2, <3>1, <3>2
  <2>4. DayWritten \/ RollupDies => UNCHANGED <<raw, thinned, total, high>> /\ rollup'.at # "totals"
    BY <1>0 DEF DayWritten, RollupDies, RollupRec
  <2> QED BY <2>3, <2>4
<1>4. ASSUME NextDay PROVE TotalsKept'
  BY <1>4 DEF NextDay, downloadVars, TotalsKept
<1>5. ASSUME NEW g \in Goods, WriteDay(g) PROVE TotalsKept'
  <2>1. rollup'.at = "daily" /\ UNCHANGED <<raw, thinned, total, high>>
    BY <1>0, <1>5 DEF WriteDay, RollupRec
  <2> QED BY <1>2, <2>1
<1>6. ASSUME NEW g \in Goods, PurgeGood(g) PROVE TotalsKept'
  <2>1. /\ total' = [total EXCEPT ![g] = NoRow] /\ high' = [high EXCEPT ![g] = 0]
        /\ UNCHANGED <<raw, thinned, rollup>>
    BY <1>6 DEF PurgeGood
  <2>2. \A h \in Goods : h # g => total'[h] = total[h] /\ high'[h] = high[h]
    BY <2>1 DEF LedgerTypes
  <2>3. total'[g] = NoRow /\ high'[g] = 0
    BY <2>1 DEF LedgerTypes
  <2>4. ASSUME g \notin thinned
        PROVE  /\ 0 <= Total(raw[g], Days)
               /\ rollup.at = "totals" /\ g \in rollup.left => 0 <= rollup.found[g] /\ rollup.found[g] <= Total(raw[g], Days)
    <3>1. Total(raw[g], Days) \in Nat /\ rollup.found[g] \in Nat
      BY <1>0, RowsAreNat DEF RollupRec
    <3>2. rollup.at = "totals" /\ g \in rollup.left => rollup.found[g] <= Total(raw[g], Days)
      BY <2>4 DEF TotalsKept
    <3> QED BY <3>1, <3>2
  <2>5. \A h \in Goods \ thinned : h # g =>
           /\ total[h] # NoRow => total[h] = high[h]
           /\ high[h] <= Total(raw[h], Days)
           /\ rollup.at = "totals" /\ h \in rollup.left =>
                 high[h] <= rollup.found[h] /\ rollup.found[h] <= Total(raw[h], Days)
    BY DEF TotalsKept
  <2> QED BY <2>1, <2>2, <2>3, <2>4, <2>5 DEF TotalsKept
<1>7. ASSUME QueryTotals PROVE TotalsKept'
  <2>1. rollup' = [rollup EXCEPT !.at = "totals", !.found = TotalRows, !.left = goods]
        /\ UNCHANGED <<raw, thinned, total, high>>
    BY <1>7 DEF QueryTotals
  <2>2. rollup'.found = TotalRows
    BY <1>0, <2>1 DEF RollupRec
  <2>3. \A g \in Goods : rollup'.found[g] = Total(raw[g], Days) /\ Total(raw[g], Days) \in Nat
    BY <2>2, RowsAreNat DEF TotalRows
  <2>4. \A g \in Goods : Total(raw[g], Days) <= Total(raw[g], Days)
    BY <2>3
  <2> QED BY <2>1, <2>3, <2>4 DEF TotalsKept
<1>8. ASSUME NEW g \in Goods, WriteTotal(g) PROVE TotalsKept'
  <2>1. rollup.at = "totals" /\ g \in rollup.left /\ UNCHANGED <<raw, thinned>>
    BY <1>8 DEF WriteTotal
  <2>2. CASE g \in goods
    <3>1. /\ total' = [total EXCEPT ![g] = rollup.found[g]]
          /\ high' = [high EXCEPT ![g] = IF @ < rollup.found[g] THEN rollup.found[g] ELSE @]
          /\ rollup' = [rollup EXCEPT !.left = @ \ {g}]
      BY <1>8, <2>2 DEF WriteTotal
    <3>2. rollup'.at = "totals" /\ rollup'.found = rollup.found /\ rollup'.left = rollup.left \ {g}
      BY <1>0, <2>1, <3>1 DEF RollupRec
    <3>3. \A h \in Goods : h # g => total'[h] = total[h] /\ high'[h] = high[h]
      BY <3>1 DEF LedgerTypes
    <3>4. /\ total'[g] = rollup.found[g]
          /\ high'[g] = IF high[g] < rollup.found[g] THEN rollup.found[g] ELSE high[g]
      BY <3>1 DEF LedgerTypes
    <3>5. high[g] \in Nat /\ rollup.found[g] \in Nat
      BY <1>0 DEF LedgerTypes, RollupRec
    <3>6. g \notin thinned => high[g] <= rollup.found[g] /\ rollup.found[g] <= Total(raw[g], Days)
      BY <2>1 DEF TotalsKept
    <3>7. g \notin thinned => total'[g] = high'[g] /\ high'[g] <= Total(raw[g], Days)
      BY <3>4, <3>5, <3>6
    <3>8. \A h \in Goods \ thinned : h # g =>
             /\ total[h] # NoRow => total[h] = high[h]
             /\ high[h] <= Total(raw[h], Days)
             /\ h \in rollup.left => high[h] <= rollup.found[h] /\ rollup.found[h] <= Total(raw[h], Days)
      BY <2>1 DEF TotalsKept
    <3> QED BY <2>1, <3>2, <3>3, <3>7, <3>8 DEF TotalsKept
  <2>3. CASE g \notin goods
    <3>1. rollup' = NoRollup /\ UNCHANGED <<total, high>>
      BY <1>8, <2>3 DEF WriteTotal
    <3> QED BY <1>0, <1>2, <2>1, <3>1
  <2> QED BY <2>2, <2>3
<1>9. ASSUME Trim PROVE TotalsKept'
  <2>1. /\ thinned' = thinned \cup {g \in Goods : raw'[g] # raw[g]} /\ rollup' = NoRollup
        /\ UNCHANGED <<total, high>>
    BY <1>9 DEF Trim
  <2>2. \A g \in Goods \ thinned' : g \in Goods \ thinned /\ raw'[g] = raw[g]
    BY <2>1
  <2> QED BY <1>0, <2>1, <2>2 DEF TotalsKept
<1> QED BY <1>1, <1>2, <1>3, <1>4, <1>5, <1>6, <1>7, <1>8, <1>9 DEF DownloadsNext

-----------------------------------------------------------------------------
(* Upkeep: the book of storage.                                            *)

WalkRec == [at : {"idle", "listing", "done"}, knows : SUBSET Goods, left : SUBSET Goods,
            sum : [Goods -> Nat], user : [Owners -> Nat]]

StoreTypes ==
    /\ object \in [Goods -> Nat] /\ walk \in WalkRec /\ walks \in Nat /\ strays \in BOOLEAN
    /\ ofAsset \in [Goods -> Nat \cup {NoRow}] /\ ofOwner \in [Owners -> Nat \cup {NoRow}]

\* What a walk has summed up of an asset and of an owner, written or not yet written.
Bytes == [g \in Goods |-> IF ofAsset[g] = NoRow THEN walk.sum[g] ELSE ofAsset[g]]
Account == [u \in Owners |-> IF ofOwner[u] = NoRow THEN walk.user[u] ELSE ofOwner[u]]
AssetsOf(u) == {g \in Goods : Owner[g] = u}

NothingWritten == (\A g \in Goods : ofAsset[g] = NoRow) /\ \A u \in Owners : ofOwner[u] = NoRow

\* What is written is no longer to be written, and is not nothing.
WrittenOnce ==
    /\ \A g \in Goods : ofAsset[g] # NoRow => ofAsset[g] > 0 /\ walk.sum[g] = 0
    /\ \A u \in Owners : ofOwner[u] # NoRow => ofOwner[u] > 0 /\ walk.user[u] = 0

AllWritten == (\A g \in Goods : walk.sum[g] = 0) /\ \A u \in Owners : walk.user[u] = 0

Balanced == \A u \in Owners : Account[u] = Total(Bytes, AssetsOf(u))

\* In the day's first walk the accounts balance all the time.
WalkKept ==
    /\ walks = 0 => walk.at = "idle" /\ NothingWritten
    /\ walks = 1 /\ walk.at # "idle" =>
           /\ walk.left # {} => NothingWritten
           /\ \A g \in walk.left : walk.sum[g] = 0
           /\ WrittenOnce
           /\ walk.at = "done" => walk.left = {} /\ AllWritten
           /\ ~strays => Balanced

LEMMA NoWalkTyped ==
    /\ NoWalk \in WalkRec /\ NoWalk.at = "idle" /\ NoWalk.left = {}
    /\ \A g \in Goods : NoWalk.sum[g] = 0
    /\ \A u \in Owners : NoWalk.user[u] = 0
BY DEF NoWalk, WalkRec

\* An element that was worth nothing is worth something now.
LEMMA TotalRaised ==
    ASSUME NEW S, IsFiniteSet(S), NEW f, NEW h, NEW y \in S,
           \A x \in S : f[x] \in Nat /\ h[x] \in Nat, f[y] = 0, \A x \in S \ {y} : h[x] = f[x]
    PROVE  Total(h, S) = h[y] + Total(f, S)
<1>1. Total(f, S) = f[y] + Total(f, S \ {y}) /\ Total(f, S \ {y}) \in Nat
  BY TotalAdds
<1>2. Total(h, S) = h[y] + Total(h, S \ {y})
  BY TotalAdds
<1>3. Total(f, S \ {y}) = Total(h, S \ {y})
  <2>1. IsFiniteSet(S \ {y})
    BY FS_Subset
  <2> QED BY <2>1, TotalEqual
<1> QED BY <1>1, <1>2, <1>3

\* All but the objects stays, or what the walk has summed up is written as it is.
LEMMA BalanceStays ==
    ASSUME StoreTypes, Balanced, Bytes' = Bytes, Account' = Account
    PROVE  Balanced'
BY DEF Balanced, AssetsOf

\* The books of storage balance, step by step.
LEMMA StoreTyped ==
    ASSUME StoreTypes, goods \in SUBSET Goods, StorageNext
    PROVE  StoreTypes' /\ goods' \in SUBSET Goods
<1> USE UpkeepAssumption
<1>0. walk \in WalkRec /\ NoWalk \in WalkRec
  BY NoWalkTyped DEF StoreTypes
<1>1. ASSUME NEW g \in Goods, HideGood(g) \/ CreateGood(g) PROVE StoreTypes' /\ goods' \in SUBSET Goods
  BY <1>1 DEF HideGood, CreateGood, storageVars, StoreTypes
<1>2. ASSUME NEW g \in Goods, PutObject(g) \/ DropObjects(g) PROVE StoreTypes' /\ goods' \in SUBSET Goods
  BY <1>2 DEF PutObject, DropObjects, StoreTypes
<1>3. ASSUME NEW g \in Goods, ListGood(g) PROVE StoreTypes' /\ goods' \in SUBSET Goods
  <2>1. object[g] \in Nat /\ Owner[g] \in Owners
    BY DEF StoreTypes
  <2>2. AddBytes(walk.user, g) \in [Owners -> Nat]
    BY <1>0, <2>1 DEF AddBytes, WalkRec
  <2>3. walk' \in WalkRec
    BY <1>0, <1>3, <2>1, <2>2 DEF ListGood, WalkRec
  <2> QED BY <1>3, <2>3 DEF ListGood, StoreTypes
<1>4. ASSUME NEW g \in Goods, WriteAsset(g) PROVE StoreTypes' /\ goods' \in SUBSET Goods
  <2>1. walk' \in WalkRec /\ walk.sum[g] \in Nat
    BY <1>0, <1>4 DEF WriteAsset, WalkRec
  <2> QED BY <1>4, <2>1 DEF WriteAsset, StoreTypes
<1>5. ASSUME NEW u \in Owners, WriteOwner(u) PROVE StoreTypes' /\ goods' \in SUBSET Goods
  <2>1. walk' \in WalkRec /\ walk.user[u] \in Nat
    BY <1>0, <1>5 DEF WriteOwner, WalkRec
  <2> QED BY <1>5, <2>1 DEF WriteOwner, StoreTypes
<1>6. ASSUME ReadOwners PROVE StoreTypes' /\ goods' \in SUBSET Goods
  <2>1. walk' \in WalkRec
    BY <1>0, <1>6 DEF ReadOwners, WalkRec
  <2> QED BY <1>6, <2>1 DEF ReadOwners, StoreTypes
<1>7. ASSUME Walked PROVE StoreTypes' /\ goods' \in SUBSET Goods
  <2>1. walk' \in WalkRec
    BY <1>0, <1>7 DEF Walked, WalkRec
  <2> QED BY <1>7, <2>1 DEF Walked, StoreTypes
<1>8. ASSUME WalkAgain PROVE StoreTypes' /\ goods' \in SUBSET Goods
  BY <1>0, <1>8 DEF WalkAgain, StoreTypes
<1> QED BY <1>1, <1>2, <1>3, <1>4, <1>5, <1>6, <1>7, <1>8 DEF StorageNext

LEMMA WalkStaysKept ==
    ASSUME StoreTypes, WalkKept, StorageNext
    PROVE  WalkKept'
<1> USE UpkeepAssumption
<1>0. walk \in WalkRec
  BY DEF StoreTypes
<1>1. ASSUME UNCHANGED <<walk, ofAsset, ofOwner, walks, strays>> PROVE WalkKept'
  BY <1>1 DEF WalkKept, NothingWritten, WrittenOnce, AllWritten, Balanced, Bytes, Account, AssetsOf
<1>2. \A g \in Goods : HideGood(g) \/ CreateGood(g) \/ PutObject(g) \/ DropObjects(g) =>
         UNCHANGED <<walk, ofAsset, ofOwner, walks, strays>>
  BY DEF HideGood, CreateGood, PutObject, DropObjects, storageVars
<1>3. ASSUME NEW g \in Goods, ListGood(g) PROVE WalkKept'
  <2>1. /\ walk.at = "listing" /\ g \in walk.left /\ UNCHANGED <<ofAsset, ofOwner, walks>>
        /\ strays' = (strays \/ (object[g] > 0 /\ g \notin walk.knows))
        /\ walk' = [walk EXCEPT !.left = @ \ {g}, !.sum[g] = object[g],
                                !.user = IF g \in walk.knows THEN AddBytes(@, g) ELSE @]
    BY <1>3 DEF ListGood
  <2>2. object[g] \in Nat /\ Owner[g] \in Owners
    BY DEF StoreTypes
  <2>3. /\ walk'.at = "listing" /\ walk'.left = walk.left \ {g}
        /\ walk'.sum = [walk.sum EXCEPT ![g] = object[g]]
        /\ walk'.user = IF g \in walk.knows THEN [walk.user EXCEPT ![Owner[g]] = @ + object[g]] ELSE walk.user
    BY <1>0, <2>1 DEF WalkRec, AddBytes
  <2>4. walks # 0
    BY <2>1 DEF WalkKept
  <2> SUFFICES ASSUME walks = 1 PROVE WalkKept'
    BY <2>1, <2>4 DEF WalkKept
  <2>5. NothingWritten /\ walk.sum[g] = 0 /\ (\A h \in walk.left : walk.sum[h] = 0) /\ (~strays => Balanced)
    BY <2>1 DEF WalkKept
  <2>6. walk.sum \in [Goods -> Nat] /\ walk.user \in [Owners -> Nat]
    BY <1>0 DEF WalkRec
  <2>7. NothingWritten' /\ WrittenOnce' /\ \A h \in walk'.left : walk'.sum[h] = 0
    <3>1. NothingWritten'
      BY <2>1, <2>5 DEF NothingWritten
    <3>2. WrittenOnce'
      BY <3>1 DEF NothingWritten, WrittenOnce
    <3>3. walk.left \in SUBSET Goods
      BY <1>0 DEF WalkRec
    <3>4. \A h \in walk.left \ {g} : walk'.sum[h] = 0
      BY <2>3, <2>5, <2>6, <3>3
    <3> QED BY <2>3, <3>1, <3>2, <3>4
  <2>8. ASSUME ~strays' PROVE Balanced'
    <3>1. Balanced /\ (object[g] = 0 \/ g \in walk.knows)
      <4>1. ~strays /\ ~(object[g] > 0 /\ g \notin walk.knows)
        BY <2>1, <2>8
      <4>2. ~(object[g] > 0) => object[g] = 0
        BY <2>2
      <4> QED BY <2>5, <4>1, <4>2
    <3>2. Bytes = walk.sum /\ Account = walk.user
      BY <2>5, <2>6 DEF NothingWritten, Bytes, Account
    <3>3. walk'.sum \in [Goods -> Nat] /\ walk'.user \in [Owners -> Nat]
      BY <2>2, <2>3, <2>6
    <3>4. Bytes' = walk'.sum /\ Account' = walk'.user
      BY <2>7, <3>3 DEF NothingWritten, Bytes, Account
    <3>5. /\ walk'.sum[g] = object[g] /\ \A h \in Goods : h # g => walk'.sum[h] = walk.sum[h]
          /\ walk'.user[Owner[g]] = walk.user[Owner[g]] + object[g]
          /\ \A u \in Owners : u # Owner[g] => walk'.user[u] = walk.user[u]
      <4>1. CASE g \in walk.knows
        BY <2>2, <2>3, <2>6, <4>1
      <4>2. CASE g \notin walk.knows
        <5>1. object[g] = 0 /\ walk'.user = walk.user
          BY <2>3, <3>1, <4>2
        <5> QED BY <2>2, <2>3, <2>6, <5>1
      <4> QED BY <4>1, <4>2
    <3>6. ASSUME NEW u \in Owners PROVE walk'.user[u] = Total(walk'.sum, AssetsOf(u))
      <4>1. IsFiniteSet(AssetsOf(u)) /\ AssetsOf(u) \subseteq Goods
        BY FS_Subset DEF AssetsOf
      <4>2. walk.user[u] = Total(walk.sum, AssetsOf(u))
        BY <3>1, <3>2 DEF Balanced
      <4>3. \A x \in AssetsOf(u) : walk.sum[x] \in Nat /\ walk'.sum[x] \in Nat
        BY <2>6, <3>3, <4>1
      <4>4. CASE u = Owner[g]
        <5>1. g \in AssetsOf(u)
          BY <4>4 DEF AssetsOf
        <5>2. \A x \in AssetsOf(u) \ {g} : walk'.sum[x] = walk.sum[x]
          BY <3>5, <4>1
        <5>3. Total(walk'.sum, AssetsOf(u)) = walk'.sum[g] + Total(walk.sum, AssetsOf(u))
          BY <2>5, <4>1, <4>3, <5>1, <5>2, TotalRaised
        <5>4. walk.user[u] \in Nat
          BY <2>6
        <5> QED BY <2>2, <3>5, <4>2, <4>4, <5>3, <5>4
      <4>5. CASE u # Owner[g]
        <5>1. \A x \in AssetsOf(u) : walk'.sum[x] = walk.sum[x]
          BY <3>5, <4>1, <4>5 DEF AssetsOf
        <5>2. Total(walk.sum, AssetsOf(u)) = Total(walk'.sum, AssetsOf(u))
          BY <4>1, <4>3, <5>1, TotalEqual
        <5> QED BY <3>5, <4>2, <4>5, <5>2
      <4> QED BY <4>4, <4>5
    <3>7. \A u : AssetsOf(u)' = AssetsOf(u)
      BY DEF AssetsOf
    <3> QED BY <3>4, <3>6, <3>7 DEF Balanced
  <2> QED BY <2>1, <2>3, <2>7, <2>8 DEF WalkKept
<1>4. ASSUME NEW u \in Owners, WriteOwner(u) PROVE WalkKept'
  <2>1. /\ walk.at = "listing" /\ walk.left = {} /\ walk.user[u] > 0
        /\ ofOwner' = [ofOwner EXCEPT ![u] = walk.user[u]] /\ walk' = [walk EXCEPT !.user[u] = 0]
        /\ UNCHANGED <<ofAsset, walks, strays>>
    BY <1>4 DEF WriteOwner
  <2>2. /\ walk'.at = "listing" /\ walk'.left = {} /\ walk'.sum = walk.sum
        /\ walk'.user = [walk.user EXCEPT ![u] = 0] /\ walk.user \in [Owners -> Nat]
    BY <1>0, <2>1 DEF WalkRec
  <2>3. walks # 0
    BY <2>1 DEF WalkKept
  <2> SUFFICES ASSUME walks = 1 PROVE WalkKept'
    BY <2>1, <2>3 DEF WalkKept
  <2>4. WrittenOnce /\ (~strays => Balanced)
    BY <2>1 DEF WalkKept
  <2>5. ofOwner[u] = NoRow
    BY <2>1, <2>2, <2>4 DEF WrittenOnce
  <2>6. /\ ofOwner'[u] = walk.user[u] /\ walk'.user[u] = 0
        /\ \A v \in Owners : v # u => ofOwner'[v] = ofOwner[v] /\ walk'.user[v] = walk.user[v]
    BY <2>1, <2>2 DEF StoreTypes
  <2>7. WrittenOnce'
    BY <2>1, <2>2, <2>4, <2>6 DEF WrittenOnce
  <2>8. Bytes' = Bytes
    BY <2>1, <2>2 DEF Bytes
  <2>9. Account' = Account
    <3>1. walk.user[u] # NoRow
      BY <2>2
    <3>2. \A v \in Owners : (IF ofOwner'[v] = NoRow THEN walk'.user[v] ELSE ofOwner'[v])
                              = IF ofOwner[v] = NoRow THEN walk.user[v] ELSE ofOwner[v]
      BY <2>5, <2>6, <3>1
    <3> QED BY <3>2 DEF Account
  <2>10. ~strays => Balanced'
    BY <2>4, <2>8, <2>9, BalanceStays
  <2> QED BY <2>1, <2>2, <2>7, <2>10 DEF WalkKept
<1>5. ASSUME NEW g \in Goods, WriteAsset(g) PROVE WalkKept'
  <2>1. /\ walk.at = "listing" /\ walk.left = {} /\ walk.sum[g] > 0
        /\ ofAsset' = [ofAsset EXCEPT ![g] = walk.sum[g]] /\ walk' = [walk EXCEPT !.sum[g] = 0]
        /\ UNCHANGED <<ofOwner, walks, strays>>
    BY <1>5 DEF WriteAsset
  <2>2. /\ walk'.at = "listing" /\ walk'.left = {} /\ walk'.user = walk.user
        /\ walk'.sum = [walk.sum EXCEPT ![g] = 0] /\ walk.sum \in [Goods -> Nat]
    BY <1>0, <2>1 DEF WalkRec
  <2>3. walks # 0
    BY <2>1 DEF WalkKept
  <2> SUFFICES ASSUME walks = 1 PROVE WalkKept'
    BY <2>1, <2>3 DEF WalkKept
  <2>4. WrittenOnce /\ (~strays => Balanced)
    BY <2>1 DEF WalkKept
  <2>5. ofAsset[g] = NoRow
    BY <2>1, <2>2, <2>4 DEF WrittenOnce
  <2>6. /\ ofAsset'[g] = walk.sum[g] /\ walk'.sum[g] = 0
        /\ \A h \in Goods : h # g => ofAsset'[h] = ofAsset[h] /\ walk'.sum[h] = walk.sum[h]
    BY <2>1, <2>2 DEF StoreTypes
  <2>7. WrittenOnce'
    BY <2>1, <2>2, <2>4, <2>6 DEF WrittenOnce
  <2>8. Account' = Account
    BY <2>1, <2>2 DEF Account
  <2>9. Bytes' = Bytes
    <3>1. walk.sum[g] # NoRow
      BY <2>2
    <3>2. \A h \in Goods : (IF ofAsset'[h] = NoRow THEN walk'.sum[h] ELSE ofAsset'[h])
                              = IF ofAsset[h] = NoRow THEN walk.sum[h] ELSE ofAsset[h]
      BY <2>5, <2>6, <3>1
    <3> QED BY <3>2 DEF Bytes
  <2>10. ~strays => Balanced'
    BY <2>4, <2>8, <2>9, BalanceStays
  <2> QED BY <2>1, <2>2, <2>7, <2>10 DEF WalkKept
<1>6. ASSUME Walked PROVE WalkKept'
  <2>1. /\ walk.at = "listing" /\ walk.left = {} /\ AllWritten
        /\ walk' = [NoWalk EXCEPT !.at = "done"] /\ UNCHANGED <<ofAsset, ofOwner, walks, strays>>
    BY <1>6 DEF Walked, AllWritten
  <2>2. walk'.at = "done" /\ walk'.left = {} /\ walk'.sum = NoWalk.sum /\ walk'.user = NoWalk.user
    BY <2>1, NoWalkTyped DEF WalkRec
  <2>3. AllWritten'
    BY <2>2, NoWalkTyped DEF AllWritten
  <2>4. walks # 0
    BY <2>1 DEF WalkKept
  <2> SUFFICES ASSUME walks = 1 PROVE WalkKept'
    BY <2>1, <2>4 DEF WalkKept
  <2>5. WrittenOnce /\ (~strays => Balanced)
    BY <2>1 DEF WalkKept
  <2>6. WrittenOnce'
    BY <2>1, <2>3, <2>5 DEF WrittenOnce, AllWritten
  <2>7. Bytes' = Bytes /\ Account' = Account
    BY <2>1, <2>3 DEF Bytes, Account, AllWritten
  <2>8. ~strays => Balanced'
    BY <2>5, <2>7, BalanceStays
  <2> QED BY <2>1, <2>2, <2>3, <2>6, <2>8 DEF WalkKept
<1>7. ASSUME WalkAgain PROVE WalkKept'
  <2>1. walk.at # "idle" /\ walk' = NoWalk /\ UNCHANGED walks
    BY <1>7 DEF WalkAgain
  <2>2. walks # 0
    BY <2>1 DEF WalkKept
  <2> QED BY <2>1, <2>2, NoWalkTyped DEF WalkKept
<1>8. ASSUME ReadOwners PROVE WalkKept'
  <2>1. /\ walk' = [NoWalk EXCEPT !.at = "listing", !.knows = goods, !.left = Goods]
        /\ walks' = walks + 1 /\ UNCHANGED <<ofAsset, ofOwner, strays>> /\ walks \in Nat
    BY <1>8 DEF ReadOwners, StoreTypes
  <2>2. walk'.at = "listing" /\ walk'.sum = NoWalk.sum /\ walk'.user = NoWalk.user
    BY <2>1, NoWalkTyped DEF WalkRec
  <2>3. walks' # 0
    BY <2>1
  <2> SUFFICES ASSUME walks = 0 PROVE WalkKept'
    BY <2>1, <2>3 DEF WalkKept
  <2>4. NothingWritten'
    BY <2>1 DEF WalkKept, NothingWritten
  <2>5. (\A g \in Goods : walk'.sum[g] = 0) /\ \A u \in Owners : walk'.user[u] = 0
    BY <2>2, NoWalkTyped
  <2>6. WrittenOnce'
    BY <2>4 DEF NothingWritten, WrittenOnce
  <2>7. (\A g \in Goods : Bytes'[g] = 0) /\ \A u \in Owners : Account'[u] = 0
    BY <2>4, <2>5 DEF NothingWritten, Bytes, Account
  <2>8. ASSUME NEW u \in Owners PROVE Total(Bytes', AssetsOf(u)) = 0
    <3> DEFINE f == Bytes'
    <3>1. IsFiniteSet(AssetsOf(u)) /\ {} \in SUBSET AssetsOf(u) /\ \A x \in AssetsOf(u) : f[x] = 0
      BY <2>7, FS_Subset DEF AssetsOf
    <3> HIDE DEF f
    <3>2. Total(f, AssetsOf(u)) = Total(f, {})
      BY <3>1, TotalSkips
    <3>3. Total(f, AssetsOf(u)) = 0
      BY <3>2, TotalEmpty
    <3> QED BY <3>3 DEF f
  <2>9. Balanced'
    <3>1. \A u : AssetsOf(u)' = AssetsOf(u)
      BY DEF AssetsOf
    <3> QED BY <2>7, <2>8, <3>1 DEF Balanced
  <2>10. \A g \in walk'.left : walk'.sum[g] = 0
    <3>1. walk'.left = Goods
      BY <2>1, NoWalkTyped DEF WalkRec
    <3> QED BY <2>5, <3>1
  <2> QED BY <2>2, <2>3, <2>4, <2>6, <2>9, <2>10 DEF WalkKept
<1> QED BY <1>1, <1>2, <1>3, <1>4, <1>5, <1>6, <1>7, <1>8 DEF StorageNext

-----------------------------------------------------------------------------
(* Upkeep: both books.                                                     *)

\* The inductive invariant: the book that is not kept stays empty.
BooksInv ==
    /\ book \in {"downloads", "storage"} /\ LedgerTypes /\ StoreTypes
    /\ book = "downloads" => walk.at = "idle" /\ GoneIsEmpty /\ (Retention > 1 => DaysKept) /\ TotalsKept
    /\ book = "storage" => covered = {} /\ (\A g \in Goods : total[g] = NoRow) /\ WalkKept

LEMMA BooksStart == UpkeepInit => BooksInv
<1> SUFFICES ASSUME UpkeepInit PROVE BooksInv
  OBVIOUS
<1> USE UpkeepAssumption
<1>1. /\ day = 0 /\ goods = Goods /\ raw = [g \in Goods |-> [d \in Days |-> 0]] /\ ever = raw
      /\ daily = [g \in Goods |-> [d \in Days |-> NoRow]] /\ total = [g \in Goods |-> NoRow]
      /\ rollup = NoRollup /\ covered = {} /\ high = [g \in Goods |-> 0] /\ thinned = {}
  BY DEF UpkeepInit
<1>2. NoRollup \in RollupRec /\ NoRollup.at = "idle"
  BY DEF NoRollup, RollupRec, Days
<1>3. LedgerTypes
  BY <1>1, <1>2 DEF LedgerTypes, Days
<1>4. StoreTypes
  BY NoWalkTyped DEF UpkeepInit, StoreTypes
<1>5. GoneIsEmpty
  BY <1>1 DEF GoneIsEmpty
<1>6. DaysKept
  BY <1>1, <1>2 DEF DaysKept
<1>7. TotalsKept
  <2>1. \A g \in Goods : 0 <= Total(raw[g], Days)
    BY <1>3, RowsAreNat
  <2> QED BY <1>1, <1>2, <2>1 DEF TotalsKept
<1>8. WalkKept
  BY NoWalkTyped DEF UpkeepInit, WalkKept, NothingWritten
<1>9. walk.at = "idle" /\ book \in {"downloads", "storage"}
  BY NoWalkTyped DEF UpkeepInit
<1> QED BY <1>1, <1>3, <1>4, <1>5, <1>6, <1>7, <1>8, <1>9 DEF BooksInv

LEMMA BooksStep == BooksInv /\ [UpkeepNext]_upkeepVars => BooksInv'
<1> SUFFICES ASSUME BooksInv, [UpkeepNext]_upkeepVars PROVE BooksInv'
  OBVIOUS
<1>1. ASSUME book = "downloads", DownloadsNext, UNCHANGED <<book, storageVars>> PROVE BooksInv'
  <2>1. LedgerTypes /\ GoneIsEmpty /\ (Retention > 1 => DaysKept) /\ TotalsKept /\ walk.at = "idle"
    BY <1>1 DEF BooksInv
  <2>2. LedgerTypes' /\ GoneIsEmpty' /\ (Retention > 1 => DaysKept') /\ TotalsKept'
    BY <1>1, <2>1, LedgerTyped, GoneStaysEmpty, DaysStayKept, TotalsStayKept
  <2>3. StoreTypes'
    BY <1>1 DEF BooksInv, StoreTypes, storageVars
  <2>4. walk' = walk /\ book' = "downloads"
    BY <1>1 DEF storageVars
  <2> QED BY <2>1, <2>2, <2>3, <2>4 DEF BooksInv
<1>2. ASSUME book = "storage", StorageNext, UNCHANGED <<book, downloadVars>> PROVE BooksInv'
  <2>1. LedgerTypes /\ StoreTypes /\ covered = {} /\ (\A g \in Goods : total[g] = NoRow) /\ WalkKept
    BY <1>2 DEF BooksInv
  <2>2. goods \in SUBSET Goods
    BY <2>1 DEF LedgerTypes
  <2>3. StoreTypes' /\ goods' \in SUBSET Goods /\ WalkKept'
    BY <1>2, <2>1, <2>2, StoreTyped, WalkStaysKept
  <2>4. day' = day
    BY <1>2 DEF StorageNext, HideGood, CreateGood, PutObject, DropObjects, ListGood, WriteAsset, WriteOwner,
                ReadOwners, Walked, WalkAgain
  <2>5. LedgerTypes'
    BY <1>2, <2>1, <2>3, <2>4 DEF LedgerTypes, downloadVars
  <2>6. covered' = {} /\ (\A g \in Goods : total'[g] = NoRow) /\ book' = "storage"
    BY <1>2, <2>1 DEF downloadVars
  <2> QED BY <2>3, <2>5, <2>6 DEF BooksInv
<1>3. ASSUME UNCHANGED upkeepVars PROVE BooksInv'
  <2>1. UNCHANGED <<book, day, goods, downloadVars, storageVars>>
    BY <1>3 DEF upkeepVars
  <2>2. LedgerTypes' = LedgerTypes /\ StoreTypes' = StoreTypes
    BY <2>1 DEF LedgerTypes, StoreTypes, downloadVars, storageVars
  <2>3. GoneIsEmpty' = GoneIsEmpty /\ DaysKept' = DaysKept /\ TotalsKept' = TotalsKept
    BY <2>1 DEF GoneIsEmpty, DaysKept, ChartOfAsset, TotalsKept, downloadVars
  <2>4. WalkKept' = WalkKept
    BY <2>1 DEF WalkKept, NothingWritten, WrittenOnce, AllWritten, Balanced, Bytes, Account, AssetsOf, storageVars
  <2>5. walk' = walk /\ covered' = covered /\ total' = total /\ book' = book
    BY <2>1 DEF downloadVars, storageVars
  <2> QED BY <2>2, <2>3, <2>4, <2>5 DEF BooksInv
<1> QED BY <1>1, <1>2, <1>3 DEF UpkeepNext

\* In a balanced book the owner of an asset was charged what the asset holds.
LEMMA BalancedExplains ==
    ASSUME LedgerTypes, StoreTypes, WalkKept
    PROVE  StorageBalances
<1> SUFFICES ASSUME walk.at = "done", walks = 1, ~strays, NEW u \in Owners
             PROVE  LET mine == {g \in Goods : Owner[g] = u /\ ofAsset[g] # NoRow}
                    IN IF ofOwner[u] = NoRow THEN mine = {} ELSE ofOwner[u] = Total(ofAsset, mine)
  BY DEF StorageBalances
<1> USE UpkeepAssumption
<1> DEFINE mine == {g \in Goods : Owner[g] = u /\ ofAsset[g] # NoRow}
<1>1. WrittenOnce /\ AllWritten /\ Balanced
  BY DEF WalkKept
<1>2. /\ \A g \in Goods : Bytes[g] = IF ofAsset[g] = NoRow THEN 0 ELSE ofAsset[g]
      /\ Account[u] = IF ofOwner[u] = NoRow THEN 0 ELSE ofOwner[u]
  BY <1>1 DEF AllWritten, Bytes, Account
<1>3. \A g \in Goods : Bytes[g] \in Nat /\ (g \in mine => Bytes[g] = ofAsset[g] /\ Bytes[g] > 0)
  BY <1>1, <1>2 DEF StoreTypes, WrittenOnce
<1>4. /\ IsFiniteSet(AssetsOf(u)) /\ AssetsOf(u) \subseteq Goods /\ mine \in SUBSET AssetsOf(u) /\ IsFiniteSet(mine)
      /\ \A g \in AssetsOf(u) : g \notin mine => Bytes[g] = 0
  <2>1. AssetsOf(u) \subseteq Goods /\ mine \in SUBSET AssetsOf(u)
    BY DEF AssetsOf
  <2>2. \A g \in AssetsOf(u) : g \notin mine => Bytes[g] = 0
    BY <1>2 DEF AssetsOf
  <2> QED BY <2>1, <2>2, FS_Subset
<1> HIDE DEF mine
<1>5. Account[u] = Total(Bytes, AssetsOf(u))
  BY <1>1 DEF Balanced
<1>6. Total(Bytes, AssetsOf(u)) = Total(Bytes, mine)
  BY <1>3, <1>4, TotalSkips
<1>7. Total(Bytes, mine) = Total(ofAsset, mine)
  <2>1. \A g \in mine : Bytes[g] \in Nat /\ ofAsset[g] = Bytes[g]
    BY <1>3, <1>4
  <2> QED BY <1>4, <2>1, TotalEqual
<1>8. ASSUME NEW g \in mine PROVE Total(Bytes, mine) # 0
  <2>1. \A x \in mine : Bytes[x] \in Nat /\ Bytes[x] > 0
    BY <1>3, <1>4
  <2>2. Total(Bytes, mine) = Bytes[g] + Total(Bytes, mine \ {g}) /\ Total(Bytes, mine \ {g}) \in Nat
    BY <1>4, <2>1, TotalAdds
  <2> QED BY <2>1, <2>2
<1>9. IF ofOwner[u] = NoRow THEN mine = {} ELSE ofOwner[u] = Total(ofAsset, mine)
  BY <1>2, <1>5, <1>6, <1>7, <1>8
<1> QED BY <1>9 DEF mine

\* Days kept are charted in full, by owner as well as for the platform.
LEMMA KeptExplains ==
    ASSUME LedgerTypes, GoneIsEmpty, DaysKept
    PROVE  DaysExplained
<1> SUFFICES ASSUME NEW d \in covered
             PROVE  /\ \A g \in goods : ChartOfAsset(g, d) = ever[g][d]
                    /\ (\A g \in Goods : raw[g] = ever[g]) => \A shown \in SUBSET goods :
                          /\ Total([u \in Owners |-> MyChart(u, d, shown)], Owners) = PlatformOf(d, shown)
                          /\ shown = goods => PlatformOf(d, shown) = Platform(d)
  BY DEF DaysExplained
<1> USE UpkeepAssumption
<1>1. \A g \in goods : ChartOfAsset(g, d) = ever[g][d]
  BY DEF DaysKept
<1>2. ASSUME \A g \in Goods : raw[g] = ever[g], NEW shown \in SUBSET goods
      PROVE  /\ Total([u \in Owners |-> MyChart(u, d, shown)], Owners) = PlatformOf(d, shown)
             /\ shown = goods => PlatformOf(d, shown) = Platform(d)
  <2> DEFINE counts == [g \in Goods |-> raw[g][d]]
             chart == Chart(d)
             o == Owner
  <2>1. /\ d \in Days /\ goods \subseteq Goods /\ IsFiniteSet(goods)
        /\ shown \subseteq Goods /\ shown \subseteq goods /\ IsFiniteSet(shown)
    BY FS_Subset DEF LedgerTypes
  <2>2. \A g \in Goods : counts[g] \in Nat /\ (g \notin goods => counts[g] = 0)
    BY <2>1 DEF LedgerTypes, GoneIsEmpty
  <2>3. \A g \in shown : chart[g] = counts[g]
    BY <1>1, <1>2, <2>1 DEF Chart
  <2> HIDE DEF counts, chart
  <2>4. \A g \in shown : chart[g] \in Nat
    BY <2>1, <2>2, <2>3
  <2>5. Total([u \in Owners |-> Total(chart, {g \in shown : Owner[g] = u})], Owners) = Total(chart, shown)
    <3>1. \A g \in shown : Owner[g] \in Owners
      BY <2>1
    <3> QED BY <2>1, <2>4, <3>1, TotalByPart
  <2>6. Total(chart, shown) = Total(counts, shown)
    BY <2>1, <2>3, <2>4, TotalEqual
  <2>7. Total(counts, Goods) = Total(counts, goods)
    BY <2>1, <2>2, TotalSkips
  <2>8. [u \in Owners |-> MyChart(u, d, shown)] = [u \in Owners |-> Total(chart, {g \in shown : Owner[g] = u})]
    BY DEF MyChart, chart
  <2> QED BY <2>5, <2>6, <2>7, <2>8 DEF Platform, PlatformOf, counts
<1> QED BY <1>1, <1>2

\* For any number of assets, owners, days and repetitions: covered days are charted in
\* full, of the assets shown, totals fall by trimming alone, and owners' bytes are those of their assets.
THEOREM BooksAreExplained == UpkeepSpec => []BooksExplained
<1>1. BooksInv => BooksExplained
  <2> SUFFICES ASSUME BooksInv PROVE BooksExplained
    OBVIOUS
  <2>1. LedgerTypes /\ StoreTypes /\ book \in {"downloads", "storage"}
    BY DEF BooksInv
  <2>2. CASE book = "downloads"
    <3>1. DaysExplained
      BY <2>1, <2>2, KeptExplains DEF BooksInv, DaysExplained
    <3>2. TotalsFallByTrim
      BY <2>1, <2>2 DEF BooksInv, TotalsKept, TotalsFallByTrim, LedgerTypes
    <3>3. StorageBalances
      BY <2>2 DEF BooksInv, StorageBalances
    <3> QED BY <3>1, <3>2, <3>3 DEF BooksExplained
  <2>3. CASE book = "storage"
    <3>1. DaysExplained
      BY <2>3 DEF BooksInv, DaysExplained
    <3>2. TotalsFallByTrim
      BY <2>1, <2>3 DEF BooksInv, TotalsFallByTrim, LedgerTypes
    <3>3. StorageBalances
      BY <2>1, <2>3, BalancedExplains DEF BooksInv
    <3> QED BY <3>1, <3>2, <3>3 DEF BooksExplained
  <2> QED BY <2>1, <2>2, <2>3
<1> QED BY <1>1, BooksStart, BooksStep, PTL DEF UpkeepSpec
=============================================================================
