--------------------------- MODULE AnalysisPipeline ---------------------------
(***************************************************************************)
(* The upload-to-READY pipeline of ONE asset version.                      *)
(*                                                                         *)
(* API replicas (files.service.ts, versions.service.ts) create AssetFile   *)
(* rows, bump a fan-in counter in Redis and enqueue one analyze job per    *)
(* file.  Workers (analyze.worker.ts) analyze the file, decrement the      *)
(* counter and, when it is no longer positive, delete it and enqueue the   *)
(* version rollup (analyze-version.worker.ts), which marks the version     *)
(* READY and has its models converted (gltf-convert.worker.ts: it writes   *)
(* the meta of a file back whole, as it read it earlier, with its own key   *)
(* added).  Nothing spans Postgres, Redis and the queue atomically: every   *)
(* awaited call is a step of its own here, and may throw.                  *)
(*                                                                         *)
(* BullMQ is external.  What the code relies on: a job id names at most    *)
(* one job; adding an id that is still known to the queue - waiting,       *)
(* active, or retained after it finished (removeOnComplete, removeOnFail)  *)
(* - does nothing; a throwing processor is retried up to `attempts` times; *)
(* a job whose worker died is handed out again, once.                      *)
(*                                                                         *)
(* What these handlers also write and nothing here reads back is left out: *)
(* byte and file totals and sort order are the subject of Versions, the    *)
(* manifest and its Mongo mirror are not modelled.  Of a conversion only    *)
(* what it does to the analyzer's part of meta is here; its own part, and   *)
(* the models it makes, are in Previews.                                    *)
(***************************************************************************)
EXTENDS Integers, FiniteSets

CONSTANTS
    Files,          \* ids of the AssetFile rows the version can ever have
    Calls,          \* API requests in flight at the same time
    NoFile,         \* "this request handles no file"
    MaxAttempts,    \* jobs.producer.ts: attempts (5 in production)
    MaxStalls,      \* BullMQ maxStalledCount (default 1)
    MaxReanalyses,  \* bound: reanalyze requests in a behaviour
    MaxCrashes      \* bound: crashes, and calls that throw, in a behaviour

ASSUME PipelineAssumption ==
    /\ IsFiniteSet(Files) /\ IsFiniteSet(Calls)
    /\ NoFile \notin Files
    /\ MaxAttempts \in Nat \ {0}
    /\ MaxStalls \in Nat /\ MaxReanalyses \in Nat /\ MaxCrashes \in Nat

VARIABLES
    row,        \* AssetFile row of each id: not created yet, present, deleted
    handle,     \* ids with an upload handle in Redis
    meta,       \* AssetFile.meta: empty, an analyzer report, an analyzerError
    taken,      \* the meta that the conversion of each file has read, if there is one
    lost,       \* history: files where a conversion put an older meta in place of the outcome
    status,     \* AssetVersion.analysisStatus
    counter,    \* analyze:version:<id>:remaining (a missing key counts as 0)
    job, tries, stalls, at, threw,      \* analyze queue, one job id per file
    broke,      \* history: files whose last attempt a call of the worker's ended by throwing
    rjob, rtries, rat,                  \* the rollup job <versionId>__fan-in
    pc, arg, todo,                      \* API requests
    reanalyses, crashes                 \* how much of the bounds is used

fileVars == <<row, handle, meta, taken, lost>>
jobVars == <<job, tries, stalls, at, threw, broke>>
rollupVars == <<rjob, rtries, rat>>
callVars == <<pc, arg, todo>>
budget == <<reanalyses, crashes>>
vars == <<fileVars, status, counter, jobVars, rollupVars, callVars, budget>>

JobStates == {"absent", "waiting", "active", "completed", "failed"}
WorkerSteps == {"idle", "fetch", "analyze", "decr", "clear", "rollup"}
RollupSteps == {"idle", "read", "write", "fanout"}
CallSteps == {"idle", "update", "drop", "incr", "add",    \* complete
              "delete",                                  \* deleteFile
              "abort", "dropAborted",                    \* abortMultipart
              "reset", "prime", "fan"}                   \* reanalyze

rows == {f \in Files : row[f] = "present"}

Init ==
    /\ row = [f \in Files |-> "new"] /\ handle = {}
    /\ meta = [f \in Files |-> "empty"]
    /\ taken = [f \in Files |-> "none"] /\ lost = {} /\ broke = {}
    /\ status = "PENDING" /\ counter = 0
    /\ job = [f \in Files |-> "absent"] /\ tries = [f \in Files |-> 0]
    /\ stalls = [f \in Files |-> 0]
    /\ at = [f \in Files |-> "idle"] /\ threw = {}
    /\ rjob = "absent" /\ rtries = 0 /\ rat = "idle"
    /\ pc = [c \in Calls |-> "idle"] /\ arg = [c \in Calls |-> NoFile]
    /\ todo = [c \in Calls |-> {}]
    /\ reanalyses = 0 /\ crashes = 0

-----------------------------------------------------------------------------
(* BullMQ: add with a jobId, and what becomes of a finished attempt.       *)

AddAnalyze(f) == job' = [job EXCEPT ![f] = IF @ = "absent" THEN "waiting" ELSE @]

AddRollup == rjob' = IF rjob = "absent" THEN "waiting" ELSE rjob

AfterThrow(n) == IF n + 1 < MaxAttempts THEN "waiting" ELSE "failed"

\* The processor of file f's job returned, or threw.
Settle(f, throws) ==
    /\ at' = [at EXCEPT ![f] = "idle"]
    /\ threw' = threw \ {f}
    /\ IF throws
       THEN /\ job' = [job EXCEPT ![f] = AfterThrow(tries[f])]
            /\ tries' = [tries EXCEPT ![f] = @ + 1]
       ELSE /\ job' = [job EXCEPT ![f] = "completed"]
            /\ UNCHANGED tries
    /\ UNCHANGED stalls

SettleRollup(throws) ==
    /\ rat' = "idle"
    /\ IF throws
       THEN rjob' = AfterThrow(rtries) /\ rtries' = rtries + 1
       ELSE rjob' = "completed" /\ UNCHANGED rtries

-----------------------------------------------------------------------------
(* API requests.  A request is a sequence of awaited steps; Finish answers *)
(* the client.                                                             *)

Goto(c, step) == pc' = [pc EXCEPT ![c] = step]

Begin(c, step, f) ==
    /\ pc[c] = "idle"
    /\ Goto(c, step)
    /\ arg' = [arg EXCEPT ![c] = f]

Finish(c) ==
    /\ Goto(c, "idle")
    /\ arg' = [arg EXCEPT ![c] = NoFile]
    /\ todo' = [todo EXCEPT ![c] = {}]

\* initiateUpload / initiateMultipart: the row exists before any byte does.
Initiate(f) ==
    /\ row[f] = "new"
    /\ row' = [row EXCEPT ![f] = "present"]
    /\ handle' = handle \cup {f}
    /\ UNCHANGED <<meta, taken, lost, status, counter, jobVars, rollupVars, callVars, budget>>

\* completeUpload / completeMultipart: the handle is only read here.
BeginComplete(c, f) ==
    /\ f \in handle
    /\ Begin(c, "update", f)
    /\ UNCHANGED <<fileVars, status, counter, jobVars, rollupVars, todo, budget>>

\* assetFile.update rejects when the row is gone.
UpdateFile(c) ==
    /\ pc[c] = "update"
    /\ IF arg[c] \in rows THEN Goto(c, "drop") /\ UNCHANGED <<arg, todo>>
                          ELSE Finish(c)
    /\ UNCHANGED <<fileVars, status, counter, jobVars, rollupVars, budget>>

DropHandle(c) ==
    /\ pc[c] \in {"drop", "dropAborted"}
    /\ handle' = handle \ {arg[c]}
    /\ IF pc[c] = "drop" THEN Goto(c, "incr") /\ UNCHANGED <<arg, todo>>
                         ELSE Finish(c)
    /\ UNCHANGED <<row, meta, taken, lost, status, counter, jobVars, rollupVars, budget>>

\* enqueueAfterCompletion: INCR, then add.
IncrCounter(c) ==
    /\ pc[c] = "incr"
    /\ counter' = counter + 1
    /\ Goto(c, "add")
    /\ UNCHANGED <<fileVars, status, jobVars, rollupVars, arg, todo, budget>>

EnqueueAnalyze(c) ==
    /\ pc[c] = "add"
    /\ AddAnalyze(arg[c])
    /\ Finish(c)
    /\ UNCHANGED <<fileVars, status, counter, tries, stalls, at, threw, broke, rollupVars, budget>>

\* deleteFile reads the row, deletes the object, then deletes the row.
BeginDelete(c, f) ==
    /\ f \in rows
    /\ Begin(c, "delete", f)
    /\ UNCHANGED <<fileVars, status, counter, jobVars, rollupVars, todo, budget>>

\* abortMultipart reads the handle, deletes the row, then drops the handle.
BeginAbort(c, f) ==
    /\ f \in handle
    /\ Begin(c, "abort", f)
    /\ UNCHANGED <<fileVars, status, counter, jobVars, rollupVars, todo, budget>>

\* Deleting a row that is gone rejects; abortMultipart swallows that.
RemoveRow(c) ==
    /\ pc[c] \in {"delete", "abort"}
    /\ row' = [row EXCEPT ![arg[c]] = "deleted"]
    /\ IF pc[c] = "delete" THEN Finish(c)
                           ELSE Goto(c, "dropAborted") /\ UNCHANGED <<arg, todo>>
    /\ UNCHANGED <<handle, meta, taken, lost, status, counter, jobVars, rollupVars, budget>>

\* reanalyze: the files are read once, here.
BeginReanalyze(c) ==
    /\ reanalyses < MaxReanalyses
    /\ rows # {}
    /\ Begin(c, "reset", NoFile)
    /\ todo' = [todo EXCEPT ![c] = rows]
    /\ reanalyses' = reanalyses + 1
    /\ UNCHANGED <<fileVars, status, counter, jobVars, rollupVars, crashes>>

ResetStatus(c) ==
    /\ pc[c] = "reset"
    /\ status' = "PENDING"
    /\ Goto(c, "prime")
    /\ UNCHANGED <<fileVars, counter, jobVars, rollupVars, arg, todo, budget>>

PrimeCounter(c) ==
    /\ pc[c] = "prime"
    /\ counter' = Cardinality(todo[c])
    /\ Goto(c, "fan")
    /\ UNCHANGED <<fileVars, status, jobVars, rollupVars, arg, todo, budget>>

\* Promise.all over the adds: they reach Redis one by one, in any order.
FanOut(c, f) ==
    /\ pc[c] = "fan" /\ f \in todo[c]
    /\ AddAnalyze(f)
    /\ IF todo[c] = {f} THEN Finish(c)
       ELSE /\ todo' = [todo EXCEPT ![c] = @ \ {f}]
            /\ UNCHANGED <<pc, arg>>
    /\ UNCHANGED <<fileVars, status, counter, tries, stalls, at, threw, broke, rollupVars, budget>>

-----------------------------------------------------------------------------
(* analyze.worker.ts                                                       *)

Pickup(f) ==
    /\ job[f] = "waiting"
    /\ job' = [job EXCEPT ![f] = "active"]
    /\ at' = [at EXCEPT ![f] = "fetch"]
    /\ broke' = broke \ {f}
    /\ UNCHANGED <<fileVars, status, counter, tries, stalls, threw, rollupVars, callVars, budget>>

\* A file that is gone drops the job - and leaves the counter alone.
Fetch(f) ==
    /\ at[f] = "fetch"
    /\ IF f \in rows THEN /\ at' = [at EXCEPT ![f] = "analyze"]
                          /\ UNCHANGED <<job, tries, stalls, threw>>
                     ELSE Settle(f, FALSE)
    /\ UNCHANGED <<fileVars, status, counter, broke, rollupVars, callVars, budget>>

\* Mutants of Analyze: a failed analysis rethrows before decrementing, or
\* without persisting its analyzerError.
AnalyzeSkipsDecrement(f, outcome) ==
    /\ at[f] = "analyze"
    /\ meta' = [meta EXCEPT ![f] = outcome] /\ lost' = lost \ {f}
    /\ IF outcome = "error" THEN Settle(f, TRUE)
       ELSE at' = [at EXCEPT ![f] = "decr"] /\ UNCHANGED <<job, tries, stalls, threw>>
    /\ UNCHANGED <<row, handle, taken, broke, status, counter, rollupVars, callVars, budget>>

AnalyzeSkipsHint(f, outcome) ==
    /\ at[f] = "analyze"
    /\ meta' = IF outcome = "error" THEN meta ELSE [meta EXCEPT ![f] = outcome]
    /\ lost' = lost \ {f}
    /\ at' = [at EXCEPT ![f] = "decr"]
    /\ threw' = IF outcome = "error" THEN threw \cup {f} ELSE threw
    /\ UNCHANGED <<job, tries, stalls, row, handle, taken, broke, status, counter>>
    /\ UNCHANGED <<rollupVars, callVars, budget>>

\* analyzeFile succeeded and its results are written, or it failed and the
\* error hint is; either write rejects if the row was deleted meanwhile, and
\* then the attempt ends before the counter is touched.
Analyze(f, outcome) ==
    /\ at[f] = "analyze"
    /\ IF f \in rows
       THEN /\ meta' = [meta EXCEPT ![f] = outcome] /\ lost' = lost \ {f}
            /\ at' = [at EXCEPT ![f] = "decr"]
            /\ threw' = IF outcome = "error" THEN threw \cup {f} ELSE threw
            /\ UNCHANGED <<job, tries, stalls>>
       ELSE Settle(f, TRUE) /\ UNCHANGED <<meta, lost>>
    /\ UNCHANGED <<row, handle, taken, broke, status, counter, rollupVars, callVars, budget>>

\* decrementAndMaybeRollup: DECR; when the answer is <= 0, DEL and add.
Decrement(f) ==
    /\ at[f] = "decr"
    /\ counter' = counter - 1
    /\ IF counter - 1 <= 0
       THEN at' = [at EXCEPT ![f] = "clear"] /\ UNCHANGED <<job, tries, stalls, threw>>
       ELSE Settle(f, f \in threw)
    /\ UNCHANGED <<fileVars, status, broke, rollupVars, callVars, budget>>

ClearCounter(f) ==
    /\ at[f] = "clear"
    /\ counter' = 0
    /\ at' = [at EXCEPT ![f] = "rollup"]
    /\ UNCHANGED <<fileVars, status, job, tries, stalls, threw, broke, rollupVars, callVars, budget>>

EnqueueRollup(f) ==
    /\ at[f] = "rollup"
    /\ AddRollup
    /\ Settle(f, f \in threw)
    /\ UNCHANGED <<fileVars, status, counter, broke, rtries, rat, callVars, budget>>

\* Any call of the processor throws - the reads and writes of Postgres, DECR,
\* DEL, the add - and the attempt ends there, whatever it has written; a DECR
\* whose answer is lost has counted.
StepThrows(f) ==
    /\ at[f] # "idle" /\ crashes < MaxCrashes
    /\ crashes' = crashes + 1
    /\ Settle(f, TRUE) /\ broke' = broke \cup {f}
    /\ \/ UNCHANGED counter
       \/ at[f] = "decr" /\ counter' = counter - 1
    /\ UNCHANGED <<fileVars, status, rollupVars, callVars, reanalyses>>

-----------------------------------------------------------------------------
(* analyze-version.worker.ts                                               *)

PickupRollup ==
    /\ rjob = "waiting"
    /\ rjob' = "active" /\ rat' = "read"
    /\ UNCHANGED <<fileVars, status, counter, jobVars, rtries, callVars, budget>>

ReadFiles ==
    /\ rat = "read"
    /\ rat' = "write"
    /\ UNCHANGED <<fileVars, status, counter, jobVars, rjob, rtries, callVars, budget>>

MarkReady ==
    /\ rat = "write"
    /\ status' = "READY"
    /\ rat' = "fanout"
    /\ UNCHANGED <<fileVars, counter, jobVars, rjob, rtries, callVars, budget>>

\* The transaction failed: handleFailure records it - or cannot, which it
\* swallows - and the error is rethrown.
RollupFails(recorded) ==
    /\ rat = "write"
    /\ status' = IF recorded THEN "FAILED" ELSE status
    /\ SettleRollup(TRUE)
    /\ UNCHANGED <<fileVars, counter, jobVars, callVars, budget>>

\* Mongo mirror, conversions, reindex: they succeed, or one of them throws.
FanOutRollup ==
    /\ rat = "fanout"
    /\ \E throws \in BOOLEAN : SettleRollup(throws)
    /\ UNCHANGED <<fileVars, status, counter, jobVars, callVars, budget>>

-----------------------------------------------------------------------------
(* gltf-convert.worker.ts, as far as it bears on the outcome of analyses   *)

\* The rollup's conversions, one add per file: kind and size decide which.  The
\* job reads the row when it begins: at once, or later (ConvertReads).
EnqueueConvert(f) ==
    /\ rat = "fanout" /\ f \in rows /\ taken[f] = "none"
    /\ taken' = [taken EXCEPT ![f] = meta[f]]
    /\ UNCHANGED <<row, handle, meta, lost, status, counter, jobVars, rollupVars, callVars, budget>>

\* The job begins later, or begins again, or markSkipped reads the row anew.
ConvertReads(f) ==
    /\ taken[f] # "none" /\ f \in rows
    /\ taken' = [taken EXCEPT ![f] = meta[f]]
    /\ UNCHANGED <<row, handle, meta, lost, status, counter, jobVars, rollupVars, callVars, budget>>

\* meta is written back whole, with webViewerGlb or webViewerSkipped added;
\* when what follows throws, the row is read again.
ConvertWrites(f) ==
    /\ taken[f] # "none" /\ f \in rows
    /\ meta' = [meta EXCEPT ![f] = taken[f]]
    /\ lost' = IF taken[f] # meta[f] THEN lost \cup {f} ELSE lost
    /\ \E next \in {"none", taken[f]} : taken' = [taken EXCEPT ![f] = next]
    /\ UNCHANGED <<row, handle, status, counter, jobVars, rollupVars, callVars, budget>>

\* The row is gone, or the attempts are used up.
ConvertEnds(f) ==
    /\ taken[f] # "none" /\ taken' = [taken EXCEPT ![f] = "none"]
    /\ UNCHANGED <<row, handle, meta, lost, status, counter, jobVars, rollupVars, callVars, budget>>

RewriteStep(f) == EnqueueConvert(f) \/ ConvertReads(f) \/ ConvertWrites(f) \/ ConvertEnds(f)

-----------------------------------------------------------------------------
(* Faults and the passing of time.                                         *)

\* The API process dies, or the call at hand throws: the request is simply not
\* continued.
CrashCall(c) ==
    /\ crashes < MaxCrashes /\ pc[c] # "idle"
    /\ crashes' = crashes + 1
    /\ Finish(c)
    /\ UNCHANGED <<fileVars, status, counter, jobVars, rollupVars, reanalyses>>

\* Mutant of Stall: the dead worker's position survives it.
StallKeepsStep(f) ==
    /\ crashes < MaxCrashes /\ job[f] = "active"
    /\ crashes' = crashes + 1
    /\ job' = [job EXCEPT ![f] = "waiting"]
    /\ stalls' = [stalls EXCEPT ![f] = @ + 1]
    /\ UNCHANGED <<fileVars, status, counter, tries, at, threw, broke, rollupVars, callVars, reanalyses>>

\* The worker process dies: BullMQ finds the job stalled.
Stall(f) ==
    /\ crashes < MaxCrashes /\ job[f] = "active"
    /\ crashes' = crashes + 1
    /\ job' = [job EXCEPT ![f] = IF stalls[f] < MaxStalls THEN "waiting" ELSE "failed"]
    /\ stalls' = [stalls EXCEPT ![f] = @ + 1]
    /\ at' = [at EXCEPT ![f] = "idle"] /\ threw' = threw \ {f}
    /\ UNCHANGED <<fileVars, status, counter, tries, broke, rollupVars, callVars, reanalyses>>

\* removeOnComplete / removeOnFail: the retained job is forgotten.
Forget(f) ==
    /\ job[f] \in {"completed", "failed"}
    /\ job' = [job EXCEPT ![f] = "absent"]
    /\ tries' = [tries EXCEPT ![f] = 0] /\ stalls' = [stalls EXCEPT ![f] = 0]
    /\ UNCHANGED <<fileVars, status, counter, at, threw, broke, rollupVars, callVars, budget>>

ForgetRollup ==
    /\ rjob \in {"completed", "failed"}
    /\ rjob' = "absent" /\ rtries' = 0
    /\ UNCHANGED <<fileVars, status, counter, jobVars, rat, callVars, budget>>

-----------------------------------------------------------------------------
CompleteStep(c) == UpdateFile(c) \/ DropHandle(c) \/ IncrCounter(c) \/ EnqueueAnalyze(c)

CallStep(c) ==
    \/ CompleteStep(c)
    \/ RemoveRow(c)
    \/ ResetStatus(c) \/ PrimeCounter(c) \/ \E f \in Files : FanOut(c, f)

WorkerStep(f) ==
    \/ Pickup(f) \/ Fetch(f)
    \/ Analyze(f, "report") \/ Analyze(f, "error")
    \/ Decrement(f) \/ ClearCounter(f) \/ EnqueueRollup(f)

RollupStep == PickupRollup \/ ReadFiles \/ MarkReady \/ RollupFails(TRUE) \/ FanOutRollup

\* Every request the API offers, with process crashes and calls that throw.
Next ==
    \/ \E f \in Files :
           \/ Initiate(f) \/ WorkerStep(f) \/ StepThrows(f) \/ Stall(f) \/ Forget(f)
           \/ RewriteStep(f)
    \/ \E c \in Calls : CallStep(c) \/ BeginReanalyze(c) \/ CrashCall(c)
    \/ \E c \in Calls, f \in Files :
           BeginComplete(c, f) \/ BeginDelete(c, f) \/ BeginAbort(c, f)
    \/ RollupStep \/ RollupFails(FALSE) \/ ForgetRollup

\* Workers keep taking jobs and a request handler runs to its end.
Progress ==
    /\ \A c \in Calls : WF_vars(CallStep(c))
    /\ \A f \in Files : WF_vars(WorkerStep(f))
    /\ WF_vars(RollupStep)

Spec == Init /\ [][Next]_vars

\* Uploads only: every client completes its upload once, nothing is deleted,
\* aborted or analyzed again, and no process dies.  Analyses and rollups may
\* still fail and be retried, as long as a failed rollup can be recorded, and
\* Postgres, Redis and the queue may fail an attempt, but not the last: an
\* analysis whose last attempt ends at its DECR, its DEL or its add leaves the
\* counter, or the rollup, as it is, and the version PENDING.  Conversions,
\* which write nothing but meta, are left out.
CompleteOnce(c, f) ==
    /\ \A d \in Calls : arg[d] # f
    /\ BeginComplete(c, f)

PassingFault(f) == tries[f] + 1 < MaxAttempts /\ StepThrows(f)

UploadNext ==
    \/ \E f \in Files : Initiate(f) \/ WorkerStep(f) \/ PassingFault(f) \/ Forget(f)
    \/ \E c \in Calls : CompleteStep(c)
    \/ \E c \in Calls, f \in Files : CompleteOnce(c, f)
    \/ RollupStep \/ ForgetRollup

UploadSpec == Init /\ [][UploadNext]_vars
FairUploadSpec == UploadSpec /\ Progress

-----------------------------------------------------------------------------
(* Properties.                                                             *)

\* Types of the variables; a worker has a step exactly while its job is active.
TypeOK ==
    /\ row \in [Files -> {"new", "present", "deleted"}] /\ handle \subseteq Files
    /\ meta \in [Files -> {"empty", "report", "error"}]
    /\ taken \in [Files -> {"none", "empty", "report", "error"}] /\ lost \subseteq Files
    /\ status \in {"PENDING", "READY", "FAILED"} /\ counter \in Int
    /\ job \in [Files -> JobStates] /\ tries \in [Files -> Nat] /\ stalls \in [Files -> Nat]
    /\ at \in [Files -> WorkerSteps] /\ threw \subseteq Files /\ broke \subseteq Files
    /\ rjob \in JobStates /\ rtries \in Nat /\ rat \in RollupSteps
    /\ pc \in [Calls -> CallSteps] /\ arg \in [Calls -> Files \cup {NoFile}]
    /\ todo \in [Calls -> SUBSET Files]
    /\ reanalyses \in Nat /\ crashes \in Nat
    /\ \A f \in Files : (job[f] = "active") <=> (at[f] # "idle")
    /\ (rjob = "active") <=> (rat # "idle")

\* When the queue has settled a file's job, Postgres says how it ended: a
\* completed job left the report of that file and one out of attempts its
\* analyzerError, whatever was retried, re-enqueued, deleted or stalled in
\* between.  Three things leave it otherwise: a conversion that read the meta
\* before the outcome was written and writes it back after, a last attempt that
\* ended because Postgres, Redis or the queue threw - after the outcome, even -
\* and a job BullMQ gave up on as stalled, which has no outcome to record.
OutcomeRecorded ==
    \A f \in rows \ lost :
        /\ job[f] = "completed" => meta[f] = "report"
        /\ job[f] = "failed" /\ stalls[f] <= MaxStalls /\ f \notin broke => meta[f] = "error"

\* Files whose analysis still owes the counter a decrement.
Owing ==
    {f \in Files : \/ job[f] = "waiting"
                   \/ at[f] \in {"fetch", "analyze", "decr"}
                   \/ \E c \in Calls : pc[c] = "add" /\ arg[c] = f}

\* The fan-in counter never exceeds the decrements still to come, so the last
\* of them finds it at zero or below and the rollup cannot be missed - even
\* though DEL may wipe an INCR and a retried file decrements again.
FanInCovered == counter <= Cardinality(Owing)

\* A file scheduled for analysis does not wait forever: the version leaves
\* PENDING, unless the file is deleted first.
LeavesPending ==
    \A f \in Files :
        (job[f] # "absent" /\ f \in rows) ~> (status # "PENDING" \/ f \notin rows)
=============================================================================
