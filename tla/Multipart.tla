-------------------------------- MODULE Multipart --------------------------------
(***************************************************************************)
(* One upload in parts (files.service.ts over s3.service.ts): its row, its   *)
(* handle in Redis, S3's upload with the parts that have arrived, and the    *)
(* object they make.  Completion asks S3 which parts there are, has them     *)
(* assembled, measures the object and drops the handle; an abort or a        *)
(* deletion of the file may cross it, any request may die or throw at any    *)
(* step, and S3 may fail a call whose error is swallowed.                    *)
(*                                                                         *)
(* S3 is modelled from this use: an upload that was completed or aborted can *)
(* be neither listed nor completed, and aborting it again changes nothing.   *)
(* Totals are in Versions, keys in FileStore, analysis in AnalysisPipeline.  *)
(***************************************************************************)
EXTENDS Naturals

CONSTANTS
    PartCount,
    Callers         \* requests after the one that initiates the upload

ASSUME MultipartAssumption == PartCount \in Nat \ {0} /\ 0 \notin Callers

Parts == 1 .. PartCount

VARIABLES
    fileRow,        \* the file's row: whether it is there, the parts in the size it has
    uploadHandle,   \* whether Redis has the handle
    upload,         \* S3's upload
    arrived,        \* its parts
    signed,         \* parts with a URL that is good
    assembled,      \* whether there is an object, and the parts it is made of
    call,           \* each request: its step and the parts it was told of
    broken,         \* history: a request died or threw, or the handle expired
    swallowed,      \* history: a call failed and the request went on as if it had not
    hasty,          \* history: a completion was begun before all parts had arrived
    crossed         \* history: the file was deleted or aborted while another request ran or parts were out

partsVars == <<fileRow, uploadHandle, upload, arrived, signed, assembled, call, broken, swallowed, hasty, crossed>>

Initiator == 0
Uploaders == {Initiator} \cup Callers
Idle == [step |-> "idle", parts |-> {}]
NoObject == [there |-> FALSE, parts |-> {}]
Quiet == \A c \in Uploaders : call[c] = Idle

PartsInit ==
    /\ fileRow = [state |-> "none", parts |-> {}] /\ uploadHandle = FALSE
    /\ upload = "none" /\ arrived = {} /\ signed = {} /\ assembled = NoObject
    /\ call = [c \in Uploaders |-> Idle]
    /\ broken = FALSE /\ swallowed = FALSE /\ hasty = FALSE /\ crossed = FALSE

Proceed(c, step) == call' = [call EXCEPT ![c] = IF step = "idle" THEN Idle ELSE [@ EXCEPT !.step = step]]
Ending == {"abort", "delete, drop", "delete object", "delete"}
History == <<broken, swallowed, hasty, crossed>>

-----------------------------------------------------------------------------
(* initiateMultipart                                                       *)

CreateRow ==
    /\ fileRow.state = "none" /\ fileRow' = [fileRow EXCEPT !.state = "there"]
    /\ Proceed(Initiator, "created")
    /\ UNCHANGED <<uploadHandle, upload, arrived, signed, assembled, History>>

CreateMultipart ==
    /\ call[Initiator].step = "created" /\ upload' = "open" /\ signed' = Parts
    /\ Proceed(Initiator, "signed")
    /\ UNCHANGED <<fileRow, uploadHandle, arrived, assembled, History>>

SaveHandle ==
    /\ call[Initiator].step = "signed" /\ uploadHandle' = TRUE
    /\ Proceed(Initiator, "idle")
    /\ UNCHANGED <<fileRow, upload, arrived, signed, assembled, History>>

-----------------------------------------------------------------------------
(* Parts                                                                   *)

\* The client has the URLs once it was answered.
PutPart(p) ==
    /\ p \in signed /\ upload = "open" /\ call[Initiator] = Idle
    /\ arrived' = arrived \cup {p}
    /\ UNCHANGED <<fileRow, uploadHandle, upload, signed, assembled, call, History>>

ExpireUrls ==
    /\ signed # {} /\ call[Initiator] = Idle /\ signed' = {}
    /\ UNCHANGED <<fileRow, uploadHandle, upload, arrived, assembled, call, History>>

SignMultipartParts(S) ==
    /\ uploadHandle /\ S \ signed # {} /\ signed' = signed \cup S
    /\ UNCHANGED <<fileRow, uploadHandle, upload, arrived, assembled, call, History>>

-----------------------------------------------------------------------------
(* completeMultipart                                                       *)

\* loadHandle: without a handle the request is refused.
Load(c, step) ==
    /\ call[c] = Idle /\ uploadHandle /\ Proceed(c, step)
    /\ UNCHANGED <<fileRow, uploadHandle, upload, arrived, signed, assembled>>

BeginComplete(c) ==
    /\ Load(c, "list")
    /\ crossed' = (crossed \/ \E d \in Callers : call[d].step \in Ending)
    /\ UNCHANGED <<broken, swallowed, hasty>>

ListParts(c) ==
    /\ call[c].step = "list"
    /\ IF upload = "open" /\ arrived # {}
       THEN call' = [call EXCEPT ![c] = [step |-> "assemble", parts |-> arrived]] /\ hasty' = (hasty \/ arrived # Parts)
       ELSE Proceed(c, "idle") /\ UNCHANGED hasty
    /\ UNCHANGED <<fileRow, uploadHandle, upload, arrived, signed, assembled, broken, swallowed, crossed>>

AssembleParts(c) ==
    /\ call[c].step = "assemble"
    /\ IF upload = "open"
       THEN /\ upload' = "completed" /\ assembled' = [there |-> TRUE, parts |-> call[c].parts]
            /\ Proceed(c, "measure")
       ELSE Proceed(c, "idle") /\ UNCHANGED <<upload, assembled>>
    /\ UNCHANGED <<fileRow, uploadHandle, arrived, signed, History>>

\* headObject, then the row's update, which throws when the row is gone.
MeasureObject(c) ==
    /\ call[c].step = "measure"
    /\ IF fileRow.state = "there"
       THEN fileRow' = [fileRow EXCEPT !.parts = assembled.parts] /\ Proceed(c, "drop")
       ELSE Proceed(c, "idle") /\ UNCHANGED fileRow
    /\ UNCHANGED <<uploadHandle, upload, arrived, signed, assembled, History>>

DropHandleOf(c) ==
    /\ call[c].step = "drop" /\ uploadHandle' = FALSE /\ Proceed(c, "idle")
    /\ UNCHANGED <<fileRow, upload, arrived, signed, assembled, History>>

-----------------------------------------------------------------------------
(* abortMultipart, deleteFile                                              *)

\* A request that ends the file meets another one, or parts still to be assembled.
Crossing(c) == crossed' = (crossed \/ \E d \in Uploaders \ {c} : call[d] # Idle)

BeginAbort(c) == Load(c, "abort") /\ Crossing(c) /\ UNCHANGED <<broken, swallowed, hasty>>

\* Mutant of AbortAtS3: only the row and the handle are given up.
AbortAtS3Never(c) ==
    /\ call[c].step = "abort" /\ Proceed(c, "delete, drop")
    /\ UNCHANGED <<fileRow, uploadHandle, upload, arrived, signed, assembled, History>>

AbortAtS3(c) ==
    /\ call[c].step = "abort" /\ Proceed(c, "delete, drop")
    /\ upload' = IF upload = "open" THEN "aborted" ELSE upload
    /\ UNCHANGED <<fileRow, uploadHandle, arrived, signed, assembled, History>>

BeginDelete(c) ==
    /\ call[c] = Idle /\ fileRow.state = "there" /\ Proceed(c, "delete object")
    /\ crossed' = (crossed \/ upload \in {"none", "open"} \/ \E d \in Uploaders : call[d] # Idle)
    /\ UNCHANGED <<fileRow, uploadHandle, upload, arrived, signed, assembled, broken, swallowed, hasty>>

DeleteTheObject(c) ==
    /\ call[c].step = "delete object" /\ assembled' = NoObject /\ Proceed(c, "delete")
    /\ UNCHANGED <<fileRow, uploadHandle, upload, arrived, signed, History>>

DeleteTheRow(c) ==
    /\ call[c].step \in {"delete", "delete, drop"}
    /\ fileRow' = [state |-> "gone", parts |-> {}]
    /\ Proceed(c, IF call[c].step = "delete" THEN "idle" ELSE "drop")
    /\ UNCHANGED <<uploadHandle, upload, arrived, signed, assembled, History>>

\* What fails and is swallowed, the request going on: the abort and the deletion at S3, the
\* deletion of the row by an abort, and headObject, for which the row has 0 bytes.
Swallow(c) ==
    /\ \/ call[c].step = "abort" /\ Proceed(c, "delete, drop") /\ UNCHANGED fileRow
       \/ call[c].step = "delete, drop" /\ Proceed(c, "drop") /\ UNCHANGED fileRow
       \/ call[c].step = "delete object" /\ Proceed(c, "delete") /\ UNCHANGED fileRow
       \/ /\ call[c].step = "measure" /\ fileRow.state = "there"
          /\ fileRow' = [fileRow EXCEPT !.parts = {}] /\ Proceed(c, "drop")
    /\ swallowed' = TRUE
    /\ UNCHANGED <<uploadHandle, upload, arrived, signed, assembled, broken, hasty, crossed>>

\* A request dies or throws at the step it has come to; the handle's hours are over.
Die(c) ==
    /\ call[c] # Idle /\ Proceed(c, "idle") /\ broken' = TRUE
    /\ UNCHANGED <<fileRow, uploadHandle, upload, arrived, signed, assembled, swallowed, hasty, crossed>>

HandleExpires ==
    /\ uploadHandle /\ uploadHandle' = FALSE /\ broken' = TRUE
    /\ UNCHANGED <<fileRow, upload, arrived, signed, assembled, call, swallowed, hasty, crossed>>

PartsNext ==
    \/ CreateRow \/ CreateMultipart \/ SaveHandle \/ ExpireUrls \/ HandleExpires
    \/ \E p \in Parts : PutPart(p)
    \/ \E S \in SUBSET Parts : SignMultipartParts(S)
    \/ \E c \in Callers :
           \/ BeginComplete(c) \/ ListParts(c) \/ AssembleParts(c) \/ MeasureObject(c) \/ DropHandleOf(c)
           \/ BeginAbort(c) \/ AbortAtS3(c) \/ BeginDelete(c) \/ DeleteTheObject(c) \/ DeleteTheRow(c)
           \/ Swallow(c)
    \/ \E c \in Uploaders : Die(c)

PartsSpec == PartsInit /\ [][PartsNext]_partsVars

-----------------------------------------------------------------------------
(* Properties.                                                             *)

\* The size in a file's row is that of its object, and of all its parts unless the upload
\* was completed too soon: nobody compares the parts S3 lists with those initiated.  When
\* no request runs, an object that was assembled has been measured, and a file that is
\* gone has left neither an object nor an upload that S3 keeps the parts of - unless a
\* request died, the handle expired, the file went while it was being uploaded or
\* completed, or S3 failed to measure, delete or abort: deleteFile then deletes the row all
\* the same (FilesService.completeMultipart, abortMultipart, deleteFile; S3Service).
PartsExplained ==
    /\ fileRow.parts # {} => fileRow.parts = Parts \/ hasty
    /\ fileRow.parts # {} => assembled.parts = fileRow.parts \/ (\E c \in Callers : call[c].step = "delete") \/ broken
    /\ Quiet /\ ~broken /\ ~swallowed /\ ~crossed =>
           /\ fileRow.state = "there" /\ assembled.there => fileRow.parts = assembled.parts
           /\ fileRow.state = "gone" => upload # "open" /\ ~assembled.there
=============================================================================
