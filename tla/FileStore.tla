------------------------------- MODULE FileStore -------------------------------
(***************************************************************************)
(* The files of an asset's versions and the objects that hold them           *)
(* (files.service.ts; the semver edit of assets.service.ts; the creation of  *)
(* versions.service.ts).  A file's key is made of its version's prefix and   *)
(* its path when the upload is initiated, and never again: a prefix follows  *)
(* the semver, and two files may be given one path.  A purge or a forced     *)
(* deletion empties S3 of all the asset's objects and then deletes its rows, *)
(* which the rows that refer to the asset may prevent.                       *)
(*                                                                         *)
(* S3 is modelled from its use: an object per key, the last PUT wins, a      *)
(* presigned URL outlives the row it was made for.  A multipart upload puts  *)
(* its object when it is completed.  Totals are in Versions, analyses in     *)
(* AnalysisPipeline, the order of the files in FileOrder.                    *)
(***************************************************************************)
EXTENDS Naturals

CONSTANTS
    Releases,       \* versions the asset may have, in the order of their creation: 1 .. Releases
    S3Prefixes,       \* what their s3Prefix may be: one for each semver
    Paths,
    Puts,           \* uploads; the file an upload makes bears its name
    Tidiers,        \* requests that delete a file; purges and forced deletions of the asset
    NoKey

ASSUME FileStoreAssumption == NoKey \notin S3Prefixes \cup Puts /\ Releases \in Nat

VARIABLES
    prefix,         \* each version's prefix, or NoKey before it exists
    newest,         \* the version that has isLatest, whether it was published; 0 when the asset is gone
    renaming,       \* the version that an edit of the semver has found, or 0
    asset,          \* each file's row: state, version, key, and whether it has bytes
    asked,          \* each initiation: the version and its prefix, as read
    object,         \* each key's object: the upload that put it, or NoKey
    url,            \* uploads whose presigned URL is good
    tidy,           \* each deletion: step, file, keys listed
    shared,         \* history: keys given to a file while another had, could write or delete an object there
    bared           \* history: files being deleted, or there when objects of the asset were taken

filesVars == <<prefix, newest, renaming, asset, asked, object, url, tidy, shared, bared>>

Keys == S3Prefixes \X Paths
NoAssetFile == [state |-> "none", version |-> 0, key |-> NoKey, bytes |-> FALSE]
NotAsked == [version |-> 0, prefix |-> NoKey]
NoTidy == [step |-> "idle", file |-> NoKey, page |-> {}]
Live == {u \in Puts : asset[u].state \in {"pending", "complete"}}

FilesInit ==
    /\ prefix = [v \in 1 .. Releases |-> NoKey]
    /\ newest = [version |-> 1, published |-> FALSE] /\ renaming = 0
    /\ asset = [u \in Puts |-> NoAssetFile] /\ asked = [u \in Puts |-> NotAsked]
    /\ object = [k \in Keys |-> NoKey] /\ url = {}
    /\ tidy = [t \in Tidiers |-> NoTidy]
    /\ shared = {} /\ bared = {}

-----------------------------------------------------------------------------
(* Versions                                                                *)

Unused(p) == \A x \in 1 .. Releases : prefix[x] # p

\* The asset with its first version, which has isLatest; a further version, which has not.
AddVersion(v, p) ==
    /\ newest.version # 0 /\ Unused(p) /\ prefix[v] = NoKey /\ \A x \in 1 .. v - 1 : prefix[x] # NoKey
    /\ prefix' = [prefix EXCEPT ![v] = p]
    /\ UNCHANGED <<newest, renaming, asset, asked, object, url, tidy, shared, bared>>

\* A version that had a file when it was asked: isLatest is moved to it (two of them at a
\* time are in Versions).
PublishVersion(v) ==
    /\ newest.version # 0 /\ \E u \in Puts : asset[u].state # "none" /\ asset[u].version = v
    /\ newest' = [version |-> v, published |-> TRUE]
    /\ UNCHANGED <<prefix, renaming, asset, asked, object, url, tidy, shared, bared>>

\* The edit of the semver finds the version that has isLatest, and no publish of it; then
\* that version gets the prefix of its new semver, unique in the asset.
FindLatest ==
    /\ renaming = 0 /\ newest.version # 0 /\ prefix[newest.version] # NoKey /\ ~newest.published
    /\ renaming' = newest.version
    /\ UNCHANGED <<prefix, newest, asset, asked, object, url, tidy, shared, bared>>

SetPrefix(p) ==
    /\ renaming # 0 /\ renaming' = 0
    /\ prefix' = IF Unused(p) /\ newest.version # 0 THEN [prefix EXCEPT ![renaming] = p] ELSE prefix
    /\ UNCHANGED <<newest, asset, asked, object, url, tidy, shared, bared>>

-----------------------------------------------------------------------------
(* Uploads                                                                 *)

\* initiateUpload, initiateMultipart: the version is read.
AskUpload(u, v) ==
    /\ asset[u].state = "none" /\ asked[u] = NotAsked /\ prefix[v] # NoKey
    /\ asked' = [asked EXCEPT ![u] = [version |-> v, prefix |-> prefix[v]]]
    /\ UNCHANGED <<prefix, newest, renaming, asset, object, url, tidy, shared, bared>>

\* Whether another file, an upload's URL or a deletion under way has this key, or
\* an object is left under it.
InUse(k, u) ==
    \/ object[k] # NoKey
    \/ \E w \in Puts \ {u} : asset[w].key = k /\ (w \in Live \cup url \/ \E t \in Tidiers : tidy[t].file = w)

\* The row is created, then the URL is signed and the handle is kept; no row without its
\* version.
InitiateUpload(u, path) ==
    /\ asked[u] # NotAsked
    /\ IF prefix[asked[u].version] # NoKey
       THEN LET v == asked[u].version
                k == <<asked[u].prefix, path>>
            IN /\ asset' = [asset EXCEPT ![u] = [state |-> "pending", version |-> v, key |-> k, bytes |-> FALSE]]
               /\ shared' = IF InUse(k, u) THEN shared \cup {k} ELSE shared
               /\ url' = url \cup {u}
       ELSE UNCHANGED <<asset, shared, url>>
    /\ asked' = [asked EXCEPT ![u] = NotAsked]
    /\ UNCHANGED <<prefix, newest, renaming, object, tidy, bared>>

PutObject(u) ==
    /\ u \in url
    /\ object' = [object EXCEPT ![asset[u].key] = u]
    /\ UNCHANGED <<prefix, newest, renaming, asset, asked, url, tidy, shared, bared>>

ExpireUrl(u) ==
    /\ u \in url /\ url' = url \ {u}
    /\ UNCHANGED <<prefix, newest, renaming, asset, asked, object, tidy, shared, bared>>

\* Mutant of CompleteUpload: the object is not looked at.
CompleteUploadBlindly(u) ==
    /\ asset[u].state = "pending"
    /\ asset' = [asset EXCEPT ![u].state = "complete", ![u].bytes = TRUE]
    /\ UNCHANGED <<prefix, newest, renaming, asked, object, url, tidy, shared, bared>>

\* completeUpload, completeMultipart: the size is that of the key's object, if any.
CompleteUpload(u) ==
    /\ asset[u].state = "pending"
    /\ asset' = [asset EXCEPT ![u].state = "complete", ![u].bytes = object[asset[u].key] # NoKey]
    /\ UNCHANGED <<prefix, newest, renaming, asked, object, url, tidy, shared, bared>>

\* abortMultipart: the row goes; what a single PUT has uploaded stays.
AbortUpload(u) ==
    /\ asset[u].state = "pending"
    /\ asset' = [asset EXCEPT ![u].state = "gone"]
    /\ UNCHANGED <<prefix, newest, renaming, asked, object, url, tidy, shared, bared>>

-----------------------------------------------------------------------------
(* Deletions                                                               *)

\* deleteFile: the row is found, the object goes first - or stays, when S3 fails.
FindFile(t, u) ==
    /\ tidy[t] = NoTidy /\ u \in Live
    /\ tidy' = [tidy EXCEPT ![t] = [NoTidy EXCEPT !.step = "object", !.file = u]]
    /\ bared' = bared \cup {u}
    /\ UNCHANGED <<prefix, newest, renaming, asset, asked, object, url, shared>>

DeleteObject(t, ok) ==
    /\ tidy[t].step = "object"
    /\ object' = IF ok THEN [object EXCEPT ![asset[tidy[t].file].key] = NoKey] ELSE object
    /\ tidy' = [tidy EXCEPT ![t].step = "row"]
    /\ UNCHANGED <<prefix, newest, renaming, asset, asked, url, shared, bared>>

DeleteFileRow(t) ==
    /\ tidy[t].step = "row"
    /\ asset' = [asset EXCEPT ![tidy[t].file].state = "gone"]
    /\ tidy' = [tidy EXCEPT ![t] = NoTidy]
    /\ UNCHANGED <<prefix, newest, renaming, asked, object, url, shared, bared>>

\* A purge or a forced deletion of the asset: a page of the objects of all versions is
\* listed, those keys are deleted, and so on until there is none.
ListObjects(t) ==
    /\ tidy[t].step = "list" \/ (tidy[t] = NoTidy /\ newest.version # 0)
    /\ \E page \in SUBSET {k \in Keys : object[k] # NoKey} :
           /\ page = {} => \A k \in Keys : object[k] = NoKey
           /\ tidy' = [tidy EXCEPT ![t] = [NoTidy EXCEPT !.step = IF page = {} THEN "rows" ELSE "objects", !.page = page]]
    /\ UNCHANGED <<prefix, newest, renaming, asset, asked, object, url, shared, bared>>

DeleteObjects(t) ==
    /\ tidy[t].step = "objects"
    /\ object' = [k \in Keys |-> IF k \in tidy[t].page THEN NoKey ELSE object[k]]
    /\ bared' = bared \cup Live
    /\ tidy' = [tidy EXCEPT ![t] = [NoTidy EXCEPT !.step = "list"]]
    /\ UNCHANGED <<prefix, newest, renaming, asset, asked, url, shared>>

\* The asset's row goes, with those of its versions and files.
DeleteAssetRow(t) ==
    /\ tidy[t].step = "rows"
    /\ newest' = [version |-> 0, published |-> FALSE]
    /\ prefix' = [v \in 1 .. Releases |-> NoKey]
    /\ asset' = [u \in Puts |-> IF u \in Live THEN [asset[u] EXCEPT !.state = "gone"] ELSE asset[u]]
    /\ tidy' = [tidy EXCEPT ![t] = NoTidy]
    /\ UNCHANGED <<renaming, asked, object, url, shared, bared>>

\* A deletion dies or throws: S3 fails, or a download or a report of the asset
\* keeps its row, and all others with it.
DropTidy(t) ==
    /\ tidy[t] # NoTidy
    /\ tidy' = [tidy EXCEPT ![t] = NoTidy]
    /\ UNCHANGED <<prefix, newest, renaming, asset, asked, object, url, shared, bared>>

FilesNext ==
    \/ \E v \in 1 .. Releases : PublishVersion(v) \/ \E p \in S3Prefixes : AddVersion(v, p)
    \/ FindLatest
    \/ \E p \in S3Prefixes : SetPrefix(p)
    \/ \E u \in Puts :
           \/ \E v \in 1 .. Releases : AskUpload(u, v)
           \/ \E path \in Paths : InitiateUpload(u, path)
           \/ PutObject(u) \/ ExpireUrl(u) \/ CompleteUpload(u) \/ AbortUpload(u)
    \/ \E t \in Tidiers :
           \/ \E u \in Puts : FindFile(t, u)
           \/ \E ok \in BOOLEAN : DeleteObject(t, ok)
           \/ DeleteFileRow(t) \/ DropTidy(t)
           \/ ListObjects(t) \/ DeleteObjects(t) \/ DeleteAssetRow(t)

FilesSpec == FilesInit /\ [][FilesNext]_filesVars

-----------------------------------------------------------------------------
(* Properties.                                                             *)

\* A completed file that has a size has the object it was uploaded as, unless its
\* deletion has begun, it was there while a purge or a forced deletion took objects of the
\* asset, whose rows may then stay (ArchivePurgeWorker.purgeOne, forceDelete), or another
\* file was given its key: of the same path, or of a version created under the semver that
\* this one's version had before (FilesService.initiateUpload, deleteFile;
\* AssetsService.update).
FilesExplained ==
    \A u \in Puts :
        asset[u].state = "complete" /\ asset[u].bytes =>
            object[asset[u].key] = u \/ asset[u].key \in shared \/ u \in bared
=============================================================================
