-------------------------------- MODULE Previews --------------------------------
(***************************************************************************)
(* Derived images and models.  One part is a version's 3D files: the analyzer*)
(* writes their metadata, the rollup asks for a conversion of each, a        *)
(* conversion adds its GLB to the metadata and asks for a render, and the    *)
(* largest GLB's render becomes the asset's automatic thumbnail              *)
(* (gltf-convert.worker.ts, thumbnail-render.worker.ts).  The other part is  *)
(* the thumbnails an author uploads, of which a job makes the variants of    *)
(* fixed names (files.service.ts, thumbnail-variants.worker.ts).             *)
(*                                                                         *)
(* Jobs are BullMQ's: one per id (of a file, a GLB, a thumbnail's key) as    *)
(* long as it is retained, attempted a few times.  What is in the files and  *)
(* the images is left out.                                                   *)
(***************************************************************************)
EXTENDS Naturals, FiniteSets

CONSTANTS
    Models,         \* convertible files of the version
    Weight,         \* their vertices
    Huge,           \* those above MAX_PRE_COMPRESSION_BYTES
    Uploads,        \* thumbnails the author uploads
    Sizes,          \* variants, in the order they are made: 1 .. 6 in the code
    Nothing,
    MaxAnalyses, MaxCompletions     \* bounds: analyses of a file, completions

ASSUME PreviewsAssumption ==
    /\ Weight \in [Models -> Nat] /\ Huge \subseteq Models /\ Nothing \notin Models \cup Uploads
    /\ Sizes \in Nat \ {0} /\ MaxAnalyses \in [Models -> Nat] /\ MaxCompletions \in Nat

VARIABLES
    part,           \* which part is at work: "models" or "thumbnails"
    fileMeta,       \* AssetFile.meta: the analysis it is of, webViewerGlb (webViewerSkipped
                    \* is a note that no code reads)
    analyses,       \* how often each file was analysed
    rolling,        \* whether a rollup is to come
    snap,           \* the metadata a conversion has read
    convert,        \* each file's conversion job
    render,         \* each GLB's render job
    ahead,          \* renders that began when no GLB was larger
    auto,           \* which GLB auto.webp and auto-2x.webp show
    overwrote,      \* history: files whose conversion put an older analysis back
    outdated,       \* history: a render was written after a larger GLB had come
    unrendered,     \* history: GLBs whose render was not asked for, or not again, or
                    \* which were passed over for one that a new analysis dropped
    key,            \* Asset.thumbnailKey
    variant,        \* which upload each variant shows
    vary, made,     \* each upload's variant job, and how many variants it has written
    asking,         \* uploads whose completion has yet to enqueue their job
    unvaried,       \* history: variants were written by an older key's job, or no job ran
    completions

modelVars == <<fileMeta, analyses, rolling, snap, convert, render, ahead, auto, overwrote, outdated, unrendered>>
thumbVars == <<key, variant, vary, made, asking, unvaried, completions>>
previewsVars == <<part, modelVars, thumbVars>>

NoMeta == [of |-> 0, glb |-> FALSE]
Asked(job) == IF job = "none" THEN "waiting" ELSE job

\* A failed attempt is repeated, or was the last of those allowed.
Again == {"waiting", "failed"}

PreviewsInit ==
    /\ part \in {"models", "thumbnails"}
    /\ fileMeta = [f \in Models |-> NoMeta] /\ analyses = [f \in Models |-> 0] /\ rolling = FALSE
    /\ snap = [f \in Models |-> NoMeta]
    /\ convert = [f \in Models |-> "none"]
    /\ render = [f \in Models |-> "none"] /\ ahead = {}
    /\ auto = [x \in {"1x", "2x"} |-> Nothing]
    /\ overwrote = {} /\ outdated = FALSE /\ unrendered = {}
    /\ key = Nothing /\ variant = [s \in 1 .. Sizes |-> Nothing]
    /\ vary = [u \in Uploads |-> "none"] /\ made = [u \in Uploads |-> 0]
    /\ asking = {} /\ unvaried = FALSE /\ completions = 0

-----------------------------------------------------------------------------
(* Conversions                                                             *)

\* The analyzer replaces the metadata, its GLB with them; the rollup follows the
\* last file.
AnalyzeModel(f) ==
    /\ analyses[f] < MaxAnalyses[f]
    /\ analyses' = [analyses EXCEPT ![f] = @ + 1]
    /\ fileMeta' = [fileMeta EXCEPT ![f] = [NoMeta EXCEPT !.of = analyses'[f]]]
    /\ overwrote' = overwrote \ {f} /\ rolling' = TRUE
    /\ unrendered' = IF fileMeta[f].glb
                     THEN unrendered \cup {g \in Models : render[g] = "completed" /\ Weight[g] <= Weight[f]}
                     ELSE unrendered
    /\ UNCHANGED <<snap, convert, render, auto, outdated, ahead>>

\* enqueueGltfConvert for each analysed file.
AskConversions ==
    /\ rolling /\ rolling' = FALSE
    /\ convert' = [f \in Models |-> IF analyses[f] > 0 THEN Asked(convert[f]) ELSE convert[f]]
    /\ UNCHANGED <<fileMeta, analyses, snap, render, auto, overwrote, outdated, unrendered, ahead>>

\* The file is read before it is converted.
BeginConvert(f) ==
    /\ convert[f] = "waiting"
    /\ convert' = [convert EXCEPT ![f] = IF f \in Huge THEN "marking" ELSE "converting"]
    /\ snap' = [snap EXCEPT ![f] = fileMeta[f]]
    /\ UNCHANGED <<fileMeta, analyses, rolling, render, auto, overwrote, outdated, unrendered, ahead>>

\* Its metadata is written whole, as it was read, with the GLB's key.
WriteGlb(f) ==
    /\ convert[f] = "converting"
    /\ fileMeta' = [fileMeta EXCEPT ![f] = [snap[f] EXCEPT !.glb = TRUE]]
    /\ snap' = [snap EXCEPT ![f] = NoMeta]
    /\ overwrote' = IF snap[f].of # analyses[f] THEN overwrote \cup {f} ELSE overwrote
    /\ convert' = [convert EXCEPT ![f] = "enqueueing"]
    /\ UNCHANGED <<analyses, rolling, render, auto, outdated, unrendered, ahead>>

AskRender(f) ==
    /\ convert[f] = "enqueueing"
    /\ render' = [render EXCEPT ![f] = Asked(@)]
    /\ convert' = [convert EXCEPT ![f] = "completed"]
    /\ unrendered' = IF render[f] = "none" THEN unrendered ELSE unrendered \cup {f}
    /\ UNCHANGED <<fileMeta, analyses, rolling, snap, auto, overwrote, outdated, ahead>>

\* Whatever fails, also enqueueing, is to be recorded: the file is read again.
FailConvert(f) ==
    /\ convert[f] \in {"converting", "enqueueing"}
    /\ snap' = [snap EXCEPT ![f] = fileMeta[f]]
    /\ convert' = [convert EXCEPT ![f] = "recording"]
    /\ UNCHANGED <<fileMeta, analyses, rolling, render, auto, overwrote, outdated, unrendered, ahead>>

\* markSkipped writes them whole, too; a failure is thrown again for the next attempt.
MarkSkipped(f) ==
    /\ convert[f] \in {"marking", "recording"}
    /\ fileMeta' = [fileMeta EXCEPT ![f] = snap[f]] /\ snap' = [snap EXCEPT ![f] = NoMeta]
    /\ overwrote' = IF snap[f].of # analyses[f] THEN overwrote \cup {f} ELSE overwrote
    /\ \E next \in IF convert[f] = "marking" THEN {"completed"} ELSE Again : convert' = [convert EXCEPT ![f] = next]
    /\ unrendered' = IF convert'[f] = "failed" THEN unrendered \cup {f} ELSE unrendered
    /\ UNCHANGED <<analyses, rolling, render, auto, outdated, ahead>>

\* BullMQ forgets a job a day after it completed, a week after it failed.
ForgetConvert(f) ==
    /\ convert[f] \in {"completed", "failed"}
    /\ convert' = [convert EXCEPT ![f] = "none"]
    /\ UNCHANGED <<fileMeta, analyses, rolling, snap, render, auto, overwrote, outdated, unrendered, ahead>>

-----------------------------------------------------------------------------
(* Renders                                                                 *)

\* Mutant of PickLargestGlb: the smallest is picked.
PickSmallestGlb ==
    {f \in Models : fileMeta[f].glb /\ \A g \in Models : fileMeta[g].glb => Weight[f] <= Weight[g]}

\* The GLBs with the most vertices, then bytes, among those the metadata tell of:
\* of equals, the one that the query happens to return first.
PickLargestGlb ==
    {f \in Models : fileMeta[f].glb /\ \A g \in Models : fileMeta[g].glb => Weight[g] <= Weight[f]}

Outweighed(f) == \E g \in Models : fileMeta[g].glb /\ Weight[g] > Weight[f]

\* Only the largest is rendered; a GLB that no metadata tell of is, for want of one.
BeginRender(f) ==
    /\ render[f] = "waiting"
    /\ \/ /\ f \in PickLargestGlb \/ ~\E g \in Models : fileMeta[g].glb
          /\ render' = [render EXCEPT ![f] = "rendering"]
       \/ /\ PickLargestGlb \ {f} # {}
          /\ render' = [render EXCEPT ![f] = "completed"]
    /\ ahead' = IF Outweighed(f) THEN ahead \ {f} ELSE ahead \cup {f}
    /\ UNCHANGED <<fileMeta, analyses, rolling, snap, convert, auto, overwrote, outdated, unrendered>>

\* auto.webp, auto-2x.webp, then the asset: names that all renders of the version share.
PutAuto(f, x, from, to) ==
    /\ render[f] = from
    /\ auto' = [auto EXCEPT ![x] = f]
    /\ outdated' = (outdated \/ (f \in ahead /\ Outweighed(f)))
    /\ render' = [render EXCEPT ![f] = to]
    /\ UNCHANGED <<fileMeta, analyses, rolling, snap, convert, overwrote, unrendered, ahead>>

FailRender(f) ==
    /\ render[f] \in {"rendering", "second"}
    /\ \E next \in Again : render' = [render EXCEPT ![f] = next]
    /\ UNCHANGED <<fileMeta, analyses, rolling, snap, convert, auto, overwrote, outdated, unrendered, ahead>>

-----------------------------------------------------------------------------
(* Thumbnails                                                              *)

\* completeThumbnail sets the key, then asks for the variants.
CompleteThumbnail(u) ==
    /\ u \notin asking /\ completions < MaxCompletions /\ completions' = completions + 1
    /\ key' = u /\ asking' = asking \cup {u}
    /\ unvaried' = FALSE
    /\ UNCHANGED <<variant, vary, made>>

\* The job's id is the key: there is no second job for a key that is set again.
AskVariants(u) ==
    /\ u \in asking /\ asking' = asking \ {u}
    /\ vary' = [vary EXCEPT ![u] = Asked(@)]
    /\ unvaried' = (unvaried \/ vary[u] # "none")
    /\ UNCHANGED <<key, variant, made, completions>>

BeginVariants(u) ==
    /\ vary[u] = "waiting"
    /\ vary' = [vary EXCEPT ![u] = "running"] /\ made' = [made EXCEPT ![u] = 0]
    /\ UNCHANGED <<key, variant, asking, unvaried, completions>>

\* One after the other, under names that only the asset and the size make up.
PutVariant(u) ==
    /\ vary[u] = "running" /\ made[u] < Sizes
    /\ LET s == made[u] + 1
       IN /\ variant' = [variant EXCEPT ![s] = u]
          /\ made' = [made EXCEPT ![u] = s]
          /\ vary' = [vary EXCEPT ![u] = IF s = Sizes THEN "completed" ELSE @]
          /\ unvaried' = (unvaried \/ u # key)
    /\ UNCHANGED <<key, asking, completions>>

FailVariants(u) ==
    /\ vary[u] = "running"
    /\ \E next \in Again : vary' = [vary EXCEPT ![u] = next]
    /\ UNCHANGED <<key, variant, made, asking, unvaried, completions>>

PreviewsNext ==
    \/ /\ part = "models" /\ UNCHANGED <<part, thumbVars>>
       /\ \/ AskConversions
          \/ \E f \in Models :
                 \/ AnalyzeModel(f) \/ BeginConvert(f) \/ WriteGlb(f) \/ AskRender(f)
                 \/ FailConvert(f) \/ MarkSkipped(f) \/ ForgetConvert(f)
                 \/ BeginRender(f) \/ FailRender(f)
                 \/ PutAuto(f, "1x", "rendering", "second") \/ PutAuto(f, "2x", "second", "completed")
    \/ /\ part = "thumbnails" /\ UNCHANGED <<part, modelVars>>
       /\ \E u \in Uploads :
              \/ CompleteThumbnail(u) \/ AskVariants(u) \/ BeginVariants(u)
              \/ PutVariant(u) \/ FailVariants(u)

PreviewsSpec == PreviewsInit /\ [][PreviewsNext]_previewsVars

-----------------------------------------------------------------------------
(* Properties.                                                             *)

\* A file's metadata are of its last analysis, unless a conversion that had read
\* them before wrote them after it (GltfConvertWorker.process, markSkipped).
MetaExplained == \A f \in Models \ overwrote : fileMeta[f].of = analyses[f]

\* A thumbnail that a render made shows the largest GLB ("Only the largest GLB in
\* the version becomes the preview", thumbnail-render.worker.ts), unless the
\* larger one's render is to come or has failed, or was overtaken, or it was passed
\* over for one as large, or for one that a new analysis dropped.
LargestShows ==
    \A x \in {"1x", "2x"}, g \in Models :
        auto[x] # Nothing /\ fileMeta[g].glb /\ Weight[g] > Weight[auto[x]] =>
            \/ outdated \/ g \in unrendered
            \/ render[g] \in {"waiting", "rendering", "second", "failed"}
            \/ convert[g] \notin {"none", "completed", "failed"}
            \/ \E h \in Models \ {g} : fileMeta[h].glb /\ Weight[h] >= Weight[g]

\* The variants show the thumbnail the author completed last, unless its job is
\* to come or has failed, or another key's job wrote after it, or its own ran before.
VariantsExplained ==
    \A s \in 1 .. Sizes :
        variant[s] = key \/ unvaried \/ key \in asking \/ vary[key] \in {"waiting", "running", "failed"}

PreviewsExplained == MetaExplained /\ LargestShows /\ VariantsExplained
=============================================================================
