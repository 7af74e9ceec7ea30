-------------------------------- MODULE Documents --------------------------------
(***************************************************************************)
(* Trees that are built or walked.  A rich-text document that a client sends *)
(* is checked and cleaned before it is stored, comes back when it is edited, *)
(* and is searched for the uploads it shows (validate.ts,                    *)
(* editor-media-gc.worker.ts).  The files of a version make the tree of its  *)
(* manifest (manifest.ts), each by its kind, which also says how it is       *)
(* analysed (kind-detector.ts, analyze.service.ts).                          *)
(*                                                                         *)
(* A state is one document or one list of files; storing a document and      *)
(* sending it again are steps.  Sizes are counted in nodes, marks and        *)
(* attributes, texts are left out, and names of files are numbers in their   *)
(* order.                                                                  *)
(***************************************************************************)
EXTENDS Naturals, FiniteSets, Sequences, SequencesExt

CONSTANTS
    Leaves,     \* nodes without content, allowed or not
    Paths,      \* paths of files: sequences of names
    MaxBytes, MaxFiles

ASSUME DocumentsAssumption == MaxBytes \in Nat /\ MaxFiles \in Nat

VARIABLES
    allowlist,  \* "full" for descriptions, "lite" for comments and release notes
    document,   \* the document sent
    stored,     \* the document stored, if it was accepted
    files,      \* the files of a version, in the order read
    manifest    \* the tree made of them

documentsVars == <<allowlist, document, stored, files, manifest>>

-----------------------------------------------------------------------------
(* Rich text                                                               *)

Lite == allowlist = "lite"
AllowedNodes ==
    {"doc", "paragraph", "text", "image", "codeBlock"} \cup IF Lite THEN {"mention"} ELSE {"heading", "video"}
AllowedMarks == {"bold", "link"} \cup IF Lite THEN {} ELSE {"highlight"}
NodeAttrs(type) ==
    CASE type = "image" -> IF Lite THEN {"src", "alt"} ELSE {"src", "alt", "width"}
      [] type = "video" -> {"src", "poster"}
      [] type = "heading" -> {"level"}
      [] OTHER -> {}
MarkAttrs(type) == IF type = "link" THEN {"href", "target", "rel"} ELSE IF type = "highlight" THEN {"color"} ELSE {}

Only(attrs, names) == [a \in DOMAIN attrs \cap names |-> attrs[a]]
Extend(attrs, a, v) == [b \in DOMAIN attrs \cup {a} |-> IF b = a THEN v ELSE attrs[b]]

RECURSIVE Everywhere(_, _)
Everywhere(Holds(_), node) == Holds(node) /\ \A i \in DOMAIN node.content : Everywhere(Holds, node.content[i])

\* What the walk objects to: a type, a mark, a heading's level.
Clean(node) ==
    /\ node.type \in AllowedNodes
    /\ \A i \in DOMAIN node.marks : node.marks[i].type \in AllowedMarks
    /\ node.type = "heading" /\ "level" \in DOMAIN node.attrs => node.attrs.level \in {"1", "2", "3"}

\* A link gets a fixed rel, and a target unless it has one.
CleanMark(mark) ==
    LET kept == Only(mark.attrs, MarkAttrs(mark.type))
        rel == Extend(kept, "rel", "noopener nofollow")
    IN [mark EXCEPT !.attrs = IF mark.type # "link" THEN kept
                              ELSE IF "target" \in DOMAIN kept THEN rel ELSE Extend(rel, "target", "_blank")]

\* The document as it is stored: attributes that are not known are dropped.
RECURSIVE Walk(_)
Walk(node) ==
    [type |-> node.type, attrs |-> Only(node.attrs, NodeAttrs(node.type)),
     marks |-> [i \in DOMAIN node.marks |-> CleanMark(node.marks[i])],
     content |-> [i \in DOMAIN node.content |-> Walk(node.content[i])]]

RECURSIVE Bytes(_)
Bytes(node) ==
    1 + Cardinality(DOMAIN node.attrs)
      + FoldSeq(LAMBDA m, n : n + 1 + Cardinality(DOMAIN m.attrs), 0, node.marks)
      + FoldSeq(LAMBDA c, n : n + Bytes(c), 0, node.content)

ValidateTipTap(doc) == doc.type = "doc" /\ Bytes(doc) <= MaxBytes /\ Everywhere(Clean, doc)

\* What the collector takes for a reference: src and href, of nodes and of marks.
Shown(attrs) == {attrs[a] : a \in DOMAIN attrs \cap {"src", "href"}} \cap {"upload", "upload2"}
RECURSIVE WalkTipTap(_)
WalkTipTap(node) ==
    Shown(node.attrs) \cup UNION {Shown(node.marks[i].attrs) : i \in DOMAIN node.marks}
        \cup UNION {WalkTipTap(node.content[i]) : i \in DOMAIN node.content}

Paragraph(leaf) == [type |-> "paragraph", attrs |-> <<>>, marks |-> <<>>, content |-> <<leaf>>]
Doc(content) == [type |-> "doc", attrs |-> <<>>, marks |-> <<>>, content |-> content]
NoDocument == Doc(<<>>)

\* A client sends a document; it sends again what was stored.
Send ==
    /\ document # NoDocument /\ ValidateTipTap(document)
    /\ stored' = Walk(document) /\ stored' # stored
    /\ UNCHANGED <<allowlist, document, files, manifest>>
Edit ==
    /\ stored # NoDocument /\ document' = stored /\ document' # document
    /\ UNCHANGED <<allowlist, stored, files, manifest>>

-----------------------------------------------------------------------------
(* The manifest                                                            *)

\* A kind for each extension, and how files of a kind are analysed.
ExtToKind ==
    [unitypackage |-> "UNITYPACKAGE", uplugin |-> "UPLUGIN", uproject |-> "UPROJECT", fbx |-> "FBX", obj |-> "OBJ",
     glb |-> "GLB", gltf |-> "GLTF", blend |-> "BLEND", mb |-> "MAYA", png |-> "TEXTURE_2D", wav |-> "AUDIO",
     mp4 |-> "VIDEO", anim |-> "ANIMATION", hlsl |-> "SHADER", cs |-> "SCRIPT_CS", md |-> "DOCUMENT", zip |-> "ARCHIVE"]
DetectKind(ext) == IF ext \in DOMAIN ExtToKind THEN ExtToKind[ext] ELSE "OTHER"

Dispatch(kind) ==
    CASE kind \in {"TEXTURE_2D", "SPRITE"} -> "image"
      [] kind = "AUDIO" -> "audio"
      [] kind = "VIDEO" -> "video"
      [] kind \in {"FBX", "OBJ", "GLB", "GLTF", "BLEND"} -> "mesh"
      [] kind = "UNITYPACKAGE" -> "dependencies"
      [] kind \in {"UPLUGIN", "UPROJECT"} -> "plugins"
      [] OTHER -> "nothing"

\* The kinds of which a GLB is made, or whose GLB is rendered.
Convertible == {"FBX", "OBJ", "BLEND", "GLTF"}

FileEntry(name, i) == [name |-> name, kind |-> "file", file |-> i, children |-> <<>>]
Dir(name, children) == [name |-> name, kind |-> "dir", file |-> 0, children |-> children]

\* Mutant of SameDir: the first child of that name, a directory or not.
SameDirAny(child, name) == child.name = name

SameDir(child, name) == child.kind = "dir" /\ child.name = name

\* A file goes down its path; directories are made on the way.
RECURSIVE InsertFile(_, _, _)
InsertFile(children, path, i) ==
    IF Len(path) = 1 THEN Append(children, FileEntry(path[1], i))
    ELSE IF \E k \in DOMAIN children : SameDir(children[k], path[1])
    THEN LET at == CHOOSE k \in DOMAIN children :
                      SameDir(children[k], path[1]) /\ \A j \in 1 .. k - 1 : ~SameDir(children[j], path[1])
         IN [children EXCEPT ![at].children = InsertFile(@, Tail(path), i)]
    ELSE Append(children, Dir(path[1], InsertFile(<<>>, Tail(path), i)))

\* Directories first, each by name.
SortsBefore(a, b) == (a.kind = "dir" /\ b.kind = "file") \/ (a.kind = b.kind /\ a.name < b.name)
RECURSIVE SortRecursive(_)
SortRecursive(children) ==
    LET sorted == SortSeq(children, SortsBefore)
    IN [k \in DOMAIN sorted |-> [sorted[k] EXCEPT !.children = SortRecursive(@)]]

BuildManifest(fs) == SortRecursive(FoldLeftDomain(LAMBDA tree, i : InsertFile(tree, fs[i], i), <<>>, fs))

\* The places in a tree: for each file its path.
RECURSIVE PlacesOf(_, _)
PlacesOf(children, above) ==
    UNION {IF children[k].kind = "file" THEN {<<children[k].file, Append(above, children[k].name)>>}
           ELSE PlacesOf(children[k].children, Append(above, children[k].name)) : k \in DOMAIN children}
RECURSIVE Count(_)
Count(children) == FoldSeq(LAMBDA c, n : n + IF c.kind = "file" THEN 1 ELSE Count(c.children), 0, children)
RECURSIVE InOrder(_)
InOrder(children) ==
    /\ \A j, k \in DOMAIN children : j < k => ~SortsBefore(children[k], children[j])
    /\ \A j, k \in DOMAIN children : j # k /\ children[j].kind = "dir" => ~SameDir(children[k], children[j].name)
    /\ \A k \in DOMAIN children : InOrder(children[k].children)

Build ==
    /\ files # <<>> /\ manifest = <<>>
    /\ manifest' = BuildManifest(files) /\ UNCHANGED <<allowlist, document, stored, files>>

DocumentsInit ==
    /\ \/ /\ document \in {Doc(<<l>>) : l \in Leaves} \cup {Doc(<<Paragraph(l), m>>) : l, m \in Leaves}
          /\ allowlist \in {"full", "lite"} /\ files = <<>>
       \/ document = NoDocument /\ allowlist = "full" /\ files \in UNION {[1 .. n -> Paths] : n \in 1 .. MaxFiles}
    /\ stored = NoDocument /\ manifest = <<>>

DocumentsNext == Send \/ Edit \/ Build
DocumentsSpec == DocumentsInit /\ [][DocumentsNext]_documentsVars

-----------------------------------------------------------------------------
(* Properties.                                                             *)

\* A stored document is clean all through, and stored unchanged when it is sent again;
\* it is refused then only if the attributes its links were given make it too big.
StoredStays ==
    /\ Everywhere(Clean, stored) /\ Walk(stored) = stored
    /\ document # NoDocument /\ stored = document => ValidateTipTap(document) \/ Bytes(document) > MaxBytes

\* The collector misses no upload a stored description shows, but for a video's poster.
RECURSIVE AllUploads(_)
AllUploads(node) ==
    {node.attrs[a] : a \in DOMAIN node.attrs \ {"poster"}}
        \cup UNION {{node.marks[i].attrs[a] : a \in DOMAIN node.marks[i].attrs} : i \in DOMAIN node.marks}
        \cup UNION {AllUploads(node.content[i]) : i \in DOMAIN node.content}
UploadsCollected == WalkTipTap(stored) = AllUploads(stored) \cap {"upload", "upload2"}

\* Every file of a version is once in its manifest, at its path, among its like in order;
\* every kind a GLB is made of is analysed as a mesh.
ManifestWhole ==
    /\ manifest # <<>> => /\ PlacesOf(manifest, <<>>) = {<<i, files[i]>> : i \in DOMAIN files}
                          /\ Count(manifest) = Len(files) /\ InOrder(manifest)
    /\ \A ext \in DOMAIN ExtToKind : DetectKind(ext) \in Convertible => Dispatch(DetectKind(ext)) = "mesh"

ContentsKept == StoredStays /\ UploadsCollected /\ ManifestWhole
=============================================================================
