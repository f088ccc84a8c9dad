----------------------------- MODULE Artifacts -----------------------------
(***************************************************************************)
(* Artifacts of regression runs: uploads into a bucket and into the table, *)
(* the tree a client gets of them, and the clean-up of the bucket when the *)
(* application is deleted, while uploads go on.                            *)
(*                                                                         *)
(* A storage key is a number, its place in the bucket's listing; two       *)
(* uploads whose names sanitize alike have the same.  An object's content  *)
(* is the upload that put it there.                                        *)
(*                                                                         *)
(* Abstracted: API keys, runs and scenarios (an upload that refers to none *)
(* has no effect), media types, sizes and checksums.                       *)
(***************************************************************************)
EXTENDS Naturals, FiniteSets, SequencesExt

CONSTANTS
    Uploads,     \* upload requests, one file each
    StorageKey,  \* [Uploads -> the key of the file]
    RelativePath,\* [Uploads -> the segments of its relative path]
    PageSize,    \* how many keys one ListObjectsV2 answer holds
    StorageFails \* whether the storage or the database may fail

ASSUME ArtifactsAssumption ==
    /\ StorageKey \in [Uploads -> Nat \ {0}]
    /\ RelativePath \in [Uploads -> Seq(STRING) \ {<<>>}]
    /\ PageSize \in Nat \ {0}
    /\ StorageFails \in BOOLEAN

VARIABLES
    appRow,    \* the application's row: live or gone
    upload,    \* [Uploads -> how far the request is]
    bucket,    \* [Keys -> {the upload whose file it holds}], or {}
    artifacts, \* rows of regression_artifacts, in the order of their creation
    cleanup,   \* the clean-up under way
    late       \* (ghost) uploads put into the bucket since the clean-up began

artifactVars == <<appRow, upload, bucket, artifacts, cleanup, late>>

-----------------------------------------------------------------------------
(* Types                                                                   *)

Keys == {StorageKey[u] : u \in Uploads}

ArtifactRow == [upload : Uploads, uploadStatus : {"UPLOADED", "FAILED"}]

NoCleanup == [pc |-> "none"]
Cleanup   == [pc : {"list"}, token : Nat]
             \cup [pc : {"delete"}, keys : SUBSET Keys, token : Nat, truncated : BOOLEAN]
             \cup [pc : {"drop"}]

ArtifactsTypeOK ==
    /\ appRow \in {"live", "gone"}
    /\ upload \in [Uploads -> {"idle", "put", "row", "catch", "done"}]
    /\ bucket \in [Keys -> SUBSET Uploads]
    /\ artifacts \in Seq(ArtifactRow)
    /\ cleanup \in Cleanup \cup {NoCleanup}
    /\ late \subseteq Uploads

-----------------------------------------------------------------------------
(* Uploads                                                                 *)

UploadTo(u, pc) == upload' = [upload EXCEPT ![u] = pc]

UploadRead(u) ==
    /\ upload[u] = "idle"
    /\ appRow = "live"
    /\ UploadTo(u, "put")
    /\ UNCHANGED <<appRow, bucket, artifacts, cleanup, late>>

PutObject(u) ==
    /\ bucket' = [bucket EXCEPT ![StorageKey[u]] = {u}]
    /\ late' = IF cleanup # NoCleanup \/ appRow = "gone" THEN late \cup {u} ELSE late

\* The storage stores; after an error the object may be there all the same.
UploadPut(u) ==
    /\ upload[u] = "put"
    /\ \/ PutObject(u) /\ UploadTo(u, "row")
       \/ StorageFails /\ UploadTo(u, "catch") /\ (PutObject(u) \/ UNCHANGED <<bucket, late>>)
    /\ UNCHANGED <<appRow, artifacts, cleanup>>

\* Slip: the status is stored as the API spells it.
CreatePublic(u, status) ==
    artifacts' = Append(artifacts, [upload |-> u,
                                    uploadStatus |-> IF status = "UPLOADED" THEN "uploaded" ELSE "failed"])

\* A row needs its run, and with it the application.
Create(u, status) ==
    artifacts' = Append(artifacts, [upload |-> u, uploadStatus |-> status])

UploadRow(u) ==
    /\ upload[u] = "row"
    /\ \/ appRow = "live" /\ Create(u, "UPLOADED") /\ UploadTo(u, "done")
       \/ (StorageFails \/ appRow = "gone") /\ UNCHANGED artifacts /\ UploadTo(u, "catch")
    /\ UNCHANGED <<appRow, bucket, cleanup, late>>

\* The catch block, for an error of the storage and of the first row alike.
UploadCatch(u) ==
    /\ upload[u] = "catch"
    /\ \/ appRow = "live" /\ Create(u, "FAILED")
       \/ (StorageFails \/ appRow = "gone") /\ UNCHANGED artifacts
    /\ UploadTo(u, "done")
    /\ UNCHANGED <<appRow, bucket, cleanup, late>>

-----------------------------------------------------------------------------
(* The clean-up: deleteTargetApplication, deleteProject                    *)

Stored == {k \in Keys : bucket[k] # {}}

CleanupStart ==
    /\ cleanup = NoCleanup
    /\ appRow = "live"
    /\ cleanup' = [pc |-> "list", token |-> 0]
    /\ late' = {}
    /\ UNCHANGED <<appRow, upload, bucket, artifacts>>

\* One answer: the first keys after the continuation token, in order.
Page(token) ==
    {k \in Stored : k > token /\ Cardinality({l \in Stored : l > token /\ l < k}) < PageSize}

CleanupList ==
    /\ cleanup.pc = "list"
    /\ \/ LET page == Page(cleanup.token)
          IN cleanup' = [pc |-> "delete", keys |-> page,
                         token |-> IF page = {} THEN cleanup.token ELSE Max(page),
                         truncated |-> \E k \in Stored \ page : k > cleanup.token]
       \/ StorageFails /\ cleanup' = NoCleanup
    /\ UNCHANGED <<appRow, upload, bucket, artifacts, late>>

\* One key after the other.
CleanupDelete ==
    /\ cleanup.pc = "delete" /\ cleanup.keys # {}
    /\ \/ LET k == Min(cleanup.keys)
          IN /\ bucket' = [bucket EXCEPT ![k] = {}]
             /\ cleanup' = [cleanup EXCEPT !.keys = @ \ {k}]
       \/ StorageFails /\ cleanup' = NoCleanup /\ UNCHANGED bucket
    /\ UNCHANGED <<appRow, upload, artifacts, late>>

\* Slip: one answer is taken for the whole listing.
CleanupNextNever ==
    /\ cleanup.pc = "delete" /\ cleanup.keys = {}
    /\ cleanup' = [pc |-> "drop"]
    /\ UNCHANGED <<appRow, upload, bucket, artifacts, late>>

CleanupNext ==
    /\ cleanup.pc = "delete" /\ cleanup.keys = {}
    /\ cleanup' = IF cleanup.truncated THEN [pc |-> "list", token |-> cleanup.token]
                                       ELSE [pc |-> "drop"]
    /\ UNCHANGED <<appRow, upload, bucket, artifacts, late>>

CleanupDrop ==
    /\ cleanup.pc = "drop"
    /\ appRow' = "gone"
    /\ artifacts' = <<>>
    /\ cleanup' = NoCleanup
    /\ UNCHANGED <<upload, bucket, late>>

-----------------------------------------------------------------------------
(* The tree: buildRegressionArtifactTree                                   *)

\* listArtifacts, listScenarioArtifacts: what was not stored is not listed; the kind and
\* the scenario asked for choose among the rest.
Listed == {artifacts[i] : i \in {j \in DOMAIN artifacts : artifacts[j].uploadStatus = "UPLOADED"}}

Root == <<>>

\* Slip: a folder is looked up by its name alone.
FolderByName(parts, k) == <<parts[k]>>

\* The path of the k-th folder on the way to a file.
FolderKey(parts, k) == SubSeq(parts, 1, k)

FolderNode(key)  == [type |-> "folder", path |-> key]
FileNode(a)      == [type |-> "file", artifact |-> a, path |-> RelativePath[a.upload]]
AddFolder(tree, key)     == [k \in DOMAIN tree \cup {key} |-> IF k = key THEN {} ELSE tree[k]]
AddChild(tree, at, node) == [tree EXCEPT ![at] = @ \cup {node}]

\* walk.tree: the folders there are, with their children; walk.at: where we stand.
IntoFolder(walk, key) ==
    [at   |-> key,
     tree |-> IF key \in DOMAIN walk.tree THEN walk.tree
              ELSE AddFolder(AddChild(walk.tree, walk.at, FolderNode(key)), key)]

\* Down the folders on the way to a file.
Walk(tree, parts) ==
    LET walk[k \in 0 .. Len(parts) - 1] ==
            IF k = 0 THEN [at |-> Root, tree |-> tree]
            ELSE IntoFolder(walk[k - 1], FolderKey(parts, k))
    IN walk[Len(parts) - 1]

AddArtifact(tree, a) ==
    LET walk == Walk(tree, RelativePath[a.upload])
    IN AddChild(walk.tree, walk.at, FileNode(a))

ArtifactTree(list) ==
    LET tree[n \in 0 .. Len(list)] ==
            IF n = 0 THEN [k \in {Root} |-> {}] ELSE AddArtifact(tree[n - 1], list[n])
    IN tree[Len(list)]

\* finalizeArtifactTreeNode: how many artifacts a node stands for.
ArtifactCount(tree, node) ==
    LET count[n \in {node} \cup UNION {tree[key] : key \in DOMAIN tree}] ==
            IF n.type = "file" THEN 1
            ELSE MapThenSumSet(LAMBDA child : count[child], tree[n.path])
    IN count[node]

-----------------------------------------------------------------------------
(* Specification                                                           *)

ArtifactsInit ==
    /\ appRow = "live"
    /\ upload = [u \in Uploads |-> "idle"]
    /\ bucket = [k \in Keys |-> {}]
    /\ artifacts = <<>>
    /\ cleanup = NoCleanup
    /\ late = {}

ArtifactsNext ==
    \/ \E u \in Uploads : UploadRead(u) \/ UploadPut(u) \/ UploadRow(u) \/ UploadCatch(u)
    \/ CleanupStart \/ CleanupList \/ CleanupDelete \/ CleanupNext \/ CleanupDrop

ArtifactsSpec == ArtifactsInit /\ [][ArtifactsNext]_artifactVars

-----------------------------------------------------------------------------
(* Properties                                                              *)

\* An application that is gone has left nothing in the bucket, however many pages
\* its keys filled and however often an earlier clean-up failed half-way; except
\* what an upload put there once the last clean-up had begun.
CleanupLeavesNothing ==
    appRow = "gone" => \A k \in Keys : bucket[k] \subseteq late

\* Whichever artifacts are listed, and in whichever order rows of one millisecond come:
\* every one is in the tree exactly once, in the folder its path says, and a folder
\* counts the artifacts whose paths lead through it.
TreeHoldsAll ==
    \A chosen \in SUBSET Listed : \A list \in SetToSeqs(chosen) :
        LET tree == ArtifactTree(list)
            Under(key) == {a \in chosen : IsStrictPrefix(key, RelativePath[a.upload])}
        IN /\ \A a \in chosen :
                 {key \in DOMAIN tree : FileNode(a) \in tree[key]} = {Front(RelativePath[a.upload])}
           /\ \A key \in DOMAIN tree :
                 ArtifactCount(tree, FolderNode(key)) = Cardinality(Under(key))
=============================================================================
