----------------------------- MODULE ModelCache -----------------------------
(***************************************************************************)
(* The cache of the local embedding model (search/download.rs,             *)
(* search/embed.rs, and who uses them: legacy_try_embed_potion,            *)
(* embed_chunks_if_cached, try_encode_query).  Builds, updates and queries *)
(* of several processes share one directory.  A download streams each file *)
(* into a temporary file of a fixed name and renames it; the manifest of   *)
(* hashes is written last, and not by a rename.                            *)
(*                                                                         *)
(* A path leads to an inode; a process that has a file open goes on        *)
(* writing to the inode whatever becomes of the path.  A file has two      *)
(* parts, so that it can be half written; a part holds the version of the  *)
(* model it came from.                                                     *)
(***************************************************************************)
EXTENDS Integers, Sequences, FiniteSets

CONSTANTS
    Procs,
    ModelFiles,   \* the files of the model, in the order they are downloaded
    Versions,     \* what the two sources serve; a source is taken not to change
    SameCacheDir, \* whether the directory updates look into is the one builds use
    NoManifest,   \* there is no manifest
    Torn,         \* a manifest that does not parse
    MaxCommands, MaxMishaps   \* bounds; a mishap is a kill or an error

Hole    == "hole"

NoInode == 0

FileNames == {ModelFiles[i] : i \in DOMAIN ModelFiles}

ASSUME ConstantsAssumption ==
    /\ ModelFiles \in Seq(STRING) /\ ModelFiles # <<>>
    /\ Versions \subseteq STRING \ {"hole"}
    /\ \A v \in Versions : [f \in FileNames |-> <<v, v>>] \notin {NoManifest, Torn}

Inodes    == 1..(2 * Cardinality(FileNames) + Cardinality(Procs))
Blank     == <<Hole, Hole>>

VARIABLES
    dest,      \* per file: the inode at its path in the cache
    temp,      \* per file: the inode at its temporary path
    content,   \* per inode: its two parts
    manifest,  \* NoManifest, Torn, or the hash recorded per file
    proc,
    overlap,   \* history: two processes were in ensure_model at once
    calm,      \* history: nobody disturbed the command of each process
    spent

vars == <<dest, temp, content, manifest, proc, overlap, calm, spent>>
cache == <<dest, temp, content, manifest>>

Resting == [pc |-> "rest", file |-> 1, part |-> 1, fd |-> NoInode,
            source |-> Hole, seen |-> NoManifest, outcome |-> "none", sums |-> <<>>]

Init ==
    /\ dest = [f \in FileNames |-> NoInode] /\ temp = dest
    /\ content = [i \in Inodes |-> Blank]
    /\ manifest = NoManifest
    /\ proc = [p \in Procs |-> Resting]
    /\ overlap = FALSE /\ calm = [p \in Procs |-> FALSE]
    /\ spent = [commands |-> 0, mishaps |-> 0]

Spend(what, limit) == spent[what] < limit /\ spent' = [spent EXCEPT ![what] = @ + 1]

Set(p, changes) == proc' = [proc EXCEPT ![p] = changes]
FileOf(p) == ModelFiles[proc[p].file]
Busy(p)   == proc[p].pc # "rest"
Disturb(p) == calm' = [q \in Procs |-> q = p /\ calm[q]]

-----------------------------------------------------------------------------
(* The commands.                                                           *)

(* cached_model_present: the files it looks for exist; no hash is checked. *)
ModelPresent == manifest # NoManifest /\ \A f \in FileNames : dest[f] # NoInode

(* ensure_model reads the manifest first.                                  *)
Ensure(p) ==
    /\ Set(p, [Resting EXCEPT !.pc = "verify", !.seen = manifest])
    /\ overlap' = (overlap \/ \E q \in Procs \ {p} : Busy(q))
    /\ calm' = [calm EXCEPT ![p] = TRUE]
    /\ UNCHANGED cache

Skip(p) ==
    /\ Set(p, [Resting EXCEPT !.outcome = "skipped"])
    /\ UNCHANGED <<cache, overlap, calm>>

(* legacy_try_embed_potion: mayDownload is what REPOLAYER_DOWNLOAD and     *)
(* REPOLAYER_NO_DOWNLOAD say; a model that is present is ensured whatever  *)
(* they say, which downloads it when it fails its check.                   *)
BuildEmbeds(p, mayDownload) ==
    /\ ~Busy(p) /\ Spend("commands", MaxCommands)
    /\ IF ModelPresent \/ mayDownload THEN Ensure(p) ELSE Skip(p)

(* embed_chunks_if_cached has its own idea of where the model is.          *)
UpdateEmbeds(p) ==
    /\ ~Busy(p) /\ Spend("commands", MaxCommands)
    /\ IF SameCacheDir /\ ModelPresent THEN Ensure(p) ELSE Skip(p)

(* try_encode_query and Embedder::open: no manifest; a file with a hole in *)
(* it does not parse.                                                      *)
Opens(i) == Hole \notin {content[i][1], content[i][2]}

Query(p) ==
    /\ ~Busy(p) /\ Spend("commands", MaxCommands)
    /\ Set(p, [Resting EXCEPT !.outcome =
            IF \A f \in FileNames : dest[f] # NoInode /\ Opens(dest[f]) THEN "encoded" ELSE "fallback"])
    /\ UNCHANGED <<cache, overlap, calm>>

-----------------------------------------------------------------------------
(* ensure_model.                                                           *)

Same(p) == UNCHANGED <<overlap, calm, spent>>

(* cache_is_valid: the hash of one file after the other.                   *)
Hash(i) == content[i]

(* Mutant: a file that is there is taken to be the one of the manifest.    *)
Valid_Present(p, f) == proc[p].seen \notin {NoManifest, Torn} /\ dest[f] # NoInode

Valid(p, f) ==
    /\ proc[p].seen \notin {NoManifest, Torn}
    /\ dest[f] # NoInode
    /\ Hash(dest[f]) = proc[p].seen[f]

(* select_source, whichever of the two it finds.                           *)
Downloads(p) == \E v \in Versions : Set(p, [Resting EXCEPT !.pc = "create", !.source = v])

VerifyFile(p) ==
    /\ proc[p].pc = "verify" /\ proc[p].file \in DOMAIN ModelFiles
    /\ IF Valid(p, FileOf(p))
       THEN Set(p, [proc[p] EXCEPT !.file = @ + 1])
       ELSE Downloads(p)
    /\ UNCHANGED cache /\ Same(p)

Verified(p) ==
    /\ proc[p].pc = "verify" /\ proc[p].file \notin DOMAIN ModelFiles
    /\ Set(p, [Resting EXCEPT !.outcome = "ready"])
    /\ UNCHANGED cache /\ Same(p)

(* download_to: File::create empties a temporary file that is there.       *)
Used == {dest[f] : f \in FileNames} \cup {temp[f] : f \in FileNames} \cup {proc[q].fd : q \in Procs}
NewInode(i) == i \notin Used /\ \A j \in Inodes \ Used : i <= j

(* Mutant: the download goes straight to the file in the cache.            *)
CreateTemp_InPlace(p) ==
    /\ proc[p].pc = "create"
    /\ \E i \in Inodes :
           /\ IF dest[FileOf(p)] # NoInode THEN i = dest[FileOf(p)] ELSE NewInode(i)
           /\ dest' = [dest EXCEPT ![FileOf(p)] = i]
           /\ temp' = [temp EXCEPT ![FileOf(p)] = i]
           /\ content' = [content EXCEPT ![i] = Blank]
           /\ Set(p, [proc[p] EXCEPT !.pc = "stream", !.part = 1, !.fd = i])
    /\ Disturb(p)
    /\ UNCHANGED <<manifest, overlap, spent>>

CreateTemp(p) ==
    /\ proc[p].pc = "create"
    /\ \E i \in Inodes :
           /\ IF temp[FileOf(p)] # NoInode THEN i = temp[FileOf(p)] ELSE NewInode(i)
           /\ temp' = [temp EXCEPT ![FileOf(p)] = i]
           /\ content' = [content EXCEPT ![i] = Blank]
           /\ Set(p, [proc[p] EXCEPT !.pc = "stream", !.part = 1, !.fd = i])
    /\ Disturb(p)
    /\ UNCHANGED <<dest, manifest, overlap, spent>>

WriteChunk(p) ==
    /\ proc[p].pc = "stream" /\ proc[p].part <= 2
    /\ content' = [content EXCEPT ![proc[p].fd][proc[p].part] = proc[p].source]
    /\ Set(p, [proc[p] EXCEPT !.part = @ + 1])
    /\ Disturb(p)
    /\ UNCHANGED <<dest, temp, manifest, overlap, spent>>

(* The rename takes whatever is at the temporary path, and the hash is     *)
(* that of the stream; the next file, or the manifest.                     *)
NextFile(p) ==
    [proc[p] EXCEPT !.pc = IF proc[p].file = Len(ModelFiles) THEN "truncate" ELSE "create",
                    !.file = @ + 1, !.fd = NoInode,
                    !.sums = Append(@, <<proc[p].source, proc[p].source>>)]

Rename(p) ==
    /\ proc[p].pc = "stream" /\ proc[p].part > 2 /\ temp[FileOf(p)] # NoInode
    /\ dest' = [dest EXCEPT ![FileOf(p)] = temp[FileOf(p)]]
    /\ temp' = [temp EXCEPT ![FileOf(p)] = NoInode]
    /\ Set(p, NextFile(p))
    /\ Disturb(p)
    /\ UNCHANGED <<content, manifest, overlap, spent>>

(* Another process has renamed the file away: an error.                    *)
(* Mutant: the rename is tried again, for ever.                            *)
RenameFails_Retries(p) ==
    /\ proc[p].pc = "stream" /\ proc[p].part > 2 /\ temp[FileOf(p)] = NoInode
    /\ Set(p, proc[p])
    /\ UNCHANGED cache /\ Same(p)

RenameFails(p) ==
    /\ proc[p].pc = "stream" /\ proc[p].part > 2 /\ temp[FileOf(p)] = NoInode
    /\ Set(p, [Resting EXCEPT !.outcome = "failed"])
    /\ UNCHANGED cache /\ Same(p)

(* fs::write: the file is empty before it is written.                      *)
TruncateManifest(p) ==
    /\ proc[p].pc = "truncate"
    /\ manifest' = Torn
    /\ Set(p, [proc[p] EXCEPT !.pc = "manifest"])
    /\ Disturb(p)
    /\ UNCHANGED <<dest, temp, content, overlap, spent>>

WriteManifest(p) ==
    /\ proc[p].pc = "manifest"
    /\ manifest' = [f \in FileNames |->
            proc[p].sums[CHOOSE i \in DOMAIN ModelFiles : ModelFiles[i] = f]]
    /\ Set(p, [Resting EXCEPT !.outcome = "ready"])
    /\ Disturb(p)
    /\ UNCHANGED <<dest, temp, content, overlap, spent>>

(* A kill, or an error of the network or the disk.                         *)
Stops(p) ==
    /\ Busy(p) /\ Spend("mishaps", MaxMishaps)
    /\ Set(p, [Resting EXCEPT !.outcome = "failed"])
    /\ UNCHANGED <<cache, overlap, calm>>

Step(p) ==
    \/ VerifyFile(p) \/ Verified(p) \/ CreateTemp(p) \/ WriteChunk(p)
    \/ Rename(p) \/ RenameFails(p) \/ TruncateManifest(p) \/ WriteManifest(p)

Next == \E p \in Procs :
    \/ \E mayDownload \in BOOLEAN : BuildEmbeds(p, mayDownload)
    \/ UpdateEmbeds(p) \/ Query(p) \/ Step(p) \/ Stops(p)

(* Requests have a timeout and the system schedules every process.         *)
Spec == Init /\ [][Next]_vars /\ \A p \in Procs : WF_vars(Step(p))

-----------------------------------------------------------------------------
(***************************************************************************)
(* As long as no two downloads overlap, a file in the cache is complete    *)
(* and of one version, whatever was killed when: queries, which check no   *)
(* hash, never load a broken file (download_to, try_encode_query).         *)
(***************************************************************************)
FilesWholeAlone ==
    ~overlap => \A f \in FileNames : dest[f] # NoInode =>
        content[dest[f]][1] = content[dest[f]][2] /\ Opens(dest[f])

(***************************************************************************)
(* ensure_model that nobody disturbs returns only when every file is what  *)
(* the manifest says and all are of one download, whatever earlier crashes *)
(* and overlaps left in the cache: a cache repairs itself (cache_is_valid).*)
(***************************************************************************)
Whole ==
    /\ manifest \notin {NoManifest, Torn}
    /\ \A f, g \in FileNames : dest[f] # NoInode /\ Hash(dest[f]) = manifest[g]

Returns(p) == Busy(p) /\ proc'[p].outcome = "ready"

EnsuredIsWhole == [][\A p \in Procs : Returns(p) /\ calm'[p] => Whole']_vars

(***************************************************************************)
(* Whoever begins to verify or download comes to an end (ensure_model).    *)
(***************************************************************************)
EnsureEnds == \A p \in Procs : Busy(p) ~> ~Busy(p)
=============================================================================
