---------------------------- MODULE SearchStore ----------------------------
(***************************************************************************)
(* The chunk lane of search.db under every command that opens the file:    *)
(* `build` (Phase C of Indexer::build_all), `update`                       *)
(* (indexer::incremental::update), and the two readers `search` and        *)
(* `find-related`.  Several commands may run at once, each in a process of *)
(* its own with nothing but SQLite's statement locks between them; a       *)
(* process may be killed between two statements, a statement may fail, and *)
(* the user may edit files and `repolayer.yml` at any time.                *)
(*                                                                         *)
(* Abstractions: a file's chunks are the set of their texts; repos and     *)
(* files are visited in any order; the files a build reads are those on    *)
(* disk (Phase A has just recorded them in outline.db); the files an       *)
(* update re-reads are any set of files (git chooses them); of a reader    *)
(* only its effect on the file is kept.                                    *)
(***************************************************************************)
EXTENDS SearchDb, FiniteSets

CONSTANTS
  DefaultDim,   \* embed::DIM, the width of the local potion model
  Command,      \* the commands users run, a subset of AllCommands
  Config,       \* the `embedding:` blocks users write
  MaxCommands,  \* bound: commands started
  MaxFaults,    \* bound: kills and failed statements
  MaxEdits      \* bound: edits of files and of repolayer.yml

Readers == {"search", "find-related"}
AllCommands == {"build", "update"} \cup Readers

ASSUME ConstantsAssumption ==
  /\ DefaultDim \in Dim
  /\ Command \subseteq AllCommands
  /\ "potion" \in ModelName
  /\ Config \subseteq [provider : ModelName, dim : Dim]
  /\ Config # {}
  /\ {MaxCommands, MaxFaults, MaxEdits} \subseteq Nat

VARIABLES
  disk,    \* disk[r][f]: the chunk texts of a file, {} when there is none
  config,  \* the `embedding:` block of repolayer.yml
  mem,     \* mem[p]: the locals of process p
  spent    \* how much of each bound is used up

userVars == <<disk, config>>
vars     == <<dbVars, userVars, pc, openVars, mem, spent>>

Job == [repo : Repo, files : SUBSET File]
Piece == File \X Text

Label == OpenLabel \cup {"idle", "opened", "nextJob", "chunk", "deleteVecs", "deleteRows",
                         "insert", "embed", "upsert"}

Memory == [
  cmd   : AllCommands \cup {None},
  cfg   : Config \cup {None},  \* the embedding block read at start
  todo  : SUBSET Job,          \* the jobs not begun
  repo  : Repo \cup {None},    \* the job at hand ..
  files : SUBSET File,
  goal  : SUBSET Piece,        \* .. the chunks the chunker returned for it
  work  : SUBSET Piece,        \* .. and those of them not yet inserted
  fresh : SUBSET Nat,          \* ids collected by insert_file_chunks
  ids   : SUBSET Nat,          \* `new_chunk_ids` of the repo being updated
  batch : SUBSET Vec]          \* the (id, vector) pairs about to be upserted

Blank == [cmd |-> None, cfg |-> None, todo |-> {}, repo |-> None, files |-> {},
          goal |-> {}, work |-> {}, fresh |-> {}, ids |-> {}, batch |-> {}]

Init ==
  /\ DbInit
  /\ disk \in [Repo -> [File -> SUBSET Text]]
  /\ config \in Config
  /\ mem = [p \in Proc |-> Blank]
  /\ spent = [commands |-> 0, faults |-> 0, edits |-> 0]

\* The vectors a provider returns: HTTP and Ollama answer in the configured
\* width, potion in its own whatever `embedding.dim` says.
Model(cfg) == [name |-> cfg.provider,
               dim  |-> IF cfg.provider = "potion" THEN DefaultDim ELSE cfg.dim]

\* Mutant: the update names the model differently from the build.
Potion_Renamed == [name |-> "potion-code-16m", dim |-> DefaultDim]

Potion == [name |-> "potion", dim |-> DefaultDim]

\* Mutant: ids and vectors are zipped out of step.
Encode_Misaligned(S, m) ==
  {[id |-> x.id, text |-> (CHOOSE y \in S : TRUE).text, model |-> m.name, dim |-> m.dim] :
     x \in S}

Encode(S, m) ==
  {[id |-> x.id, text |-> x.text, model |-> m.name, dim |-> m.dim] : x \in S}

\* chunker::chunk_file over the files of a job, as they are on disk now.
ChunkFiles(r, fs) == UNION {{<<f, t>> : t \in disk[r][f]} : f \in fs}

WholeRepos == {[repo |-> r, files |-> File] : r \in Repo}

-----------------------------------------------------------------------------
(* Starting and ending a command. *)

\* find-related opens with SearchStore::open, the others at the configured dim.
\* Only build creates the index: the others refuse to run before one has begun.
Start(p, c) ==
  /\ spent.commands < MaxCommands
  /\ c # "build" => spent.commands > 0
  /\ Open(p, IF c = "find-related" THEN DefaultDim ELSE config.dim)
  /\ mem' = [mem EXCEPT ![p] = [Blank EXCEPT !.cmd = c, !.cfg = config]]
  /\ spent' = [spent EXCEPT !.commands = @ + 1]
  /\ UNCHANGED userVars

OpenStep(p) ==
  /\ Opening(p)
  /\ UNCHANGED <<userVars, mem, spent>>

\* The process is gone and its memory with it.
Gone(p) ==
  /\ Goto(p, "idle")
  /\ dim' = [dim EXCEPT ![p] = None]
  /\ mem' = [mem EXCEPT ![p] = Blank]
  /\ UNCHANGED <<dbVars, lane, userVars>>

\* A reader only queries once its handle is open.
Query(p) ==
  /\ pc[p] = "opened"
  /\ mem[p].cmd \in Readers
  /\ Gone(p)
  /\ UNCHANGED spent

BeginBuild(p) ==
  /\ pc[p] = "opened"
  /\ mem[p].cmd = "build"
  /\ mem' = [mem EXCEPT ![p].todo = WholeRepos]
  /\ Goto(p, "nextJob")
  /\ UNCHANGED <<dbVars, userVars, openVars, spent>>

BeginUpdate(p) ==
  /\ pc[p] = "opened"
  /\ mem[p].cmd = "update"
  /\ \E changed \in SUBSET (Repo \X File) :
       mem' = [mem EXCEPT ![p].todo = {[repo |-> c[1], files |-> {c[2]}] : c \in changed}]
  /\ Goto(p, "nextJob")
  /\ UNCHANGED <<dbVars, userVars, openVars, spent>>

-----------------------------------------------------------------------------
(* replace_repo_chunks (build, one job per repo), and delete_file followed *)
(* by insert_file_chunks (update, one job per changed file).  A build      *)
(* chunks the repo before it deletes the old rows, an update re-reads the  *)
(* file after.                                                             *)

\* An update finishes one repo's files before it turns to the next repo.
TakeJob(p) ==
  /\ pc[p] = "nextJob"
  /\ \E j \in mem[p].todo :
       /\ mem[p].cmd = "update" => mem[p].repo \in {None, j.repo}
       /\ mem' = [mem EXCEPT ![p].todo = @ \ {j}, ![p].repo = j.repo, ![p].files = j.files]
  /\ Goto(p, IF mem[p].cmd = "build" THEN "chunk" ELSE "deleteVecs")
  /\ UNCHANGED <<dbVars, userVars, openVars, spent>>

ChunkJob(p) ==
  /\ pc[p] = "chunk"
  /\ LET pieces == ChunkFiles(mem[p].repo, mem[p].files)
     IN  mem' = [mem EXCEPT ![p].goal = pieces, ![p].work = pieces]
  /\ Goto(p, IF mem[p].cmd = "build" THEN "deleteVecs" ELSE "insert")
  /\ UNCHANGED <<dbVars, userVars, openVars, spent>>

DeleteJobVecs(p) ==
  /\ pc[p] = "deleteVecs"
  /\ DeleteVecsOf("chunk", mem[p].repo, mem[p].files)
  /\ Goto(p, "deleteRows")
  /\ UNCHANGED <<rows, nextId, columnDim, metaDim, userVars, openVars, mem, spent>>

DeleteJobRows(p) ==
  /\ pc[p] = "deleteRows"
  /\ DeleteRowsOf("chunk", mem[p].repo, mem[p].files)
  /\ Goto(p, IF mem[p].cmd = "build" THEN "insert" ELSE "chunk")
  /\ UNCHANGED <<vecs, nextId, columnDim, metaDim, userVars, openVars, mem, spent>>

InsertChunk(p) ==
  /\ pc[p] = "insert"
  /\ \E c \in mem[p].work :
       /\ InsertRow("chunk", mem[p].repo, c[1], c[2])
       /\ mem' = [mem EXCEPT ![p].work = @ \ {c}, ![p].fresh = @ \cup {nextId["chunk"]}]
  /\ UNCHANGED <<vecs, columnDim, metaDim, userVars, pc, openVars, spent>>

\* The job's locals go out of scope; an update keeps the new ids.
EndJob(p, newIds) ==
  /\ mem' = [mem EXCEPT ![p].files = {}, ![p].goal = {}, ![p].work = {}, ![p].fresh = {},
                        ![p].ids = IF mem[p].cmd = "update" THEN @ \cup newIds ELSE @]
  /\ Goto(p, "nextJob")
  /\ UNCHANGED <<dbVars, userVars, openVars>>

JobDone(p) ==
  /\ pc[p] = "insert"
  /\ mem[p].work = {}
  /\ EndJob(p, mem[p].fresh)
  /\ UNCHANGED spent

-----------------------------------------------------------------------------
(* Embedding.  A build embeds repo after repo what list_chunks returns and *)
(* gives up at the first error; an update embeds, after each repo's files, *)
(* the rows it has inserted, with potion only, and carries on after one.   *)

ChunksDone(p) ==
  /\ pc[p] = "nextJob"
  /\ mem[p].cmd = "build"
  /\ mem[p].todo = {}
  /\ mem' = [mem EXCEPT ![p].todo = WholeRepos, ![p].repo = None]
  /\ Goto(p, "embed")
  /\ UNCHANGED <<dbVars, userVars, openVars, spent>>

\* Mutant: the repo just embedded stays on the list.
EncodeRepo_Again(p) ==
  /\ pc[p] = "embed"
  /\ mem[p].cmd = "build"
  /\ \E j \in mem[p].todo :
       mem' = [mem EXCEPT
                 ![p].repo = j.repo,
                 ![p].batch = Encode(RowsOf("chunk", j.repo, File), Model(mem[p].cfg))]
  /\ Goto(p, "upsert")
  /\ UNCHANGED <<dbVars, userVars, openVars, spent>>

\* list_chunks and encode_batch for one more repo.
EncodeRepo(p) ==
  /\ pc[p] = "embed"
  /\ mem[p].cmd = "build"
  /\ \E j \in mem[p].todo :
       mem' = [mem EXCEPT
                 ![p].todo = @ \ {j}, ![p].repo = j.repo,
                 ![p].batch = Encode(RowsOf("chunk", j.repo, File), Model(mem[p].cfg))]
  /\ Goto(p, "upsert")
  /\ UNCHANGED <<dbVars, userVars, openVars, spent>>

\* The repo's files are done: SELECT id, content FROM chunks WHERE id IN (..)
EncodeFresh(p) ==
  /\ pc[p] = "nextJob"
  /\ mem[p].cmd = "update"
  /\ mem[p].repo # None
  /\ \A j \in mem[p].todo : j.repo # mem[p].repo
  /\ mem' = [mem EXCEPT
               ![p].ids = {},
               ![p].batch = Encode({x \in rows["chunk"] : x.id \in mem[p].ids}, Potion)]
  /\ Goto(p, "upsert")
  /\ UNCHANGED <<dbVars, userVars, openVars, spent>>

\* A build goes on with the next repo to embed, an update with its files.
NextRepo(p) ==
  /\ mem' = [mem EXCEPT ![p].batch = {}, ![p].repo = None]
  /\ Goto(p, IF mem[p].cmd = "build" THEN "embed" ELSE "nextJob")

\* upsert_embeddings_batch
Upsert(p) ==
  /\ pc[p] = "upsert"
  /\ UpsertVecs("chunk", mem[p].batch, dim[p])
  /\ NextRepo(p)
  /\ UNCHANGED <<rows, nextId, columnDim, metaDim, userVars, openVars, spent>>

\* No model in the cache, an encoder error or a rejected batch: the update
\* warns and goes on without vectors, the build ends (Skipped or Failed).
NotEmbedded(p) ==
  \/ /\ pc[p] \in {"embed", "upsert"}
     /\ mem[p].cmd = "build"
     /\ Gone(p)
     /\ UNCHANGED spent
  \/ /\ pc[p] = "upsert"
     /\ mem[p].cmd = "update"
     /\ NextRepo(p)
     /\ UNCHANGED <<dbVars, userVars, openVars, spent>>

\* EmbedOutcome::Done, or an update without files left.
Finish(p) ==
  /\ mem[p].todo = {}
  /\ \/ pc[p] = "embed"
     \/ pc[p] = "nextJob" /\ mem[p].cmd = "update" /\ mem[p].repo = None
  /\ Gone(p)
  /\ UNCHANGED spent

-----------------------------------------------------------------------------
(* Faults and the user. *)

Kill(p) ==
  /\ pc[p] # "idle"
  /\ spent.faults < MaxFaults
  /\ Gone(p)
  /\ spent' = [spent EXCEPT !.faults = @ + 1]

\* SQLITE_BUSY, a full disk, or a vec0 table another process has dropped:
\* both commands warn and turn to the next job; the update loses the ids of
\* the rows this job had inserted.
JobFails(p) ==
  /\ pc[p] \in {"deleteVecs", "deleteRows", "insert"}
  /\ \/ /\ spent.faults < MaxFaults
        /\ spent' = [spent EXCEPT !.faults = @ + 1]
     \/ /\ pc[p] = "deleteVecs"
        /\ columnDim["chunk"] = None
        /\ UNCHANGED spent
  /\ EndJob(p, {})

EditFile ==
  /\ spent.edits < MaxEdits
  /\ \E r \in Repo, f \in File, T \in SUBSET Text : disk' = [disk EXCEPT ![r][f] = T]
  /\ spent' = [spent EXCEPT !.edits = @ + 1]
  /\ UNCHANGED <<dbVars, config, pc, openVars, mem>>

EditConfig ==
  /\ spent.edits < MaxEdits
  /\ config' \in Config \ {config}
  /\ spent' = [spent EXCEPT !.edits = @ + 1]
  /\ UNCHANGED <<dbVars, disk, pc, openVars, mem>>

Run(p) ==
  \/ OpenStep(p) \/ Query(p) \/ BeginBuild(p) \/ BeginUpdate(p)
  \/ TakeJob(p) \/ ChunkJob(p) \/ DeleteJobVecs(p) \/ DeleteJobRows(p)
  \/ InsertChunk(p) \/ JobDone(p) \/ ChunksDone(p) \/ EncodeRepo(p) \/ EncodeFresh(p)
  \/ Upsert(p) \/ NotEmbedded(p) \/ Finish(p)

Next ==
  \/ \E p \in Proc, c \in Command : Start(p, c)
  \/ \E p \in Proc : Run(p) \/ Kill(p) \/ JobFails(p)
  \/ EditFile
  \/ EditConfig

Spec == Init /\ [][Next]_vars

\* The operating system runs every process that can take a step: statements
\* return, embedding calls time out, and no loop of a command waits.
FairSpec == Spec /\ \A p \in Proc : WF_vars(Run(p) \/ JobFails(p))

-----------------------------------------------------------------------------
(* Properties. *)

\* The types of the database, of every process and of its locals.
TypeOK ==
  /\ DbTypeOK
  /\ disk \in [Repo -> [File -> SUBSET Text]]
  /\ config \in Config
  /\ pc \in [Proc -> Label]
  /\ mem \in [Proc -> Memory]
  /\ spent \in [commands : 0..MaxCommands, faults : 0..MaxFaults, edits : 0..MaxEdits]

\* "vec0 entries don't dangle": a vector never outlives its chunk.  delete_file
\* and replace_repo_chunks keep it by deleting vectors first, an interrupted
\* delete included; it needs commands to run one at a time.
NoDanglingVec == Ids(vecs["chunk"]) \subseteq Ids(rows["chunk"])

\* The vector stored under a chunk's id encodes that chunk's text, however many
\* commands run at once: an embedding batch may be stale when it is written,
\* but AUTOINCREMENT never gives the id of a deleted chunk to another text.
VecMatchesRow ==
  \A x \in rows["chunk"], v \in vecs["chunk"] : v.id = x.id => v.text = x.text

\* A batch of vectors is computed from rows read before a long call to the
\* model and written after it, while other commands delete and insert: whatever
\* row still bears one of its ids is the row that was read.
BatchMatchesRow ==
  \A p \in Proc : \A v \in mem[p].batch :
    /\ v.id < nextId["chunk"]
    /\ \A x \in rows["chunk"] : x.id = v.id => x.text = v.text

\* When a repo's or file's chunks have been replaced the table holds exactly
\* what the chunker returned for it: nothing old, nothing twice.
ReplacedExactly ==
  \A p \in Proc :
    pc[p] = "insert" /\ mem[p].work = {} =>
      LET now == RowsOf("chunk", mem[p].repo, mem[p].files)
      IN  /\ {<<x.file, x.text>> : x \in now} = mem[p].goal
          /\ Cardinality(now) = Cardinality(mem[p].goal)

\* open_with_dim ends with both vec0 columns "sized to `dim`", and they stay so
\* while the handle is in use.
OpenedAtDim ==
  \A p \in Proc : pc[p] \notin OpenLabel \cup {"idle"} => \A l \in Lane : columnDim[l] = dim[p]

\* The same over any sequence of commands, whatever width each of them opens at,
\* as long as none of them is killed and no statement fails.
OpensAgree == spent.faults = 0 => OpenedAtDim

\* A build that reaches EmbedOutcome::Done has left every chunk of every repo
\* with a vector of the configured model, whatever earlier builds and updates
\* (other models, failed batches, lost ids) had left behind.
DoneMeansEmbedded ==
  \A p \in Proc :
    pc[p] = "embed" /\ mem[p].todo = {} =>
      /\ Ids(rows["chunk"]) = Ids(vecs["chunk"])
      /\ \A v \in vecs["chunk"] : v.model = mem[p].cfg.provider

\* An update replaces the rows of the file it is at and "unchanged files keep
\* their chunk ids stable": their rows and vectors are left alone.
UpdateIsLocal ==
  [][\A p \in Proc :
       mem[p].cmd = "update" /\ pc[p] \in {"deleteVecs", "deleteRows", "chunk", "insert"} =>
         \A x \in rows["chunk"] \ RowsOf("chunk", mem[p].repo, mem[p].files) :
           /\ x \in rows'["chunk"]
           /\ \A v \in vecs["chunk"] : v.id = x.id => v \in vecs'["chunk"]]_vars

\* Every command comes to an end.
CommandsEnd == \A p \in Proc : pc[p] # "idle" ~> pc[p] = "idle"

\* One process at a time, the chunk lane is a vector index.
VectorIndex == INSTANCE VectorIndex
  WITH rows <- rows["chunk"], vecs <- vecs["chunk"], next <- nextId["chunk"]

IsVectorIndex == VectorIndex!Spec

=============================================================================
