------------------------------ MODULE SearchDb ------------------------------
(***************************************************************************)
(* `.repolayer/search.db`: the SQLite file behind src/search/store.rs and  *)
(* src/search/store_summary.rs, and the handler every command runs first,  *)
(* `SearchStore::open_with_dim`.                                           *)
(*                                                                         *)
(* The file holds two lanes of the same shape: rows of text keyed by an    *)
(* AUTOINCREMENT id (`chunks`, `summary_chunks`) and a vec0 table keyed by *)
(* the same id (`chunk_vec`, `summary_vec`).  vec0 has no foreign keys, so *)
(* nothing but the code keeps a lane's two tables in step.                 *)
(*                                                                         *)
(* The connection is in autocommit mode: outside `upsert_embeddings_batch` *)
(* every statement commits on its own.  A state of this module is what is  *)
(* committed, and a step of a process is one statement.                    *)
(***************************************************************************)
EXTENDS Naturals

CONSTANTS
  Proc,        \* the processes: every invocation of `repolayer` is one
  Repo, File,  \* workspace repos, and the files of a repo
  Text,        \* contents of a chunk or of a summary
  ModelName,   \* the embedding models a vector may come from
  Dim,         \* vector widths
  None         \* SQL NULL, a table that does not exist, no value

ASSUME NoneAssumption == None \notin Dim \cup Repo

Lane == {"chunk", "summary"}

Row == [id : Nat, repo : Repo, file : File, text : Text]

\* A row of a vec0 table: which text a model of which width encoded.
Vec == [id : Nat, text : Text, model : ModelName, dim : Dim]

VARIABLES
  rows,       \* rows[l]      : the text table of lane l
  vecs,       \* vecs[l]      : the rows of the vec0 table of lane l
  nextId,     \* nextId[l]    : the lane's sqlite_sequence
  columnDim,  \* columnDim[l] : width of the vec0 column, None if no table
  metaDim,    \* metaDim[l]   : `meta.dim` / `meta.summary_dim`
  pc,         \* pc[p]        : the statement process p is about to run
  lane,       \* lane[p]      : the lane `open_with_dim` is busy with
  dim         \* dim[p]       : `SearchStore.dim` of p's handle

tables   == <<rows, vecs, nextId>>
dbVars   == <<rows, vecs, nextId, columnDim, metaDim>>
openVars == <<lane, dim>>

DbTypeOK ==
  /\ rows \in [Lane -> SUBSET Row]
  /\ vecs \in [Lane -> SUBSET Vec]
  /\ nextId \in [Lane -> Nat]
  /\ columnDim \in [Lane -> Dim \cup {None}]
  /\ metaDim \in [Lane -> Dim \cup {None}]
  /\ lane \in [Proc -> Lane]
  /\ dim \in [Proc -> Dim \cup {None}]

\* No file yet: `Connection::open` creates an empty database.
DbInit ==
  /\ rows = [l \in Lane |-> {}]
  /\ vecs = [l \in Lane |-> {}]
  /\ nextId = [l \in Lane |-> 1]
  /\ columnDim = [l \in Lane |-> None]
  /\ metaDim = [l \in Lane |-> None]
  /\ pc = [p \in Proc |-> "idle"]
  /\ lane = [p \in Proc |-> "chunk"]
  /\ dim = [p \in Proc |-> None]

Goto(p, label) == pc' = [pc EXCEPT ![p] = label]

-----------------------------------------------------------------------------
(* The statements. *)

Ids(S) == {x.id : x \in S}

\* SELECT .. FROM chunks WHERE repo = r AND path IN fs
RowsOf(l, r, fs) == {x \in rows[l] : x.repo = r /\ x.file \in fs}

\* Mutant: a replaced or deleted file keeps its vectors.
DeleteVecsOf_Nothing(l, r, fs) == columnDim[l] # None /\ UNCHANGED vecs

\* DELETE FROM chunk_vec WHERE rowid IN (SELECT id FROM chunks WHERE ..)
DeleteVecsOf(l, r, fs) ==
  /\ columnDim[l] # None
  /\ vecs' = [vecs EXCEPT ![l] = {v \in @ : v.id \notin Ids(RowsOf(l, r, fs))}]

\* Mutants: the rows are left in place; the path is missing from the WHERE.
DeleteRowsOf_Nothing(l, r, fs) == UNCHANGED rows
DeleteRowsOf_WholeRepo(l, r, fs) == rows' = [rows EXCEPT ![l] = @ \ RowsOf(l, r, File)]

\* DELETE FROM chunks WHERE ..
DeleteRowsOf(l, r, fs) == rows' = [rows EXCEPT ![l] = @ \ RowsOf(l, r, fs)]

\* Mutant: INTEGER PRIMARY KEY without AUTOINCREMENT, largest live id plus one.
InsertRow_NoAutoincrement(l, r, f, t) ==
  LET used == {0} \cup Ids(rows[l])
      i == 1 + CHOOSE m \in used : \A n \in used : n <= m
  IN  /\ rows' = [rows EXCEPT ![l] = @ \cup {[id |-> i, repo |-> r, file |-> f, text |-> t]}]
      /\ nextId' = [nextId EXCEPT ![l] = i + 1]

\* INSERT INTO chunks(..); `last_insert_rowid` is nextId[l].
InsertRow(l, r, f, t) ==
  /\ rows' = [rows EXCEPT
                ![l] = @ \cup {[id |-> nextId[l], repo |-> r, file |-> f, text |-> t]}]
  /\ nextId' = [nextId EXCEPT ![l] = @ + 1]

\* Mutant: INSERT OR IGNORE.
UpsertVecs_Ignore(l, batch, handleDim) ==
  /\ columnDim[l] # None
  /\ \A v \in batch : v.dim = handleDim /\ v.dim = columnDim[l]
  /\ vecs' = [vecs EXCEPT ![l] = @ \cup {v \in batch : v.id \notin Ids(@)}]

\* INSERT OR REPLACE INTO chunk_vec for a whole batch, in one transaction:
\* the handle checks the length of every vector before it begins, vec0
\* checks each against its column, and one refusal undoes the batch.
UpsertVecs(l, batch, handleDim) ==
  /\ columnDim[l] # None
  /\ \A v \in batch : v.dim = handleDim /\ v.dim = columnDim[l]
  /\ vecs' = [vecs EXCEPT ![l] = {v \in @ : v.id \notin Ids(batch)} \cup batch]

-----------------------------------------------------------------------------
(* SearchStore::open_with_dim(path, d), once per lane: read the recorded   *)
(* width, drop the vec0 table if it differs, create it if it is not there, *)
(* record the width.  The `chunks` lane comes first.                       *)

\* Connection::open and SCHEMA_V1, for a handle of width d.
Open(p, d) ==
  /\ pc[p] = "idle"
  /\ dim' = [dim EXCEPT ![p] = d]
  /\ lane' = [lane EXCEPT ![p] = "chunk"]
  /\ Goto(p, "readDim")
  /\ UNCHANGED dbVars

\* Mutant: a table of another width is not dropped.
ReadDim_KeepTable(p) ==
  /\ pc[p] = "readDim"
  /\ Goto(p, "createTable")
  /\ UNCHANGED <<dbVars, openVars>>

ReadDim(p) ==
  /\ pc[p] = "readDim"
  /\ Goto(p, IF metaDim[lane[p]] # dim[p] THEN "dropTable" ELSE "createTable")
  /\ UNCHANGED <<dbVars, openVars>>

\* DROP TABLE IF EXISTS chunk_vec
DropTable(p) ==
  /\ pc[p] = "dropTable"
  /\ vecs' = [vecs EXCEPT ![lane[p]] = {}]
  /\ columnDim' = [columnDim EXCEPT ![lane[p]] = None]
  /\ Goto(p, "createTable")
  /\ UNCHANGED <<rows, nextId, metaDim, openVars>>

\* CREATE VIRTUAL TABLE IF NOT EXISTS chunk_vec USING vec0(embedding float[dim])
CreateTable(p) ==
  /\ pc[p] = "createTable"
  /\ columnDim' = [columnDim EXCEPT ![lane[p]] = IF @ = None THEN dim[p] ELSE @]
  /\ Goto(p, "writeDim")
  /\ UNCHANGED <<tables, metaDim, openVars>>

\* INSERT OR REPLACE INTO meta('dim'); after the summary lane the handle is open.
WriteDim(p) ==
  /\ pc[p] = "writeDim"
  /\ metaDim' = [metaDim EXCEPT ![lane[p]] = dim[p]]
  /\ lane' = [lane EXCEPT ![p] = "summary"]
  /\ Goto(p, IF lane[p] = "chunk" THEN "readDim" ELSE "opened")
  /\ UNCHANGED <<tables, columnDim, dim>>

Opening(p) == ReadDim(p) \/ DropTable(p) \/ CreateTable(p) \/ WriteDim(p)

OpenLabel == {"readDim", "dropTable", "createTable", "writeDim"}

=============================================================================
