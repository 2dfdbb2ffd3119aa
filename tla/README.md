# repolayer: a TLA+ model

repolayer indexes the repositories of a workspace into SQLite files and a few binary ones under
`.repolayer/` and answers questions from them. A command (`build`, `update`, `search`,
`find-related`, ...) is a process that opens the files, works, and exits. Nothing coordinates two
commands but SQLite's locks and one lock file, most writes are single autocommitted statements, and
the slow steps (asking an embedding service or a language model, downloading a model) happen between
a read and the write that depends on it. Around that lies a layer of algorithms, for import
resolution, ranking, cycles and public surfaces, whose results are hard to judge by example. The
modules here are about both.

Paths below are relative to the repository; "indexer/mod.rs" is `src/indexer/mod.rs`.

## 1. The system

| Component | State it keeps | Operations | Hard because | Correct when |
|---|---|---|---|---|
| Search store, chunk lane (`search/store.rs`) | `search.db`: `chunks`, `chunk_vec` (vec0), `meta.dim` | open, replace a repo, delete or insert a file, write embeddings | no transaction around multi-statement operations; vec0 has no foreign keys; opening may drop a table | vectors belong to rows and encode them; a replaced repo or file holds exactly its new chunks |
| Search store, summary lane (`llm/summary_store.rs`, `search/store_summary.rs`) | `summary_chunks`, `summary_vec`, `meta.summary_dim` | the summary phases of build and update | permits and spawned tasks; stale chunk lists; failures only warned about | one current, findable summary per file |
| Remote embedders (`search/http_embedder.rs`, `ollama.rs`) | permits of the rate limiter | `encode_batch`, `one_batch` | retries, fallback to single inputs, reordered or short answers | the n-th vector is the n-th input's; requests are bounded; calls return |
| Full build (`indexer/mod.rs`) | none of its own | A parse and write, B link, C chunk and embed, D summarise | warns and goes on; processes race | afterwards the stores mirror the disk |
| Incremental update (`indexer/incremental.rs`) | none of its own | `git diff HEAD`, re-index each changed file | redoes part of what a build does, with other keys and another embedder | covered files are as on disk, others as they were |
| Graph, outline and dependency stores (`graph/`, `outline/`, `deps/store.rs`) | `index.db`, `outline.db`, `deps.db` | upserts, `delete_module`, `replace_repo_graph`, `upsert_file_edges` | edges whose end is gone; rows keyed by different paths; delete and insert commit apart | rows are those of the files there are |
| Linkers and graph queries (`linker/`, `query/`) | edges of `index.db` | Calls, IDL, Imports, manual links; callers, dependencies, context | name resolution over everything; walks over cyclic graphs | links are found from both ends |
| Persistent search index (`search/index.rs`, `cache.rs`) | five files and a lock file | build, load, open | five renames under a lock that readers do not take; stat after read | a reader sees one build, of the tree as it is |
| Model download (`search/download.rs`) | the model cache and its manifest | `ensure_model` | one temporary name for all processes; hash of the stream, not of the file | a model that loads is whole |
| Ranking and fusion (`search/ranking.rs`, `fusion.rs`, `bm25.rs`, `store.rs`) | none | the three searches, find-related, find_context's fusion | early ends, ties, boosts that add hits | agrees with a definition without the shortcuts |
| Dependency extraction and resolution (`deps/extract.rs`, `deps/resolver/`, `surface/imports.rs`) | none | nine languages' imports; suffix index; resolver | several files share a suffix; every language has its own rules | an import leads to the module it means |
| Dependency algorithms (`deps/scc.rs`, `traverse.rs`, `dsm.rs`) | none | Tarjan, walks, levels | an iterative Tarjan; depth bounds | agree with their definitions |
| Public surface, Rust (`surface/rust.rs`) | none | the walk over declarations, uses and modules | mutually recursive calls, globs, cycles | what is listed is visible, what is public is listed |
| Public surface, TypeScript, Python, Scala (`surface/typescript.rs`, `python.rs`, `scala.rs`) | none | re-exports followed from file to file; `__all__` and stars; `export` clauses | aliases, defaults, stars of stars, a depth, the first candidate of several files | the same |
| Entry points (`surface/entry_point.rs`, `manifest.rs`) | none | from a path to the file a surface starts at; `exports` of a package.json | conditions and fallbacks; compiled files beside sources; workspaces | a file of its language, the source, the one the manifest means |
| Chunker (`search/chunker.rs`) | none | split points and packing | the size limit, gaps | chunks cover the source |
| Language adapters, rendering, CLI, legacy module summaries | | | | not modelled, see 7 |

How they interact. `build` runs phases A to D in that order in one process and `update` the
corresponding steps for the files git names. Both open `search.db` at the width in the
configuration, call the embedder synchronously with what `list_chunks` returned, and hand the
store's rows to the summary phase, which reads the chunk lane and writes the summary lane. `search`
and `find-related` open the same file. The graph, outline and dependency stores are written by phases
A and B and by `update`, and read by the queries; Phase C takes a file's path from the outline row,
and find_context looks a search hit up in the graph by that path. Everything is shared through
files; there are no messages between processes.

`PROJECT.json` has the hazards, each at its line, with the properties that would catch it.

## 2. Modules

| Module | What it is | Code |
|---|---|---|
| `SearchDb` | `search.db`, its statements, and opening it statement by statement | `search/store.rs`, `search/store_summary.rs` |
| `SearchStore` | every command on the chunk lane; kills, failed statements, edits | `search/store.rs`, phase C of `indexer/mod.rs`, `indexer/incremental.rs`, `cli/` |
| `SummaryLane` | both summary phases over an abridged chunk lane | `llm/summary_store.rs` |
| `VectorIndex` | abstract: texts under ids never reused, vectors attached to them | |
| `HttpEmbedder` | `encode_batch` of both remote embedders, and the limiter | `search/http_embedder.rs`, `search/ollama.rs` |
| `CodeGraph` | the code graph as a value: writes and reads of `index.db` | `graph/store.rs`, `graph/model.rs` |
| `Linkers` | what a file contributes to the graph, and the links of a build | `indexer/mod.rs`, `linker/`, `deps/mod.rs` |
| `GraphQueries` | the queries over the graph | `query/` |
| `CodeIndex` | build, update and user over graph, outline and dependency rows | `indexer/mod.rs`, `indexer/incremental.rs`, `deps/store.rs`, `outline/store.rs` |
| `IndexFiles` | the five files of the persistent index, its lock, its opens | `search/index.rs`, `search/cache.rs` |
| `ModelCache` | the model cache under several processes | `search/download.rs`, `search/embed.rs` |
| `Ranking` | from a query to a ranked list | `search/ranking.rs`, `fusion.rs`, `bm25.rs`, `tokens.rs`, `index.rs`, `store.rs`, `query/find_context.rs` |
| `DepGraphs`, `Tarjan` | the import graph; its components, one frame at a time | `deps/graph.rs`, `scc.rs` |
| `DepWalks`, `DepLevels`, `DepQueries` | walks over the import graph, one edge at a time; its levels and matrix, one importer at a time; a query of either kind | `deps/traverse.rs`, `dsm.rs` |
| `ImportStatements`, `ImportResolver` | imports as parsed to imports as resolved | `deps/extract.rs`, `surface/imports.rs`, `deps/resolver/`, `surface/module_graph.rs` |
| `Surface` | the Rust surface walk, one declaration, module, use or call at a time | `surface/rust.rs` |
| `SurfaceFacts` | what Rust makes visible in a crate, grown by rounds before the walk | |
| `ScriptSurface`, `PythonSurface`, `ScalaSurface` | the other surfaces, each a function of a package's files | `surface/typescript.rs`, `python.rs`, `scala.rs` |
| `EntryPoints`, `SourceTree` | where a surface starts; files, directories and extensions | `surface/entry_point.rs`, `manifest.rs` |
| `PackageSurfaces` | what those promise, each against its language's rule of visibility | |
| `Chunker` | split points and packing, one declaration or region at a time | `search/chunker.rs` |
| `Algorithms` | what the algorithms promise, each against a definition that does not follow the code | |
| `MC...` | values for the constants that a cfg cannot write | |
| `...Proofs` | theorems | |

`SummaryLane` and `SearchStore` are over the same `SearchDb` and implement the same `VectorIndex`;
`CodeIndex` extends `Linkers` and `GraphQueries`, which extend `CodeGraph`; `Algorithms` composes
the pure modules with `Tarjan`, `DepQueries`, `SurfaceFacts` and `Chunker`, and `PackageSurfaces` with the other
surfaces. An operator named after another with a suffix
(`DeleteModule_NoSweep`) is a plausible bug in it; no specification uses it, and it is there to
show that a property notices it.

### SearchDb and SearchStore

A *step is one SQL statement*, because that is what commits: outside `upsert_embeddings_batch`,
the code opens no transaction. `rows[l]`, `vecs[l]`, `nextId[l]`, `columnDim[l]` and `metaDim[l]`
are the tables of lane `l`; `nextId` is AUTOINCREMENT's sequence. `pc[p]` is the statement process
`p` is about to run and `mem[p]` its locals; what a process holds in `mem[p].batch` was read before a
long call and may be stale when it is written. Opening is `ReadDim`, `DropTable`, `CreateTable`,
`WriteDim` for each lane. A build takes one job per repo (chunk the files, delete vectors, delete
rows, insert), then embeds repo by repo; an update takes one job per changed file (delete, re-read,
insert), and after the files of a repo embeds the ids it has collected. `Kill` ends a process at any
statement; `JobFails` is a statement's error, after which the code warns and goes on. `EditFile` and
`EditConfig` are the user, at any time.

Abstractions. A file's chunks are the set of their texts, and repos and files are visited in any
order. The files a build reads are those on disk, and those an update re-reads are any set (which ones
git names is in `CodeIndex`). Every repo with rows is in the configuration. A
vector is described by the text, the model and the width it came from. An embedder either returns one
vector for each input or fails; the zero vectors of a remote embedder are `HttpEmbedder`'s subject. A
read of `meta.dim` does not fail. What a search reads is in `Ranking`.

### SummaryLane

The chunk lane is one row per file, rewritten in one step, since `SearchStore` has it in full. The
build clears a repo, lists its chunks and asks; the update lists a file's chunks, clears and asks;
`Ask` takes a permit, `Answer` ends a task with a summary or an error and returns the permit. Row
and vector of a summary are two statements (`InsertSummary`, `UpsertSummary`). The build stores
repo by repo, the update everything at its end. Errors: clearing is warned about, a listing
error skips the repo (build) or ends the command (update), a store or encoding error ends the
command. Each of them is a fault and counted, as `OneSummaryPerFile` and `SummaryCurrent` speak of
behaviours without one: a build of several repos whose second encoding fails leaves the second
repo's summaries as they were, over chunks it has already rewritten. A summary bears the text it is the
summary of, so that staleness shows.

### HttpEmbedder

One caller, as everywhere in the sources. `pc` is the await it is at. A call is cut into batches; a
batch passes the limiter (`Gate`, HTTP only) and the semaphore (`Permit`), and is sent up to
`MaxRetries + 1` times; a batch that fails is sent input by input, and an input that fails alone
becomes a zero vector. The two providers differ in the number of retries, in what is retried (network
errors, 5xx and 408 by both, 429 by the HTTP embedder only: `IsRetryable`), in the limiter, in the least
number of permits, in the `index` of an answer and in where the number of vectors is checked. A request may fail
whatever its inputs are, in a way that is retried (`Fault`), with a status that is not (`Denied`) or with an
answer that cannot be used (`Garbled`), or for what an input is (`Refused`). `alone` is history: how often requests
for a single input have failed in the call, by whether the failure is retried. A vector is the text it encodes. Time is counted
in intervals of the limiter. Back-off sleeps take no step.

### CodeGraph, Linkers, GraphQueries, CodeIndex

The graph is a value, two functions for the two tables, and every write and link is an operator on
it, so that `CodeIndex` has one action per step of a command that another process can come between:
the parallel parse of a repo, the writes of one file, one linker, the two halves of `reindex_file`,
and in `deps.db` deleting apart from inserting. Inside such a step the statements are one; the
failures that leave half of one are actions (`ReindexFails`, `InsertFails`, kills). A build
remembers what it parsed and writes it after other files have changed; imports are read again when they
are written, as in the code. A file's text is its declarations, its words, those that are called,
and its imports. Where a query takes the first of rows without an order, the operator is the set
of possible answers (`Picks`, `Limited`, `SearchSymbols`). `Within`, `StartsWith` and `Shadows` are the
relations between names that `LIKE`, prefixes and the scan for names (leftmost, without overlaps)
depend on. `Hidden` and `Skipped` files are those that only one of the two directory walks sees.
`WorkspaceAssumption` says what an indexed workspace is: a file lies in one configured repository
under a relative path, no two files of a repository share a path, and in a text (`IsText`) the parent of a declaration is a type declared in
the same file and what is called occurs among the words. `IdlAssumption`: an IDL method is of a
configured IDL repository, and its symbol begins with its service's name. `calm` says of the command at work that it has
run alone and nothing failed or was edited since it started; `last` names a command that
ended calm.

### IndexFiles

What is derived from the chunks stands for the chunks it was derived from. The size and the time of a
file are recorded by an action of their own, after the chunking, as the code stats after it reads.
`torn` is history: a build was stopped among its writes, by a kill or an error. So is `calm[p]`: since `p`
began to open, nobody else has written and nothing was edited; what others did before counts for nothing. The lock is a file
lock: whoever waits for it waits for ever, and the operating system frees it when its owner ends.

### ModelCache

A path leads to an inode, and a process that has a file open goes on writing the inode whatever
becomes of the path: that is what two downloads into one temporary name are about. A file has two
parts, so that it can be half written, and a part holds the version it came from. `overlap` and `calm`
are history. Of the three files of the model `config.json` is left out: it is downloaded like the others and
only they are loaded. Updates look
for the model in another directory than builds (see 5); the run gives them the same one
(`SameCacheDir = TRUE`), as the comment in the code intends, because otherwise an update takes no part.

### The algorithms

Where the code recurses or loops with an explicit stack or queue over shared state (Tarjan, the surface walk,
the walks and levels of the import graph) the model takes one step per frame, call, edge or importer, and in the
chunker one per declaration of the tree and one per region packed; everything else is an operator. The edges
of a file and the importers of one are followed in any order, as a hash map gives them, and rows are sorted
as `build` sorts them. Scores are integers
(`Units` to 1.0), and products with constant factors are rounded down; BM25 keeps its length
normalisation and saturation, with a number that falls with the document frequency for the logarithm. Embeddings are a given
similarity. A path is a sequence of segments with a stem and an extension; an import is the statement
as its syntax tree gives it. Hash-map iteration is one order it may have.

The Rust walk keeps what is left of its loops and calls as a stack of frames, the next one last: a declaration
(`Decl`), a method (`Method`), a child module (`Mod`) or a use (`Use`) of the module at hand, what a glob has
opened (`Show`, `Via`), a call of `_republish` and the uses it looks through (`Republish`, `Follow`). Beside it
`SurfaceFacts` has what Rust makes visible, as triples of a module, a name in it and the declaration it means:
what is declared public, and in rounds (`Learn`) what the public uses bring from one module into another. It
knows no visited set, order or depth, is complete when the walk begins, and the walk does not read it. A listed
name must be a fact about a module that is public from the root; the converse, that the walk lists every fact, does not hold
(see 5), but for what a public module declares itself.

The surfaces of TypeScript, Python and Scala are functions of a tree of files, each given by its declarations
and by what `imports.rs` extracts from it; an entry is a path, the declaration it shows and the files it came
through. Against them stand *facts*: what a file makes visible by the rules of its language, grown from what
every file declares through one import or re-export at a time, whatever the order and without a depth.
Every entry must be a fact, and every fact that needs no more steps than `MaxDepth` an entry, but for what
section 5 lists. A directory is read in the file system's order, so an entry point is a set of what it may be.

## 3. Runs

| Run | Instance | Shows |
|---|---|---|
| `search_sequential` | 1 process, 3 commands, 1 repo of 2 files with up to 2 chunks each, 3 configurations, 1 edit, 1 kill or failure | types; vectors do not dangle; replacing is exact; undisturbed opens agree; Done means embedded; updates are local; the lane implements `VectorIndex` |
| `search_concurrent` | 2 processes, 2 commands, 1 file of up to 2 chunks, 1 kill or failure | vectors match rows, in the table and in flight; every command ends |
| `summary_sequential` | 1 process, 3 commands, 2 repos of 1 file, 2 texts (1 of too few chunks for a build), 2 permits, 1 edit, 1 kill or failure | the lane implements `VectorIndex`; one summary per file, current and findable |
| `summary_concurrent` | 2 processes, 2 commands, 1 permit each, 1 edit, 1 kill or failure | types; a summary's vector is its own; every command ends |
| `embedder` | either provider, 3 inputs in batches of 2, 1 of them refused, 6 failures that are retried and 2 that are not, 1 malformed answer, 4 intervals | types; results aligned; a good input lacks its vector only for failures of its own request; requests bounded; the call returns |
| `code_index` | 3 repositories (2 code, 1 IDL) with 4 files, 2 builds and 1 update in any order or interleaved, 1 edit or commit, 1 kill or failure | types; an undisturbed build mirrors the disk whatever failed before; an undisturbed update mirrors what it covers and loses only edges of its own; queries agree with each other and with the links |
| `index_files` | 2 processes, 2 files, 3 opens, 1 edit, 1 kill or failure | types; the five files are of one build; an undisturbed open is exact; every open ends |
| `model_cache` | 2 processes, 2 files of 2 versions, 3 commands, 1 kill or failure | no broken file without an overlap; an undisturbed `ensure_model` repairs anything; it ends |
| `algorithms` | every import graph of 3 files and many of 4; crates of 3 modules; packages of 5 files in TypeScript and Python and of 3 in Scala; directories with up to 5 files and a manifest; tens of thousands of small inputs of the other pure algorithms | walks, levels, components, imports, ranking, chunks and surfaces agree with independent definitions; a surface starts where it should |
| `search_killed_open` | a reader killed while opening | *violated*: a later open has the wrong width |
| `context_lane` | one build | *violated*: no search hit is found in the graph |
| `surface_cycles` | two modules that glob-re-export each other | *violated*: the walk does not end |

**Bounds.** All bounds (`Max...`) are guards; everything else is unbounded in the modules and
finite because of them. Three commands are enough for a build, a disturbed command after it and one
that meets what that left; reusing an id needs a delete and an insert between another command's read and
write, so two commands. One fault at any statement reaches every partial state of one operation; two
faults in different commands are the same partial states one after the other, which the third command
meets one at a time. Two files tell apart the file at hand and the others; two texts tell a chunk from
its successor. In `search_concurrent` no file is edited, but a file's chunks are stored in any order, so
that an id that came back would come back with another text. The embedder's six faults are one more
than the attempts of a request of either kind, so that a batch and an input of its fallback can both
be hit, and two statuses that are not retried hit both at once, as two answers 429 of Ollama do; four intervals give each of the at most five calls of `one_batch` its permit, none to
spare.

In `code_index` the files are chosen for what they do to each other: a name defined once, twice or
moved, a name within another, two files of one path in two repositories, a package and an alias across
repositories, a file only the dependency walk sees, one git does not know, an IDL method with a server
and a client. One edit between the two builds or before the update changes every one of these relations. In `index_files`
two texts have different sizes and the same number of chunks, so that the one check across the files
does not notice a mixture; three opens let a third meet what two others left. In `model_cache` two
files are needed for a mixture of versions, and three commands for a query or a build after two
overlapping downloads. Tarjan needs three nodes for a component entered in its middle and four for one next to another that
is finished; the searches need three or four chunks for two of a file and a competitor.

Deadlock is not checked, as the systems stop when nothing is left to run or a bound is reached; the
liveness properties say that they stop only then.

**Symmetry** (processes, repos, files, texts) is used only where no liveness property is checked.

**Fairness.** Weak fairness of each process's steps: the operating system runs it, statements return
(the busy handler gives up in the end, which is a failed statement), and no loop of a command waits
for another command. The actions that fail when a table is missing are in the same fairness
conjunct, because there failing is the only step left. In `SummaryLane` each process's `Answer` is
weakly fair as well: a request ends, by DeepSeek's timeout; the Anthropic client sets none, so for it
`CommandsEnd` rests on the service. In `HttpEmbedder` the caller and the refill task are polled by the
runtime and a request ends at `request_timeout_ms`. With `max_concurrent: 0` (HTTP embedder and
summaries) there is no permit to wait for and nothing returns; the runs have at least one. In
`IndexFiles` taking the lock is one of a process's steps: as an owner always ends or is killed and there are
finitely many opens, weak fairness is enough. In `ModelCache` downloads end by the client's timeouts or fail.
User actions, kills and failures are never fair. `CodeIndex` and `Algorithms` have no liveness
property: their steps are loops over finite sets.

## 4. What the properties are about

Each property is stated in words above its definition. The less obvious choices:

- `BuildMirrorsDisk` and `UpdateMirrorsChanges` speak of a command that nothing disturbed, but
  after anything: kills, half-written dependency rows and stale outline rows of earlier commands must not
  survive into what they promise. They promise no more than the code keeps: a build does not
  remove nodes of declarations that are gone, and an update leaves Calls, Imports and IDL edges to the next
  build (see 5).
- `UpdateLosesOnlyItsOwn` is the other side: what an update may take out of the graph.
- `CallersAgree` and `LinksAreFound` compare queries that walk the same edges in different directions.
  The first is about names whose matches neither query's `LIMIT` cuts (`Uncut`), which are all names of the run: beyond
  200 rows the queries may well differ.
- `OneGeneration` and `ExactWhenCalm` separate what the lock guarantees from what it does not: readers
  do not take it, so only an open that nobody disturbed is exact, and a loaded index is only if what
  is on disk is of one build and recorded as chunked. Without the last premise,
  `RecordedAsChunked`, TLC refutes it (see 5).
- `GoodInputsGetVectors` does not bound the failures: it counts what a lost vector must have cost. A batch that
  fails, in any way and however often, must cost nothing, and a single input that fails must have been tried as often as
  its provider retries, unless the failure is one that it does not.
- Of several files that an import may mean, `NamesAreExact` asks for the nearest to the importer and, of those, the
  first, for the paths of Rust and the types of the JVM and C#; of other imports, that the file is one of those
  meant, and a script's absolute import is judged where one file only has its path.
- `FilesWholeAlone` has the negative side in its premise: when downloads overlap, a mixed file may
  appear, and `EnsuredIsWhole` says that the next undisturbed `ensure_model` repairs it.
- The properties of `Algorithms` compare with definitions written without the code's order, early
  ends, indexes and stacks.

## 5. Where the code and its own words disagree

Three are runs that TLC finds violated; `PROJECT.json` has the quotations.

- **`search_killed_open`.** Drop, create and recording the width commit apart. A kill between the
  second and the third leaves a width in `meta` that is not the column's, and no later open at the
  recorded width notices.
- **`context_lane`.** Chunks are stored under the absolute path of the outline row, the graph has
  relative paths: find_context's search lane never finds a node.
- **`surface_cycles`.** "Cycles are broken by a per-walk visited set": `_republish` does not ask it.

The others were met while modelling. They are in the models as the code has them.

*Stores and commands*
- `replace_repo_chunks` (search/store.rs:206) says it runs inside a single transaction; it is a row of
  autocommitted statements. With two commands at once a batch is written after a long encode without
  asking whether its ids are still there (store.rs:271), so that vectors dangle, which
  tests/incremental_per_file.rs:189 excludes.
- An error when `meta.dim` is read counts as no width and drops the table (store.rs:143). README.md:88
  calls `find-related` read-only; it opens at 256 and drops wider vectors (cli/find_related.rs:29).
- "Single embedder per index", but `update` always uses the local model (indexer/incremental.rs:213);
  `embed_chunks_if_cached` (incremental.rs:205) looks for it in another directory than the builds that
  line 198 refers to.
- `update` ignores `path_blacklist` (llm/summary_store.rs:158). A clearing that fails is only warned about, and the
  build then stores a second summary of each file.
- A failed query is `Ok(zero vector)` (search/embedder.rs:111), so the documented fallback is not
  taken. The limiter starts full and refills at once, so the first minute may have twice `qpm` calls, and
  retries are not counted.
- Outline rows are deleted under the relative path and written under the absolute one
  (indexer/mod.rs:505). `update` drops the Calls, Imports and IDL edges of the files it covers until the next
  build, and stale Calls edges of a build survive. incremental.rs:94-96 speaks of a language that is no longer recognised, which
  is not handled. deps/store.rs:191 says "atomically"; it autocommits.
- search/index.rs:4-6 says an open refreshes the index "if files have changed". A build chunks every file and then takes
  size, time and hash of each (index.rs:193): of a file edited in between, the old text is indexed and the new one
  recorded, so later opens find it unchanged until its next edit.
- index.rs:248, "Persist everything atomically": five renames, and readers take no lock.
- With REPOLAYER_NO_DOWNLOAD a cached model that fails its check is still downloaded. The manifest has
  the hash of the stream, not of the file.
- A full build keeps a module's legacy summary when its text has changed (COALESCE), and llm/summary.rs cuts a
  string at byte 4000, which may be inside a character.

*Graph and queries*
- `callers --depth N` is the same for every N: Calls edges start at modules and none ends at one.
  `get_dependencies` does not mark its start and may report it.
- linker/calls.rs: names that overlap another in the text are not linked (leftmost match without overlaps).
- deps/mod.rs:147-148 says a file's deduplication matches the whole-graph one; one is by target and kind,
  the other by target.
- dsm.rs:61, "Cycle members all stay at the same residual level": they do not. `dsm` and `traverse` are
  used by no command; `deps::cache::save` is never called, so find_related's dependency boost never applies.

*Imports and surface*
- linker/imports.rs:95, "longest prefix": the first match in hash-map order.
- `from pkg.sub import fn` is not resolved although extract.rs:121-123 says the resolver falls back.
  `find_dir_file` (resolve.rs:287) does not prefer non-test files by name. `from . import *` and `use super::*`
  are not resolved; `super::x`, `self::x` and `mod x` of a Rust file that is no mod.rs are resolved one level
  too high; an import of a directory through an alias never finds its index file; relative imports may
  resolve to files that are not indexed. `const x = require('y')` is not extracted. Scala 3 `X as Y` and C# `global using`
  are extracted wrongly.
- The surface's visited set drops a second re-export under another path; uses of a second glob level are
  not followed; a glob before an explicit use wins; `pub(crate)` counts as public; `use foo::{self}` is dropped;
  module_graph.rs:13-16 claims Rust 2018 lookups, but `mod bar;` in `src/foo.rs` is looked for in `src/`.
- TypeScript: the chase behind `export *` has neither a depth nor a visited set, so that a default imported by
  name from files that star each other sends it round for ever; a declaration that its file does not export can
  take the place of the one meant; a star before an explicit export wins; names that the target renamed, and
  `export { default as X } from`, are missed; the root's default export is shown by its own name;
  `./foo.service` finds `foo.ts`, because `with_extension` replaces the last part of the name.
- Python: `_follow_from_import` ignores its depth (a circle of imports of an undeclared name does not end);
  `from . import X` of an attribute shows the whole `__init__.py` under X; a starred plain module shows nothing;
  a starred package's nested entries lose their place; `pkg.py` beside `pkg/` is tried first.
- Scala: a path from the root is tried before one in the package. Cargo: a member `.` of a workspace is looked
  into again and again until the path is too long. manifest.rs:300-303 says "Same for `.d.ts` ↔ `.ts`": a `.d.ts`
  is taken as it is.

*Ranking and chunks*
- `rrf_scores` keeps the last rank of an item that is listed twice, where store.rs:593 says the best;
  the semantic-only lane returns duplicates, unsorted. `languages` does not bind hits that a symbol boost adds.
  ranking.rs:566 says "stable on ties", which hash-map order is not.
- A chunk begins where the declaration before it ended, and its first line with it; MAX_CHARS counts bytes.

## 6. Proofs

All for every value of the constants and any number of commands, faults and edits (their
bounds are arbitrary naturals), and for any number of processes where not said otherwise.

| Theorem | Says | Argument |
|---|---|---|
| `SearchStoreProofs.TypeCorrect` | `Spec => []TypeOK` | `TypeInv` adds `Settled` |
| `SearchStoreProofs.VectorsMatchRows` | `Spec => []VecMatchesRow` | `MatchInv` |
| `SearchStoreProofs.BatchesMatchRows` | `Spec => []BatchMatchesRow` | `MatchInv` |
| `SearchStoreProofs.NoVectorDangles` | `Spec => []NoDanglingVec`, for one process | `IndexInv` |
| `SearchStoreProofs.ImplementsVectorIndex` | `Spec => VectorIndex!Spec`, for one process | `IndexInv`, step by step |
| `SearchStoreProofs.UndisturbedOpensAgree` | `Spec => []OpensAgree`, for one process | `WidthInv` |
| `SearchStoreProofs.JobsReplaceExactly` | `Spec => []ReplacedExactly`, for one process | `FilledInv` |
| `SearchStoreProofs.DoneBuildsEmbed` | `Spec => []DoneMeansEmbedded`, for one process | `IndexInv`, `EmbeddingInv` |
| `SearchStoreProofs.UpdatesAreLocal` | `Spec => UpdateIsLocal`, for one process | `MatchInv`, step by step |
| `SummaryLaneProofs.SummaryTypeCorrect` | `Spec => []TypeOK` | `TypeInv` adds `InHand` |
| `SummaryLaneProofs.SummaryVectorsMatch` | `Spec => []VecMatchesSummary` | `MatchInv` |
| `SummaryLaneProofs.OneSummary` | `Spec => []OneSummaryPerFile`, for one process | `CleanInv` |
| `SummaryLaneProofs.SummariesCurrent` | `Spec => []SummaryCurrent`, for one process | `CleanInv` |
| `SummaryLaneProofs.ImplementsSummaryIndex` | `Spec => VectorIndex!Spec`, for one process | `FirmInv`, step by step |
| `HttpEmbedderProofs.RateLimited` | `Spec => []RateBounded` | `RateInv` |
| `HttpEmbedderProofs.EmbedderTypeCorrect` | `Spec => []TypeOK` | `CallInv` |
| `HttpEmbedderProofs.VectorsAligned` | `Spec => []Aligned` | `CallInv` |
| `HttpEmbedderProofs.FaultsLoseNothing` | `Spec => []GoodInputsGetVectors` | `CallInv` |
| `IndexFilesProofs.IndexTypeCorrect` | `Spec => []TypeOK` | `IndInv` |
| `IndexFilesProofs.FilesOfOneBuild` | `Spec => []OneGeneration` | `IndInv` |
| `IndexFilesProofs.CalmOpensAreExact` | `Spec => []ExactWhenCalm` | `ExactInv` |
| `ModelCacheProofs.DownloadsLeaveFilesWhole` | `Spec => []FilesWholeAlone` | `DownloadInv` |
| `ModelCacheProofs.EnsuredCacheIsWhole` | `Spec => EnsuredIsWhole` | `EnsuredInv` |
| `CodeIndexProofs.TablesStayTyped` | `Spec => []TypeOK` | `TypeInv` |
| `CodeIndexProofs.UpdatesLoseOnlyTheirOwn` | `Spec => UpdateLosesOnlyItsOwn` | `TypeInv`, step by step |
| `CodeIndexProofs.UpdatesMirrorTheirFiles` | `Spec => []UpdateMirrorsChanges` | `UpdateInv` |
| `CodeIndexProofs.BuildsMirrorTheDisk` | `Spec => []BuildMirrorsDisk` | `BuildInv` |
| `CodeIndexProofs.CallersOfNamesAgree` | `Spec => []CallersAgree` | `Shaped` |
| `CodeIndexProofs.LinksOfBuildsAreFound` | `Spec => []LinksAreFound` | `BuildInv` |
| `AlgorithmProofs.ComponentsAreClasses` | `TarjanSpec => []SccsAreCycles` | `TarjanInv` |
| `AlgorithmProofs.ChunksCoverSources` | `ChunkSpec => []ChunksCover` | `ChunkInv` |
| `AlgorithmProofs.QueriesAreExact` | `QuerySpec => []WalksAreShortest` | `WalkInv`, `LevelInv` |
| `SurfaceProofs.SurfacesOfCratesAreSound` | `FactsSpec => []SurfaceIsSound` | `SurfaceInv` |

- **Chunk lane, `TypeInv == TypeOK /\ Settled`.** Types alone are not inductive: a process past opening must
  have a command, a configuration and, at the labels that use them, a repo and a width, which
  `Settled` says by label.
- **Chunk lane, `MatchInv == IdsFresh /\ VecMatchesRow /\ BatchMatchesRow`.** No vector matches a row by luck:
  every id in rows, vectors and batches in flight is below AUTOINCREMENT's sequence
  (`IdsFresh`), so an inserted row meets no vector and no batch of its id. This
  is what makes the matching properties hold with any number of concurrent commands, where
  `NoDanglingVec` fails. The mutant that drops AUTOINCREMENT shows the same from the other side.
- **`IndexInv`.** For one process (`OneProcess`) what is in flight is coupled to the tables: between
  deleting vectors and deleting rows the rows of the job have no vectors, and a batch about to be
  written names rows that are there, with their texts. Each step of `SearchStore` then is an `Add`,
  `Embed`, `Unembed` or `Remove` of `VectorIndex`, or a stutter.
- **`WidthInv`.** While nothing has failed, a width on record is the width of its column, at every label of
  opening but the two between dropping a table and recording the new width. `OpensAgree` alone is
  not inductive: it says nothing of a closed file, and the next open trusts the record.
- **`FilledInv`.** The rows of the job at hand and the pieces still to be stored are together what the
  chunker returned, and no piece has two rows. So the job must start from none, which for a build is that
  it deletes all of its repo and for an update that the deletion came before the re-read.
- **`EmbeddingInv`.** While a build embeds, each chunk waits with its repo, is in the batch at hand or has a
  vector of the configured model, and only such. With `IndexInv` (no vector dangles) this makes the two sets of
  ids equal when nothing waits.
- **`UpdateIsLocal`** needs that ids are unique: what is deleted under the ids of one file is no
  row or vector of another.
- **Summary lane, `MatchInv == IdsBelow /\ RowInHand /\ VecMatchesSummary`.** Between the row and the
  vector of a summary the process holds the id of a row that is its own: no other process gets the
  id, and the row either still has that text or is gone (`RowInHand`). So the vector, when it is
  written, encodes the row's text or belongs to no row.
- **Summary lane, `IndexInv`.** `TableInv`: whoever is past opening has a table to write to, and only an index
  without summaries is ever of another width, so opening drops none. `FirmInv` couples what is in flight to the tables, as in the chunk
  lane, for any outcome of any statement; it gives the refinement. `CleanInv` is about behaviours without a
  fault: what is asked about has no summary, or is about to be cleared (`Swept`); each summary is about a
  chunk of its file or its file is still to be cleared (`Refreshed`); and it has its vector except between the
  two statements that write or delete both (`Embedded`). That a file waits in one job or task at most
  (`Disjoint`, in `FirmInv`) is what makes the insertion the only one.
- **`RateInv`.** Permits are conserved (`permits + gated = Cap + ticks`), and `sent + Left <= 5 *
  gated` where `Left` is what the permit of the request at hand still allows.
- **`CallInv`.** Types and alignment, and: while a request is at hand the batch has inputs left
  (`Len(out) < upto`); and `CostInv`: each good input without a vector has used up `MAX_RETRIES + 1` failures, or
  one that is final, beyond those of the request at hand (`Tries`). The last makes it inductive: a request for one input
  that is given up has failed as often as it was tried, and no vector was charged for these failures yet, while
  the tries of a batch are never counted. Every step leaves the vectors alone, drops them or
  appends those of the inputs that are next (`Keeps`, `Clears`, `Extends`, and `CostAfter` for what they cost). `AnswersSorted` shows
  that sorting by `index` undoes any permutation of an honest answer.
- **Index files, `IndInv`.** The process at `chunk`, `record` or `write` is the one with the lock. While it
  records, a chunked file is recorded or still to be (`Recording`); while it writes, its memory is whole
  and the files before its step are those of its memory (`Writing`); so after the fifth the index is whole
  (`Good`). Readers come and go without a part in it, as they write nothing.
- **`ExactInv == IndInv /\ Stamps /\ CalmInv`.** Size and time stand for a text only because no edit
  leaves a time as it was: a record, on disk or in a process's memory, that has a file's present time was made from its present text
  (`Stamps`; in the model the clock ticks with each edit). `CalmInv` says what
  an undisturbed process has at each step: the files read so far are those on disk; what it chunked, recorded
  or writes is the tree; what it loaded it found fresh.
- **`DownloadInv`.** While no two calls have overlapped (`Alone`): one process runs at most; no temporary file is a
  cached one or another file's (`Apart`), so writing never touches the cache; what the process has streamed is in the
  inode at the temporary path (`Streamed`), so what it renames has both parts of one source. A kill
  keeps all of this, as the next download empties the temporary file it finds.

- **`EnsuredInv`.** It does not ask that calls never overlapped, since the cache may be damaged to begin
  with. A manifest, whoever wrote it, is of one version or torn (`OneVersion`); what a call has hashed
  is of its own source, one sum for each file so far (`Gathered`); and while nobody disturbs it the
  files before the one at hand are in the cache with what it verified or streamed (`Undisturbed`). `Apart` is needed as
  above: writing the next temporary file must not change a file already renamed.
- **Code index, `TypeInv`.** Types of graph, dependency rows and both commands' memories, and
  `AloneWhenCalm`: a calm command runs alone, so its stores change by its own steps only.
- **`UpdateLosesOnlyItsOwn`** is about every step, calm or not. `DeleteModuleFacts` says what
  `delete_module` leaves: the nodes at other paths, and the edges with both ends.
- **`UpdateInv`.** While a calm update is underway each file it covers is still to do or is in graph and
  outline as it is on disk (`Clean`), no edge lacks an end once the first file has been deleted, and between the halves of
  `reindex_file` nothing is at the path (`GraphDone`); each covered file's dependency rows are still
  to be resolved in its repository or are as the file is (`DepsDone`). At its end this is
  `UpdateMirrorsChanges`, and it stays until something writes or is edited. `IsText` is
  needed: a declaration whose parent is not declared would be an edge without an end.
- **`Shaped`.** What kinds of nodes an edge joins, after any step: a call of something that can be searched for begins at a
  module, no call ends at one, and the node of an IDL method is that of a method there is. So the walk
  for callers ends with its first round, whatever its depth. A recursion to a fixed depth is unfolded by
  exhibiting the walk (`WalkRounds`, `DependencyRounds`).
- **`BuildInv`.** The same for a build, repository by repository: each file the walk sees is written, or
  waits in the repository at hand or one to come (`FilesDone`), which holds only because later files and
  linkers add to the graph and change no line (`Grows`); no dependency row names a file that is gone and no
  import is unaccounted for in the repositories done (`RowsDone`); once calls are linked no call of a
  name with one definition is missing (`CallsDone`); the nodes of the IDL methods are there once their
  repositories are done, and then their links (`IdlDone`). At the end this is `BuildMirrorsDisk`, and also
  `LinksAreFound`, by reading the queries backwards. That after anything needs nothing of what was there
  before is in the invariant's shape: it says nothing of a build that has not begun.
- **`TarjanInv`**, for every set of finite graphs (`TarjanSpec` is what `Algorithms` does for a graph). The frames
  that wait for a successor are a path; what is on the stack reaches a file of the path further down, and each
  file of the path reaches all above it (`Linked`); what is numbered and not on the path leads to numbered
  files only, and what is done to what is done (`Explored`). A low link is the number of a file on the
  stack that is reached (`LowIsReached`), and nothing that a waiting frame has behind it has a successor on the stack below the
  frame's low link (`Chain`, `Between`; `Resuming` for the file just left, whose low link its parent has not
  taken yet). So when a file keeps its own number, what lies above it on the stack is closed but
  for what is done, and is its class. At the end the path is empty, hence the stack. That a file reaches another is said
  by closed sets, which needs no recursion; least elements are found with `WFMin`, whose parameter is a set.
- **`ChunkInv`**, for every limit and every set of sources (`ChunkSpec` is what `Algorithms` does for a source).
  The split points grow, lie where a declaration or the source ends, and while declarations are read those read are
  all among them; this needs that declarations lie one behind the other (`SourcesAssumption`), as the children of a
  syntax tree do: an end that is not beyond the last point is then one that is there already. The piece at hand spans two
  split points, and two neighbours when it is over the limit (`Spans`); the chunks cover what is before the piece
  (`CoverUpTo`), where only white space was dropped; and what the piece begins with did not fit into the chunk
  before it, if that one ends there (`NoRoom`): a piece only grows at its end, so this stays.
- **`WalkInv`**, for every set of finite graphs and every call (`QuerySpec` is what `Algorithms` does for a query).
  The files found have their distances, the depths along the queue grow by one at most (`InOrder`),
  whatever is found and has left the queue has its neighbours found, but for the edges of the file at hand not followed
  yet (`Followed`), and every file no further than the file at hand is found (`Complete`). The last says that a
  first way to a file is a shortest one, and moves on when the queue's next file lies one step further: then all that
  is as near as the last has left the queue. When the queue is empty a least distance at which a file is missed
  (`WFMin`) stands in for induction. Around a file the same holds, so a shorter way is never found later: the
  comparison of depths in `neighbourhood_depths` never finds a greater one.
- **`LevelInv`**: a file's count is the number of its imports that are not met (`CountInv`), met being those
  peeled off, but for the importers of the file at hand not visited yet; and its level is one above
  the highest of those met (`RaisedInv`). A file peeled off has met all, so its level stays. When nothing is ready
  the files peeled off are a set that holds each file all of whose imports it holds, hence every grounded file
  (`GroundedArePeeled`), which is all the proof needs of heights.
- **`SurfaceInv`**, for every set of crates and every `MaxDepth` (`FactsSpec` is what `Algorithms` does for a crate).
  It speaks of the frames that are left. What a frame may show under a module is a fact there
  (`FrameSound`): for a call of `_republish` all that its item means in its module, `Means`, and for what a glob
  has opened all facts of the module opened, `Passes`; a step into a use keeps this because the facts
  hold what every use brings, so neither the depth of the search nor its circles matter. An entry is a
  module's own, a method of one of its types, or brought into it, and a brought one is there only when all
  declarations of the module have been met (`EntrySound`, `DeclsFirst`): otherwise a re-export could take the path of
  a declaration, since the first of a path stays. Of a module that was walked each public declaration is listed or
  still a frame (`DeclsKept`), and each public child walked, waiting or a frame (`ModsKept`), so when both stacks are empty
  nothing public is missing; and what waits is the root or the child of a module walked (`FrontierSound`), hence
  public from the root. The entry of a method is told from others by its path only because no module has the name
  of a type in its scope (`CratesAssumption`), which the language guarantees.

The assumptions are the `ASSUME`s of the modules, which TLC evaluates in every run.

What the proofs changed in the models: an embedding that fails is a fault of the summary lane and is
counted, because with two repos `SummaryCurrent` is false otherwise (the run now has two); a process
that opens the index or ensures the model is calm from its own start, whatever the others do before;
`CodeIndex` says what a workspace and a text are; the Rust walk takes a step for each declaration and use where
it took one for each module, and its facts are grown in a variable where a recursive operator computed them.

Only model-checked:

- **`NamesAreExact` and `RankingIsExact`** (imports, ranking, the other surfaces) are about
  what recursive definitions and folds compute for every input. The provers lose arithmetic where a
  definition is `RECURSIVE`, and cannot instantiate the induction theorems, which take an operator.
- **The liveness properties** (`CommandsEnd` of both lanes, and those of `HttpEmbedder`, `IndexFiles` and `ModelCache`)
  rest on fairness and `ENABLED`.
- The three violated runs are counterexamples, which need no proof.

## 7. Not modelled

- **Language adapters**: walks over the syntax trees of third-party grammars, one file in and
  declarations out; the models take a file's declarations and imports as given.
- **The fallback surface**, which lists what the adapters find; `--lang`; and how the exports of TypeScript, Python
  and Scala are cut out of their syntax trees.
- **Rendering and the command line**: input and output.
- **Legacy module summaries** (off by default; a module that has one is never summarised again, however stale)
  and `llm/embedding.rs`, which always fails.
- **`deps/cache.rs`**, which nothing writes.
- No run composes `index.db` and `search.db`: the phases of a build share only the outline's path, which
  `CodeIndex` keeps, and the rows the summary phase reads, which `SummaryLane` keeps.
- Cosine arithmetic, logarithms and the texts of prompts and answers; counters and logs.
