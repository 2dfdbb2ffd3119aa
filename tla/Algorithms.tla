----------------------------- MODULE Algorithms -----------------------------
(***************************************************************************)
(* What the algorithms of Ranking, ImportResolver and the surfaces         *)
(* promise, each against a definition that does not follow the code, and   *)
(* those that are walked step by step.  A behaviour works on one job, a    *)
(* record with a kind: a graph is given to Tarjan, a query to DepQueries,  *)
(* a crate to SurfaceFacts, a source to Chunker, and every other job is    *)
(* judged where it starts.                                                 *)
(***************************************************************************)
EXTENDS Ranking, ImportResolver, Tarjan, DepQueries, SurfaceFacts, Chunker

CONSTANTS
    Jobs,          \* a sequence of sets of jobs
    Underscored    \* the Python names that begin with an underscore

Packages == INSTANCE PackageSurfaces

VARIABLE job

avars == <<job, tvars, queryVars, factVars, chunkVars>>

NoGraph == [v \in {} |-> <<>>]
NoQuery == [kind |-> "none", from |-> 0]
NoCrate == [m \in {} |-> <<>>]
NoText  == [size |-> 0, ends |-> <<>>, blank |-> {}, newlines |-> {}]

Starts(graphs, queries, crates, sources) ==
    TarjanInit(graphs) /\ QueryInit(graphs, queries) /\ FactsInit(crates) /\ ChunkInit(sources)

Init ==
    \/ \E i \in DOMAIN Jobs : job \in Jobs[i] /\ Starts({NoGraph}, {NoQuery}, {NoCrate}, {NoText})
    \/ job = [kind |-> "graph"] /\ Starts(Graphs, {NoQuery}, {NoCrate}, {NoText})
    \/ job = [kind |-> "query"] /\ Starts(Graphs, Calls, {NoCrate}, {NoText})
    \/ job = [kind |-> "crate"] /\ Starts({NoGraph}, {NoQuery}, Crates, {NoText})
    \/ job = [kind |-> "source"] /\ Starts({NoGraph}, {NoQuery}, {NoCrate}, Sources)

Next ==
    \/ job.kind = "graph" /\ TarjanNext /\ UNCHANGED <<job, queryVars, factVars, chunkVars>>
    \/ job.kind = "query" /\ QueryNext /\ UNCHANGED <<job, tvars, factVars, chunkVars>>
    \/ job.kind = "crate" /\ FactsNext /\ UNCHANGED <<job, tvars, queryVars, chunkVars>>
    \/ job.kind = "source" /\ ChunkNext /\ UNCHANGED <<job, tvars, queryVars, factVars>>

Spec == Init /\ [][Next]_avars

-----------------------------------------------------------------------------
(* Imports: the module that a file is, by its place.                       *)
ModuleOf(f) == IF f.stem \in {"__init__", "index", "mod"} THEN f.dirs ELSE Append(f.dirs, f.stem)

FilesOf(files, path, exts) ==
    {i \in DOMAIN files : ModuleOf(files[i]) = path /\ files[i].ext \in exts}

OneOf(answer, sets) ==
    LET some == {i \in DOMAIN sets : sets[i] # {}}
    IN  some # {} => answer \in sets[Min(some)]

Answer(j, import) == Resolve(j.files, j.from, import.spec, j.manifest)

(* A Python relative import: the submodule of the name, or the module.     *)
FromExact(j, s) ==
    LET dirs    == j.files[j.from].dirs
        base    == SubSeq(dirs, 1, Len(dirs) - s.dots + 1) \o s.module
        imports == Extract(s)
    IN  \A i \in DOMAIN imports :
            IF s.star
            THEN s.module # <<>> => OneOf(Answer(j, imports[i]), <<FilesOf(j.files, base, PythonLike)>>)
            ELSE OneOf(Answer(j, imports[i]),
                       << FilesOf(j.files, Append(base, s.names[i]), PythonLike),
                          FilesOf(j.files, base, PythonLike) >>)

(* A script's import, relative, or by an alias or from the root where one  *)
(* file, no index of a directory, has the path.                            *)
ScriptExact(j, s) ==
    LET dirs == j.files[j.from].dirs
        home == IF s.source.form = "relative" THEN SubSeq(dirs, 1, Len(dirs) - s.source.up)
                ELSE IF s.source.path[1] = "@" THEN <<"s">> ELSE <<>>
        path == IF s.source.path[1] = "@" THEN Tail(s.source.path) ELSE s.source.path
        of   == FilesOf(j.files, home \o path, ScriptLike)
        only == /\ Cardinality(Lookup(j.files, home \o path)) = 1
                /\ \A f \in of : PathOf(j.files[f]) = home \o path
    IN  s.source.form = "relative" \/ only =>
            \A import \in Range(Extract(s)) : OneOf(Answer(j, import), <<of>>)

(* `mod` of Rust in a file that owns its directory; the surface takes the  *)
(* same file for it.                                                       *)
ModExact(j, s) ==
    LET of == FilesOf(j.files, Append(j.files[j.from].dirs, s.name), {"rs"})
    IN  \A import \in Range(Extract(s)) :
            /\ OneOf(Answer(j, import), <<of>>)
            /\ of # {} => ResolveModFile(j.files, j.from, s.name, "") = Answer(j, import)

(* Of several files, the first of those with the most directories in       *)
(* common with the importer; the importer itself before all.               *)
NearestTo(j, of) ==
    LET shared(f) == Len(LongestCommonPrefix({j.files[f].dirs, j.files[j.from].dirs}))
    IN  IF j.from \in of THEN j.from
        ELSE Min({f \in of : \A g \in of : shared(g) <= shared(f)})

(* A path of a `use` that is not relative: the nearest of the files that   *)
(* the longest part of the path names.                                     *)
UseExact(j, s) ==
    \A import \in Range(Extract(s)) :
        LET path  == import.spec.path
            of(n) == {f \in DOMAIN j.files : IsSuffix(SubSeq(path, 1, n), PathOf(j.files[f]))}
            named == {n \in DOMAIN path : of(n) # {}}
        IN  /\ \A name \in Range(path) : name \notin {"crate", "self", "super"}
            /\ import.spec.form = "absolute" /\ named # {} =>
                    Answer(j, import) = NearestTo(j, of(Max(named)))

(* A qualified type of the JVM or of C#, or a name inside one.             *)
TypeExact(j, s) ==
    \A import \in Range(Extract(s)) :
        LET path   == import.spec.path
            of(t)  == {f \in DOMAIN j.files : \E name \in j.files[f].types :
                          Append(j.files[f].package, name) = t}
            around == of(Front(path))
        IN  /\ of(path) # {} => Answer(j, import) = NearestTo(j, of(path))
            /\ of(path) = {} /\ around # {} => Answer(j, import) = NearestTo(j, around)

(* A package of the Go module: a file of its directory.                    *)
GoExact(j, s) ==
    \A import \in Range(Extract(s)) :
        LET dirs == SubSeq(import.spec.path, Len(j.manifest.goModule) + 1, Len(import.spec.path))
            of   == {f \in DOMAIN j.files : j.files[f].dirs = dirs /\ j.files[f].ext = "go"}
        IN  OneOf(Answer(j, import), <<of>>)

ImportExact(j, s) ==
    CASE s.statement = "from" -> FromExact(j, s)
      [] s.statement \in {"import", "export", "require"} -> ScriptExact(j, s)
      [] s.statement = "mod"  -> ModExact(j, s)
      [] s.statement = "use"  -> UseExact(j, s)
      [] s.statement = "go"   -> GoExact(j, s)
      [] s.statement \in {"java", "kotlin", "scala", "csharp"} -> TypeExact(j, s)

(* What a full build and an update of the one file find.                   *)
BuildsAgree(j) ==
    LET statements == [f \in DOMAIN j.files |-> IF f = j.from THEN j.statements ELSE <<>>]
        full       == BuildForRepo(j.files, statements, j.manifest)[j.from]
        file       == BuildForFile(j.files, statements, j.manifest, j.from)
    IN  /\ {full[i].target : i \in DOMAIN full} = {file[i].target : i \in DOMAIN file}
        /\ \A i, k \in DOMAIN full : full[i].target = full[k].target => i = k

(* deps/resolver, deps/extract.rs and deps/mod.rs: an import that means a  *)
(* file of the repository by the rules of its language leads to a file     *)
(* that is that module, and to no other, whatever files of the same name   *)
(* are elsewhere; where a path of Rust or a qualified type may mean        *)
(* several files, to the nearest; and an update finds the imports that a   *)
(* full build finds.  What is left out is said at each rule above.         *)
ImportsAreExact ==
    job.kind = "imports" =>
        /\ \A i \in DOMAIN job.statements : ImportExact(job, job.statements[i])
        /\ BuildsAgree(job)

(* deps/ and surface/: a name leads to what the language says it means: an *)
(* import to its file; what the surface of a TypeScript, Python or Scala   *)
(* package lists is what is visible there, and what is public is listed,   *)
(* but where PackageSurfaces says so; and a surface starts at a file of    *)
(* its language.                                                           *)
NamesAreExact == ImportsAreExact /\ Packages!PackageExact(job)

-----------------------------------------------------------------------------
(* Ranking.                                                                *)
NoTwice(hits) == \A i, j \in DOMAIN hits : hits[i].id = hits[j].id => i = j
Falls(hits)   == \A i, j \in DOMAIN hits : i < j => hits[i].score >= hits[j].score

(* Every candidate decays by those of its file before it; no early end.    *)
RerankAll(scores, chunks, k) ==
    LET all   == Penalised(scores, chunks, TRUE)
        before(i) == Cardinality({j \in 1..i - 1 : chunks[all[j].id].file = chunks[all[i].id].file})
    IN  Take(Sorted([i \in DOMAIN all |-> [all[i] EXCEPT !.score = Decayed(@, before(i))]]), k)

RerankExact(j) == RerankTopK(j.scores, j.chunks, j.k, TRUE) = RerankAll(j.scores, j.chunks, j.k)

(* A symbol query is answered by a definition of the symbol, where a       *)
(* candidate or a file of that name has one outside of tests and the like. *)
SearchExact(j) ==
    LET hits    == Search(j.chunks, j.docs, j.query, j.k, j.languages)
        mask    == LanguageMask(j.chunks, j.languages)
        Seen(c) == c \in mask \/ j.chunks[c].stem
    IN  /\ Len(hits) <= j.k /\ NoTwice(hits) /\ Falls(hits)
        /\ mask # {} => hits # <<>>
        /\ ~j.query.isSymbol /\ ~j.query.embedsSymbol => \A i \in DOMAIN hits : hits[i].id \in mask
        /\ j.query.isSymbol /\ mask # {}
           /\ (\E c \in DOMAIN j.chunks : Seen(c) /\ j.chunks[c].defines /\ j.chunks[c].kinds = {})
              => j.chunks[hits[1].id].defines

(* Hits are of the repository asked for, and each has its evidence; a row  *)
(* with a term of the query is never lost to what is merely near.          *)
HybridExact(j) ==
    LET In(row)       == j.repo \in {AnyRepo, row.repo}
        Term(row)     == \E t \in Range(j.query.terms) : t \in Range(row.terms)
        NearBy(row, max) ==
            \/ row.dist # None /\ row.dist <= max
            \/ \E s \in Range(j.summaries) :
                s.repo = row.repo /\ s.path = row.path /\ s.dist # None /\ s.dist <= max
    IN  \A r \in {SearchHybrid(j.rows, j.summaries, j.query, j.k, j.repo)} :
        /\ Len(r.hits) <= j.k /\ (r.lane # "semantic" => NoTwice(r.hits) /\ Falls(r.hits))
        /\ \A i \in DOMAIN r.hits :
            LET row == j.rows[r.hits[i].id]
            IN  /\ In(row)
                /\ CASE r.lane = "fusion"    -> Term(row) \/ NearBy(row, LooseMax)
                     [] r.lane = "bm25"      -> Term(row)
                     [] r.lane = "semantic"  -> NearBy(row, StrictMax)
                     [] r.lane = "substring" -> row.contains
        /\ (\E row \in Range(j.rows) : In(row) /\ Term(row)) => r.lane \in {"fusion", "bm25"} /\ r.hits # <<>>

(* The chunks like a chunk: others, of its language, k of them if there    *)
(* are, and none left out that is nearer in the graph and no less similar. *)
RelatedExact(j) ==
    LET hits == FindRelated(j.chunks, j.sim, j.source, j.k, j.depths)
        pool == {c \in DOMAIN j.chunks : c # j.source /\ j.chunks[c].language = j.chunks[j.source].language}
        ids  == {hits[i].id : i \in DOMAIN hits}
        Factor(c) == Nearness(j.depths[j.chunks[c].file])
    IN  /\ NoTwice(hits) /\ Falls(hits) /\ ids \subseteq pool
        /\ Len(hits) = Min({j.k, Cardinality(pool)})
        /\ \A c \in ids : \A d \in pool \ ids :
            j.sim[d] > j.sim[c] => Factor(d) < Factor(c)

(* What both lanes put first comes first.                                  *)
ContextExact(j) ==
    LET items == ContextItems(j.substring, j.search, j.budget)
    IN  /\ NoTwice(items) /\ Falls(items) /\ Len(items) * TokensPerItem <= Max({j.budget, 0})
        /\ items # <<>> /\ j.substring # <<>> /\ j.search # <<>> /\ j.substring[1].id = j.search[1].id
            => items[1].id = j.search[1].id

(* The parts of a word are runs of its letters and digits, in order, that  *)
(* leave none out; inside none a capital follows a small letter.           *)
SplitExact(word) ==
    LET parts    == CamelSplit(word)
        Chars(p) == p[1]..p[2]
    IN  /\ UNION {Chars(parts[i]) : i \in DOMAIN parts} = {i \in DOMAIN word : word[i] # "other"}
        /\ \A i, k \in DOMAIN parts : i < k => parts[i][2] < parts[k][1]
        /\ \A i \in DOMAIN parts : \A c \in parts[i][1]..parts[i][2] - 1 :
            ~(word[c] = "lower" /\ word[c + 1] = "upper")

(* search/ranking.rs, search/index.rs, search/store.rs, query/find_context *)
(* and search/tokens.rs: the early end of the selection changes nothing,   *)
(* and every answer of a query is one that the lanes give evidence for.    *)
RankingIsExact ==
    /\ job.kind = "rerank"  => RerankExact(job)
    /\ job.kind = "search"  => SearchExact(job)
    /\ job.kind = "hybrid"  => HybridExact(job)
    /\ job.kind = "related" => RelatedExact(job)
    /\ job.kind = "context" => ContextExact(job)
    /\ job.kind = "word"    => SplitExact(job.word)
=============================================================================
