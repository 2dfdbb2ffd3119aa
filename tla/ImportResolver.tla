--------------------------- MODULE ImportResolver ---------------------------
(***************************************************************************)
(* From an import in a source file to a file of the repository: the suffix *)
(* index and the resolver (deps/resolver/), the file of a Rust module      *)
(* (surface/module_graph.rs), and the imports of a repository              *)
(* (deps/mod.rs).                                                          *)
(*                                                                         *)
(* A repository is a sequence of files in the order of their paths.  A     *)
(* file is a record: dirs (the directories above it, a sequence), stem,    *)
(* ext, and of JVM languages and C#: package (a sequence, <<>> for none)   *)
(* and types (a set).  A resolved import is the number of a file or        *)
(* External.  The path of a specifier has at least one segment.            *)
(***************************************************************************)
EXTENDS ImportStatements

External == 0

JvmLike    == {"java", "kt", "kts", "scala", "sc", "cs"}
ScriptLike == {"ts", "mts", "cts", "tsx", "js", "jsx", "mjs", "cjs"}
PythonLike == {"py", "pyi"}
Indexed    == {"rs", "go"} \cup PythonLike \cup JvmLike \cup ScriptLike

-----------------------------------------------------------------------------
(* build.rs: every suffix of the path without its extension; a package     *)
(* also under its directory and that directory's name; a type also under   *)
(* its qualified and its plain name.                                       *)
PathOf(f) == f.dirs \o <<f.stem>>

PackageKeys(f) ==
    IF f.ext = "py" /\ f.stem = "__init__" /\ f.dirs # <<>>
    THEN {f.dirs, <<Last(f.dirs)>>} ELSE {}

TypeKeys(f) ==
    IF f.ext \in JvmLike /\ f.package # <<>>
    THEN {Append(f.package, t) : t \in f.types} \cup {<<t>> : t \in f.types}
    ELSE {}

Keys(f) == (Suffixes(PathOf(f)) \ {<<>>}) \cup PackageKeys(f) \cup TypeKeys(f)

Lookup(files, key) == {i \in DOMAIN files : files[i].ext \in Indexed /\ key \in Keys(files[i])}

(* pick_closest: most leading segments in common, then the first.          *)
Common(f, g) ==
    LET n == Min({Len(f.dirs), Len(g.dirs)})
        same == {i \in 1..n : \A j \in 1..i : f.dirs[j] = g.dirs[j]}
    IN  Cardinality(same) + IF f = g THEN 1 ELSE 0

(* Mutant: the first of the candidates.                                    *)
PickClosest_First(files, candidates, from) ==
    IF candidates = {} THEN External ELSE Min(candidates)

PickClosest(files, candidates, from) ==
    IF candidates = {} THEN External
    ELSE LET most == Max({Common(files[from], files[c]) : c \in candidates})
         IN  Min({c \in candidates : Common(files[from], files[c]) = most})

Found(files, key, from) == PickClosest(files, Lookup(files, key), from)

-----------------------------------------------------------------------------
(* resolve.rs.                                                             *)

(* is_file: a file of whatever language, indexed or not.                   *)
FileAt(files, dirs, stem, ext) ==
    LET at == {i \in DOMAIN files : files[i].dirs = dirs /\ files[i].stem = stem /\ files[i].ext = ext}
    IN  IF at = {} THEN External ELSE Min(at)

(* The first of a sequence of answers that is a file.                      *)
FirstOf(answers) ==
    LET hits == {i \in DOMAIN answers : answers[i] # External}
    IN  IF hits = {} THEN External ELSE answers[Min(hits)]

WithExts(files, target, exts) ==
    IF target = <<>> THEN External
    ELSE FirstOf([i \in DOMAIN exts |-> FileAt(files, Front(target), Last(target), exts[i])])

Inside(files, target, stem, exts) ==
    FirstOf([i \in DOMAIN exts |-> FileAt(files, target, stem, exts[i])])

ScriptExts == <<"ts", "tsx", "mts", "cts", "d.ts", "js", "jsx", "mjs", "cjs", "json">>
PythonExts == <<"py", "pyi">>

(* A module, or the package of that name.                                  *)
PythonModule(files, target) ==
    FirstOf(<< WithExts(files, target, PythonExts), Inside(files, target, "__init__", <<"py">>) >>)

(* Mutant: a name that is no module is not looked for in its module.       *)
Probe_NoParent(files, lang, target) ==
    IF lang \in PythonLike THEN PythonModule(files, target)
    ELSE FirstOf(<< WithExts(files, target, ScriptExts), Inside(files, target, "index", ScriptExts) >>)

(* The files a relative target may be, in the order they are tried.        *)
Probe(files, lang, target) ==
    CASE lang \in ScriptLike ->
            FirstOf(<< WithExts(files, target, ScriptExts), Inside(files, target, "index", ScriptExts) >>)
      [] lang \in PythonLike ->
            FirstOf(<< PythonModule(files, target),
                       IF target = <<>> THEN External ELSE PythonModule(files, Front(target)) >>)
      [] OTHER -> External

(* A path that ascends out of the repository finds nothing.                *)
Ascend(from, up, path) == SubSeq(from.dirs, 1, Len(from.dirs) - up) \o path

ResolveRelativePath(files, from, spec) ==
    LET f      == files[from]
        target == Ascend(f, spec.up, spec.path)
    IN  IF spec.up > Len(f.dirs) THEN External
        ELSE FirstOf(<< FileAt(files, Front(target), Last(target), spec.ext),
                        IF spec.ext = "" THEN Probe(files, f.ext, target) ELSE External,
                        IF spec.ext = "" THEN Found(files, target, from) ELSE External >>)

(* self:: and super::, from the directory of the file, whatever its name.  *)
ResolveRelative(files, from, up, path) ==
    LET f      == files[from]
        target == Ascend(f, up, path)
    IN  IF up > Len(f.dirs) THEN External
        ELSE FirstOf(<< WithExts(files, target, <<"rs">>), Inside(files, target, "mod", <<"rs">>),
                        Found(files, target, from) >>)

(* crate:: and plain paths: the longest prefix of the path that is a key.  *)
ResolveWithFallback(files, from, path) ==
    FirstOf([n \in DOMAIN path |-> Found(files, SubSeq(path, 1, Len(path) - n + 1), from)])

ResolveRust(files, from, spec) ==
    CASE spec.form = "self"  -> ResolveRelative(files, from, 0, spec.path)
      [] spec.form = "super" -> ResolveRelative(files, from, spec.up, spec.path)
      [] OTHER               -> ResolveWithFallback(files, from, spec.path)

(* The first alias that is a prefix of the path and leads to a file.       *)
ResolveAliased(files, from, aliases, path) ==
    FirstOf([a \in DOMAIN aliases |->
        IF IsPrefix(aliases[a].prefix, path)
        THEN Found(files, aliases[a].target \o
                       SubSeq(path, Len(aliases[a].prefix) + 1, Len(path)), from)
        ELSE External])

(* Any file of the directory, the first one.                               *)
FindDirFile(files, dir) ==
    LET within == {i \in DOMAIN files : files[i].ext \in Indexed /\ files[i].dirs = dir}
    IN  IF within = {} THEN External ELSE Min(within)

(* goModule: of go.mod, <<>> when there is none.                           *)
ResolveGo(files, goModule, path) ==
    IF goModule # <<>> /\ IsPrefix(goModule, path) /\ path # goModule
    THEN FindDirFile(files, SubSeq(path, Len(goModule) + 1, Len(path))) ELSE External

(* A type, or the type around it.                                          *)
ResolveJvm(files, from, path) ==
    FirstOf(<< Found(files, path, from),
               IF Len(path) > 1 THEN Found(files, Front(path), from) ELSE External >>)

Resolve(files, from, spec, manifest) ==
    LET lang == files[from].ext
    IN  CASE lang = "rs" -> ResolveRust(files, from, spec)
          [] lang # "rs" /\ spec.form = "relative" -> ResolveRelativePath(files, from, spec)
          [] lang \in ScriptLike /\ spec.form = "absolute" ->
                FirstOf(<< ResolveAliased(files, from, manifest.aliases, spec.path),
                           Found(files, spec.path, from) >>)
          [] lang = "go" /\ spec.form = "absolute" -> ResolveGo(files, manifest.goModule, spec.path)
          [] lang \in JvmLike /\ spec.form = "absolute" -> ResolveJvm(files, from, spec.path)
          [] lang \in PythonLike /\ spec.form = "absolute" -> Found(files, spec.path, from)

(* manifest.rs, parse_tsconfig_paths: the first target of each pattern,    *)
(* under the base URL; patterns and targets end in a star.                 *)
Aliases(config) ==
    LET named == SelectSeq(config.paths, LAMBDA p : p.targets # <<>>)
    IN  [i \in DOMAIN named |->
            [prefix |-> named[i].prefix, target |-> config.baseUrl \o named[i].targets[1]]]

-----------------------------------------------------------------------------
(* resolve_mod_file: `mod name;` of a file, "" for no path attribute.      *)
ResolveModFile(files, from, name, attribute) ==
    LET dirs == files[from].dirs
    IN  FirstOf(<< IF attribute = "" THEN External ELSE FileAt(files, dirs, attribute, "rs"),
                   FileAt(files, dirs, name, "rs"),
                   FileAt(files, Append(dirs, name), "mod", "rs"),
                   FileAt(files, Append(dirs, name), name, "rs") >>)

-----------------------------------------------------------------------------
(* deps/mod.rs.  statements: of each file, the sequence.  An edge has a    *)
(* target and a kind; an import of the file itself counts as external.     *)
Answers(files, statements, manifest, f) ==
    LET imports == ExtractAll(statements[f])
        edges   == [i \in DOMAIN imports |->
                       [target |-> Resolve(files, f, imports[i].spec, manifest), kind |-> imports[i].kind]]
    IN  SelectSeq(edges, LAMBDA e : e.target \notin {External, f})

(* build_for_repo: the first edge to each target.                          *)
BuildForRepo(files, statements, manifest) ==
    [f \in DOMAIN files |->
        LET kept(seq, e) == IF \E i \in DOMAIN seq : seq[i].target = e.target THEN seq ELSE Append(seq, e)
        IN  FoldLeft(kept, <<>>, Answers(files, statements, manifest, f))]

(* build_for_files: sorted by target and kind, each pair once.  Kinds are  *)
(* in the order of the program's list.                                     *)
ImportKind ==
    <<"use", "mod", "from", "bare", "named_from", "star_from", "static", "alias", "glob">>

Before(d, e) ==
    LET Rank(k) == CHOOSE i \in DOMAIN ImportKind : ImportKind[i] = k
    IN  \/ d.target < e.target
        \/ d.target = e.target /\ Rank(d.kind) < Rank(e.kind)

BuildForFile(files, statements, manifest, f) ==
    SetToSortSeq(Range(Answers(files, statements, manifest, f)), Before)
=============================================================================
