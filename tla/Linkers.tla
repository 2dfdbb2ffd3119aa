------------------------------- MODULE Linkers -------------------------------
(***************************************************************************)
(* What the indexer derives from one file and what the linkers of a full   *)
(* build derive from all of them (src/indexer/mod.rs, src/linker/,         *)
(* src/deps/mod.rs), as operators on the code graph.                       *)
(*                                                                         *)
(* A file is a pair <<repo, path>>.  Its text is a record: the             *)
(* declarations (a set of [kind, name, parent, line]), the identifiers     *)
(* that occur in it, those of them that are called, and its imports in     *)
(* source order (a sequence of [spec, kind]).  An import spec is a         *)
(* sequence of segments: <<".", path>> names a file of the same repo,      *)
(* anything else is a package or module path.                              *)
(***************************************************************************)
EXTENDS CodeGraph, SequencesExt, FiniteSetsExt

CONSTANTS
    Files,       \* every file there can be in a code repository
    Hidden,      \* files under a hidden directory: only the deps walk sees them
    Skipped,     \* files on the deny list (tests, build output): all but the deps walk sees them
    ServerSide,  \* files in a backend language under a path like services/
    Noise,       \* names too short or too common to link
    Shadows,     \* <<m, n>>: the name m occurs in n and ends before n does
    IdlRepos,    \* repositories that hold only IDL files
    IdlMethods,  \* <<repo, path, service, symbol>> of every IDL method
    Short,       \* the short name of each IDL symbol
    Packages,    \* per repository: its package.json and other manifests
    Aliases,     \* sequence of <<repo, prefix>>: the module paths of each repo
    Links,       \* manual links of the configuration: <<from, to, kind>>
    Absent       \* the text of a file that is not on disk

Module(f) == ModuleNode(f[1], f[2])

Present(disk)   == {f \in Files : disk[f] # Absent}
Visible(disk)   == Present(disk) \ Hidden     \* the walks of the indexer and the linkers
DepsFiles(disk) == Present(disk) \ Skipped   \* the walk of the suffix index

-----------------------------------------------------------------------------
(* One file.                                                               *)

(* Mutant: the id of a declaration forgets the path.                       *)
DeclNode_NoPath(f, d) == <<d.kind, f[1], d.name>>

DeclNode(f, d) == Node(d.kind, f[1], f[2], d.name)

(***************************************************************************)
(* emit_decl_nodes: a type or a method hangs below the type around it or,  *)
(* without one, below the module; a function always hangs below the        *)
(* module, even inside a type.                                             *)
(***************************************************************************)
DeclParent(f, d) ==
    IF d.kind = "function" \/ d.parent = None THEN Module(f)
    ELSE Node("type", f[1], f[2], d.parent)

EmitDecls(g, f, text) ==
    LET ds == text.decls
        rows == [n \in {DeclNode(f, d) : d \in ds} |->
                    (CHOOSE d \in ds : DeclNode(f, d) = n).line]
    IN  UpsertEdges(UpsertNodes(g, rows),
            EdgeRows({<<DeclParent(f, d), DeclNode(f, d), "contains">> : d \in ds}, 100))

(* The repo node, the module node and everything declared in the file.     *)
EmitModule(g, f, text) ==
    LET own == {RepoNode(f[1]), Module(f)}
    IN  EmitDecls(UpsertEdges(UpsertNodes(g, EdgeRows(own, 0)),
            EdgeRows({<<RepoNode(f[1]), Module(f), "contains">>}, 100)), f, text)

(***************************************************************************)
(* PackageIndex::build: the package.json of a repository takes its name    *)
(* over, whoever registered it before; its other manifests only fill gaps. *)
(***************************************************************************)
AddPackages(idx, p) ==
    LET js == IF p.name = <<>> THEN {} ELSE {p.name}
    IN  Over([n \in js |-> [repo |-> p.repo, main |-> p.main]],
            Over(idx, [n \in p.others |-> [repo |-> p.repo, main |-> None]]))

PackageIndex == FoldLeft(AddPackages, <<>>, Packages)

(* PackageIndex::lookup: the exact name, else any name that is a prefix,   *)
(* in the arbitrary order of a hash map.                                   *)
LookupPackage(spec) ==
    LET names == {n \in DOMAIN PackageIndex : IsPrefix(n, spec)}
    IN  {PackageIndex[n] : n \in (IF spec \in names THEN {spec} ELSE names)}

Specs(text)    == {text.imports[i].spec : i \in DOMAIN text.imports}
IsRelative(s)  == Head(s) = "."
Target(f, s)   == <<f[1], s[2]>>

(***************************************************************************)
(* The edges and nodes of the imports of one file, as index_repo_v2 writes *)
(* them.  "pick" answers for the hash map.  A package whose main file is   *)
(* named gets a module node without a Contains edge; its repository node   *)
(* is left to the indexing of that repository.                             *)
(***************************************************************************)
LocalTargets(f, text, disk) ==
    {Target(f, s) : s \in {t \in Specs(text) : IsRelative(t)}} \cap Present(disk)

EmitImports(g, f, text, disk, pick) ==
    LET local == {Module(t) : t \in LocalTargets(f, text, disk)}
        pkgs  == {pick[s] : s \in {t \in Specs(text) : ~IsRelative(t) /\ LookupPackage(t) # {}}}
        PkgModule(p) == ModuleNode(p.repo, IF p.main = None THEN "package.json" ELSE p.main)
        contained == {<<RepoNode(f[1]), m, "contains">> : m \in local}
            \cup {<<RepoNode(p.repo), PkgModule(p), "contains">> : p \in {q \in pkgs : q.main = None}}
        targets == local \cup {PkgModule(p) : p \in pkgs}
    IN  UpsertEdges(UpsertNodes(g, EdgeRows(targets, 0)),
            EdgeRows(contained \cup {<<Module(f), m, "imports">> : m \in targets}, 100))

Picks(text) ==
    LET specs == {t \in Specs(text) : ~IsRelative(t) /\ LookupPackage(t) # {}}
    IN  {pick \in [specs -> UNION {LookupPackage(s) : s \in specs}] :
            \A s \in specs : pick[s] \in LookupPackage(s)}

(* index_idl_repo: services and methods of a repository of IDL files.      *)
IndexIdl(g, r) ==
    LET ms == {m \in IdlMethods : m[1] = r}
        Service(m) == Node("idlservice", r, m[2], m[3])
        Method(m)  == Node("idlmethod", r, m[2], m[4])
    IN  UpsertEdges(
            UpsertNodes(g, EdgeRows({RepoNode(r)} \cup {Service(m) : m \in ms}
                                        \cup {Method(m) : m \in ms}, 0)),
            EdgeRows({<<RepoNode(r), Service(m), "defines">> : m \in ms}
                        \cup {<<Service(m), Method(m), "contains">> : m \in ms}, 100))

-----------------------------------------------------------------------------
(* The dependency rows of one file (deps::build_for_repo and               *)
(* build_for_files).                                                       *)

(* The positions of the imports that resolve to another file.              *)
Internal(f, disk) ==
    LET imports == disk[f].imports
    IN  {i \in DOMAIN imports : IsRelative(imports[i].spec)
                                  /\ Target(f, imports[i].spec) \in Present(disk) \ {f}}

DepRow(f, spec, kind) == [file |-> f, to |-> Target(f, spec), kind |-> kind]

(* A full build keeps the first edge to a target (dedup_edges) ...         *)
BuildRows(f, disk) ==
    IF f \notin DepsFiles(disk) THEN {} ELSE
    LET imports == disk[f].imports
        First(i) == Min({j \in Internal(f, disk) : imports[j].spec = imports[i].spec})
    IN  {DepRow(f, imports[i].spec, imports[First(i)].kind) : i \in Internal(f, disk)}

(* ... an update the first edge to a target of each kind.                  *)
FileRows(f, disk) ==
    IF f \notin DepsFiles(disk) THEN {} ELSE
    LET imports == disk[f].imports
    IN  {DepRow(f, imports[i].spec, imports[i].kind) : i \in Internal(f, disk)}

ExternalRows(f, disk) ==
    IF f \notin DepsFiles(disk) THEN {} ELSE
    LET imports == disk[f].imports
    IN  {[file |-> f, raw |-> imports[i].spec] : i \in DOMAIN imports \ Internal(f, disk)}

-----------------------------------------------------------------------------
(* The linkers of a full build.                                            *)

(***************************************************************************)
(* The names of a set that a text is seen to contain.  The automaton       *)
(* reports matches that do not overlap and ends each at the earliest       *)
(* letter it can: a name with another name of the set inside it, ending    *)
(* before it does, is never reported.                                      *)
(***************************************************************************)
NameHits(text, names) ==
    LET reported == {n \in names : \A m \in names : <<m, n>> \notin Shadows}
    IN  {n \in reported : n \in text.words \/ \E w \in text.words : <<n, w>> \in Shadows}

(* CallsLinker: callee names with exactly one function or method node.     *)
Callables(g) == NodesByKind(g, "function") \cup NodesByKind(g, "method")

UniqueNames(g) ==
    {n \in {SymbolOf(c) : c \in Callables(g)} \ Noise :
        Cardinality({c \in Callables(g) : SymbolOf(c) = n}) = 1}

LinkCalls(g, disk) ==
    LET names == UniqueNames(g)
        Def(n) == CHOOSE c \in Callables(g) : SymbolOf(c) = n
    IN  UpsertEdges(g, EdgeRows(UNION {
            {<<Module(f), Def(n), "calls">> : n \in NameHits(disk[f], names) \cap disk[f].calls}
                : f \in Visible(disk)}, 100))

(***************************************************************************)
(* IdlLinker: a file that mentions the short name of an IDL method gets an *)
(* edge to every method of that name: 70 when the name is called, 40 when  *)
(* a server-side file only mentions it, half of that when the name is      *)
(* ambiguous.                                                              *)
(***************************************************************************)
LinkIdl(g, disk) ==
    LET methods == NodesByKind(g, "idlmethod")
        names   == {Short[SymbolOf(m)] : m \in methods} \ Noise
        Named(n) == {m \in methods : Short[SymbolOf(m)] = n}
        Score(f, n) == (IF n \in disk[f].calls THEN 70
                        ELSE IF f \in ServerSide THEN 40 ELSE 0)
                            \div (IF Cardinality(Named(n)) > 1 THEN 2 ELSE 1)
        Kind(f) == IF f \in ServerSide THEN "implements" ELSE "invokes"
        links == {l \in Visible(disk) \X names \X methods :
                    l[3] \in Named(l[2]) /\ l[2] \in NameHits(disk[l[1]], names) /\ Score(l[1], l[2]) > 0}
        Edge(l) == <<Module(l[1]), l[3], Kind(l[1])>>
    IN  UpsertEdges(g, [e \in {Edge(l) : l \in links} |->
            LET l == CHOOSE k \in links : Edge(k) = e IN Score(l[1], l[2])])

(***************************************************************************)
(* imports_to_repo: the repository with the longest module path that is a  *)
(* prefix of the import, the first one listed when two are equally long.   *)
(* Neither end of the edge is written as a node.                           *)
(***************************************************************************)
LongestMatch(raw) ==
    LET fits == {i \in DOMAIN Aliases : IsPrefix(Aliases[i][2], raw)}
        best == {i \in fits : \A j \in fits :
                    \/ Len(Aliases[i][2]) > Len(Aliases[j][2])
                    \/ Len(Aliases[i][2]) = Len(Aliases[j][2]) /\ i <= j}
    IN  {Aliases[i][1] : i \in best}

LinkImports(g, externals) ==
    UpsertEdges(g, EdgeRows(UNION {
        {<<Module(e.file), RepoNode(r), "imports">> : r \in LongestMatch(e.raw) \ {e.file[1]}}
            : e \in externals}, 90))

(* Manual links: the two repository nodes and an edge between them.        *)
LinkManually(g) ==
    UpsertEdges(
        UpsertNodes(g, EdgeRows(UNION {{RepoNode(l[1]), RepoNode(l[2])} : l \in Links}, 0)),
        EdgeRows({<<RepoNode(l[1]), RepoNode(l[2]),
                    IF l[3] \in {"calls", "invokes"} THEN l[3] ELSE "imports">> : l \in Links}, 100))
=============================================================================
