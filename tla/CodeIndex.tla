------------------------------ MODULE CodeIndex ------------------------------
(***************************************************************************)
(* The code graph, the outline rows and the dependency rows of a workspace *)
(* (index.db, outline.db, deps.db) under the two commands that write them: *)
(* `repolayer build` (Indexer::build_all) and `repolayer update`           *)
(* (incremental::update), while a user edits and commits files and either  *)
(* command may be killed.  Each command is a process; the statements of    *)
(* one file, or of one linker, are one step.                               *)
(*                                                                         *)
(* Left out: the search lanes (SearchStore and SummaryLane), and files     *)
(* whose language no linker scans.                                         *)
(***************************************************************************)
EXTENDS Linkers, GraphQueries

CONSTANTS
    Repos,       \* the configured repositories, in order
    TextsOf,     \* the texts a file may have
    AbsPath,     \* the absolute path of each file
    Untracked,   \* files on disk at first that git does not know yet
    MaxUserSteps, MaxBuilds, MaxUpdates, MaxMishaps  \* bounds; a mishap is a kill or a failed statement

FilesOf(r) == {f \in Files : f[1] = r}
CodeRepos  == SelectSeq(Repos, LAMBDA r : r \notin IdlRepos)

(* What the parser finds: a declaration with a parent lies inside a type   *)
(* of the same file, and what is called occurs in the text.                *)
IsText(t) ==
    /\ \A d \in t.decls :
        /\ d.kind \in {"function", "method", "type"} /\ d.line \in Nat \ {0}
        /\ d.parent # None => \E c \in t.decls : c.kind = "type" /\ c.name = d.parent
    /\ t.calls \subseteq t.words

(* A file lies in one of the code repositories, under a relative path.     *)
ASSUME WorkspaceAssumption ==
    /\ Repos \in Seq(STRING) /\ CodeRepos \in Seq(STRING)
    /\ \A f \in Files :
        /\ f = <<f[1], f[2]>> /\ f[2] # None
        /\ f[1] \in (Range(Repos) \ IdlRepos) \cap Range(CodeRepos)
        /\ TextsOf[f] # {} /\ Absent \notin TextsOf[f] /\ \A t \in TextsOf[f] : IsText(t)
    /\ \A f, g \in Files : f[1] = g[1] =>
        AbsPath[f] # g[2] /\ (AbsPath[f] = AbsPath[g] => f = g)

(* IDL methods are those of the configured IDL repositories; the symbol of *)
(* one begins with its service (index_idl_repo).                           *)
ASSUME IdlAssumption ==
    \A m \in IdlMethods : m[1] \in Range(Repos) \cap IdlRepos /\ <<m[3], m[4]>> \in StartsWith

VARIABLES
    disk,     \* the text of each file
    head,     \* its text in the HEAD commit
    staged,   \* new files added to the git index
    graph,    \* index.db
    outline,  \* outline.db: <<repo, path>> -> text
    deps,     \* deps.db: the rows of forward_edges and of external_imports
    build,    \* where a build is
    update,   \* where an update is
    calm,     \* history: nothing disturbed the command that runs
    last,     \* history: the command that ended undisturbed, nothing since
    covered,  \* history: the files of the last update
    spent     \* how much of each bound is used up

repoFiles == <<disk, head, staged>>
stores    == <<graph, outline, deps>>
history   == <<calm, last, covered>>
vars == <<repoFiles, stores, build, update, history, spent>>

NoText     == [decls |-> {}, words |-> {}, calls |-> {}, imports |-> <<>>]
Current(f) == IF disk[f] = Absent THEN NoText ELSE disk[f]

Idle  == [pc |-> "idle", repos |-> <<>>, todo |-> <<>>, rows |-> {}, ext |-> {}]
Quiet == [pc |-> "idle", todo |-> {}, file |-> None, repos |-> {}, repo |-> None,
          rows |-> {}, ext |-> {}]

Init ==
    /\ disk \in [Files -> UNION {TextsOf[f] : f \in Files}]
    /\ \A f \in Files : disk[f] = CHOOSE t \in TextsOf[f] : TRUE
    /\ head = [f \in Files |-> IF f \in Untracked THEN Absent ELSE disk[f]]
    /\ staged = {}
    /\ graph = EmptyGraph /\ outline = <<>> /\ deps = [rows |-> {}, ext |-> {}]
    /\ build = Idle /\ update = Quiet
    /\ calm = FALSE /\ last = "none" /\ covered = {}
    /\ spent = [user |-> 0, builds |-> 0, updates |-> 0, mishaps |-> 0]

Spend(what, limit) ==
    /\ spent[what] < limit
    /\ spent' = [spent EXCEPT ![what] = @ + 1]

-----------------------------------------------------------------------------
(* The user.                                                               *)

Edit(f, text) ==
    /\ Spend("user", MaxUserSteps)
    /\ text # disk[f]
    /\ disk' = [disk EXCEPT ![f] = text]
    /\ calm' = FALSE /\ last' = "none"
    /\ UNCHANGED <<head, staged, stores, build, update, covered>>

Stage(f) ==
    /\ disk[f] # Absent /\ head[f] = Absent /\ f \notin staged
    /\ staged' = staged \cup {f}
    /\ UNCHANGED <<disk, head, stores, build, update, history, spent>>

(* git add -A and git commit.                                              *)
Commit ==
    /\ Spend("user", MaxUserSteps)
    /\ head # disk
    /\ head' = disk /\ staged' = {}
    /\ UNCHANGED <<disk, stores, build, update, history>>

-----------------------------------------------------------------------------
(* repolayer build.                                                        *)

(* A command that starts alone runs undisturbed until something happens.   *)
Begins(other) == calm' = (other.pc = "idle") /\ last' = "none"

BuildStart ==
    /\ build.pc = "idle"
    /\ Spend("builds", MaxBuilds)
    /\ build' = [Idle EXCEPT !.pc = "repo", !.repos = Repos]
    /\ Begins(update)
    /\ UNCHANGED <<repoFiles, stores, update, covered>>

BuildStep(pc) == build.pc = pc /\ UNCHANGED <<repoFiles, update, history, spent>>

(* The parallel parse of a repository: its texts as they are at this point.*)
ParseRepo ==
    /\ BuildStep("repo") /\ build.repos # <<>> /\ Head(build.repos) \notin IdlRepos
    /\ LET r == Head(build.repos)
       IN  /\ graph' = UpsertNodes(graph, EdgeRows({RepoNode(r)}, 0))
           /\ build' = [build EXCEPT !.pc = "write",
                            !.todo = [f \in Visible(disk) \cap FilesOf(r) |-> disk[f]]]
    /\ UNCHANGED <<outline, deps>>

ParseIdlRepo ==
    /\ BuildStep("repo") /\ build.repos # <<>> /\ Head(build.repos) \in IdlRepos
    /\ graph' = IndexIdl(graph, Head(build.repos))
    /\ build' = [build EXCEPT !.repos = Tail(@)]
    /\ UNCHANGED <<outline, deps>>

(* The serial writes of one file: declarations as they were parsed,        *)
(* imports as the file is read again now.                                  *)
WriteFile(f) ==
    /\ BuildStep("write") /\ f \in DOMAIN build.todo
    /\ \E pick \in Picks(Current(f)) :
        graph' = EmitImports(EmitModule(graph, f, build.todo[f]), f, Current(f), disk, pick)
    /\ outline' = Over([k \in {<<f[1], AbsPath[f]>>} |-> build.todo[f]], outline)
    /\ build' = [build EXCEPT !.todo = [g \in DOMAIN @ \ {f} |-> @[g]]]
    /\ UNCHANGED deps

RepoWritten ==
    /\ BuildStep("write") /\ DOMAIN build.todo = {}
    /\ build' = [build EXCEPT !.pc = "repo", !.repos = Tail(@)]
    /\ UNCHANGED stores

AllReposWritten ==
    /\ BuildStep("repo") /\ build.repos = <<>>
    /\ build' = [build EXCEPT !.pc = "deps", !.repos = CodeRepos]
    /\ UNCHANGED stores

(* build_for_repo reads the files; replace_repo_graph deletes the rows of  *)
(* the repository and inserts the new ones, statement by statement.        *)
InRepo_Nothing(r) == {}    \* mutant: no row is deleted

InRepo(r)  == {x \in deps.rows : x.file[1] = r}
ExtIn(r)   == {x \in deps.ext : x.file[1] = r}

WipeDeps ==
    /\ BuildStep("deps") /\ build.repos # <<>>
    /\ LET r == Head(build.repos)
       IN  /\ deps' = [rows |-> deps.rows \ InRepo(r), ext |-> deps.ext \ ExtIn(r)]
           /\ build' = [build EXCEPT !.pc = "insert",
                            !.rows = UNION {BuildRows(f, disk) : f \in FilesOf(r)},
                            !.ext  = UNION {ExternalRows(f, disk) : f \in FilesOf(r)}]
    /\ UNCHANGED <<graph, outline>>

InsertDeps ==
    /\ BuildStep("insert")
    /\ deps' = [rows |-> deps.rows \cup build.rows, ext |-> deps.ext \cup build.ext]
    /\ build' = [build EXCEPT !.pc = "deps", !.repos = Tail(@), !.rows = {}, !.ext = {}]
    /\ UNCHANGED <<graph, outline>>

(* A failed insert is a warning: the build goes on without the rows.       *)
InsertFails ==
    /\ build.pc = "insert"
    /\ Spend("mishaps", MaxMishaps)
    /\ build' = [build EXCEPT !.pc = "deps", !.repos = Tail(@), !.rows = {}, !.ext = {}]
    /\ calm' = FALSE
    /\ UNCHANGED <<repoFiles, stores, update, last, covered>>

LinkStep(from, to, g) ==
    /\ BuildStep(from)
    /\ graph' = g
    /\ build' = [build EXCEPT !.pc = to]
    /\ UNCHANGED <<outline, deps>>

AllDepsWritten == build.repos = <<>> /\ LinkStep("deps", "calls", LinkIdl(graph, disk))
RunCalls       == LinkStep("calls", "imports", LinkCalls(graph, disk))
RunImports     == LinkStep("imports", "links", LinkImports(graph, deps.ext))

BuildDone ==
    /\ build.pc = "links"
    /\ graph' = LinkManually(graph)
    /\ build' = Idle
    /\ last' = (IF calm THEN "build" ELSE "none")
    /\ UNCHANGED <<repoFiles, outline, deps, update, calm, covered, spent>>

(* A kill, or an error that leaves build_all through `?`.                  *)
BuildKilled ==
    /\ build.pc # "idle"
    /\ Spend("mishaps", MaxMishaps)
    /\ build' = Idle
    /\ UNCHANGED <<repoFiles, stores, update, history>>

Build ==
    \/ BuildStart \/ ParseRepo \/ ParseIdlRepo \/ (\E f \in Files : WriteFile(f))
    \/ RepoWritten \/ AllReposWritten \/ WipeDeps \/ InsertDeps \/ InsertFails
    \/ AllDepsWritten \/ RunCalls \/ RunImports \/ BuildDone \/ BuildKilled

-----------------------------------------------------------------------------
(* repolayer update.                                                       *)

(* The files git reports between HEAD and the working tree: no untracked   *)
(* file, and no file that was committed or reverted since it was indexed.  *)
Changed == {f \in Files : /\ disk[f] # head[f]
                          /\ head[f] = Absent => f \in staged}

UpdateStart ==
    /\ update.pc = "idle" /\ spent.builds > 0 /\ Changed # {}
    /\ Spend("updates", MaxUpdates)
    /\ update' = [Quiet EXCEPT !.pc = "delete", !.todo = Changed,
                              !.repos = {f[1] : f \in Changed}]
    /\ covered' = Changed
    /\ Begins(build)
    /\ UNCHANGED <<repoFiles, stores, build>>

UpdateStep(pc) == update.pc = pc /\ UNCHANGED <<repoFiles, build, history, spent>>

(***************************************************************************)
(* reindex_file, first half.  The outline rows are kept under absolute     *)
(* paths and deleted under relative ones.  A file that is gone is done.    *)
(***************************************************************************)
DeleteFile(f) ==
    /\ UpdateStep("delete") /\ f \in update.todo
    /\ graph' = DeleteModule(graph, f[1], f[2])
    /\ outline' = [k \in DOMAIN outline \ {f} |-> outline[k]]
    /\ update' = IF disk[f] = Absent THEN [update EXCEPT !.todo = @ \ {f}]
                 ELSE [update EXCEPT !.pc = "rewrite", !.file = f]
    /\ UNCHANGED deps

(* The second half: the file is read again; its module, declarations and   *)
(* outline row are written, its imports, calls and IDL links are not.      *)
FileDone == [update EXCEPT !.pc = "delete", !.todo = @ \ {update.file}, !.file = None]

RewriteFile ==
    /\ UpdateStep("rewrite")
    /\ LET f == update.file
       IN  IF disk[f] = Absent THEN UNCHANGED <<graph, outline>>
           ELSE /\ graph' = EmitModule(graph, f, disk[f])
                /\ outline' = Over([k \in {<<f[1], AbsPath[f]>>} |-> disk[f]], outline)
    /\ update' = FileDone
    /\ UNCHANGED deps

(* A failed statement is a warning: the file stays as it is at that point  *)
(* and the update goes on with the next one.                               *)
ReindexFails ==
    /\ Spend("mishaps", MaxMishaps)
    /\ \/ \E f \in update.todo :
            /\ update.pc = "delete"
            /\ graph' \in {graph, DeleteNodesAt(graph, f[1], f[2])}
            /\ update' = [update EXCEPT !.todo = @ \ {f}]
       \/ update.pc = "rewrite" /\ update' = FileDone /\ UNCHANGED graph
    /\ calm' = FALSE
    /\ UNCHANGED <<repoFiles, outline, deps, build, last, covered>>

(* build_for_files resolves the imports of the changed files of one        *)
(* repository, with the files as they are at this point.                   *)
ResolveDeps(r) ==
    /\ UpdateStep("delete") /\ update.todo = {} /\ r \in update.repos
    /\ LET fs == covered \cap DepsFiles(disk) \cap FilesOf(r)
       IN  update' = [update EXCEPT !.pc = "wipe", !.todo = fs, !.repo = r,
                        !.rows = UNION {FileRows(f, disk) : f \in fs},
                        !.ext  = UNION {ExternalRows(f, disk) : f \in fs}]
    /\ UNCHANGED stores

(* upsert_file_edges: the rows of the file are deleted, then inserted.     *)
Without(fs) == [rows |-> {x \in deps.rows : x.file \notin fs},
                ext  |-> {x \in deps.ext : x.file \notin fs}]

WipeFileRows(f) ==
    /\ UpdateStep("wipe") /\ f \in update.todo
    /\ deps' = Without({f})
    /\ update' = [update EXCEPT !.pc = "insert", !.file = f]
    /\ UNCHANGED <<graph, outline>>

InsertFileRows ==
    /\ UpdateStep("insert")
    /\ LET f == update.file
       IN  /\ deps' = [rows |-> deps.rows \cup {x \in update.rows : x.file = f},
                       ext  |-> deps.ext \cup {x \in update.ext : x.file = f}]
           /\ update' = [update EXCEPT !.pc = "wipe", !.todo = @ \ {f}, !.file = None]
    /\ UNCHANGED <<graph, outline>>

(* The rows of the changed files that are not on disk are deleted, and the *)
(* next repository is looked at.                                           *)
DropGoneRows ==
    /\ update.pc = "wipe" /\ update.todo = {}
    /\ deps' = Without({f \in covered \cap FilesOf(update.repo) : disk[f] = Absent})
    /\ LET left == update.repos \ {update.repo}
       IN  IF left = {}
           THEN update' = Quiet /\ last' = (IF calm THEN "update" ELSE "none")
           ELSE /\ update' = [update EXCEPT !.pc = "delete", !.repos = left, !.repo = None,
                                            !.rows = {}, !.ext = {}]
                /\ UNCHANGED last
    /\ UNCHANGED <<repoFiles, graph, outline, build, calm, covered, spent>>

UpdateKilled ==
    /\ update.pc # "idle"
    /\ Spend("mishaps", MaxMishaps)
    /\ update' = Quiet
    /\ UNCHANGED <<repoFiles, stores, build, history>>

Update ==
    \/ UpdateStart \/ (\E f \in Files : DeleteFile(f)) \/ RewriteFile \/ ReindexFails
    \/ (\E r \in Range(CodeRepos) : ResolveDeps(r))
    \/ (\E f \in Files : WipeFileRows(f)) \/ InsertFileRows \/ DropGoneRows \/ UpdateKilled

User ==
    \/ \E f \in Files : (\E t \in TextsOf[f] \cup {Absent} : Edit(f, t)) \/ Stage(f)
    \/ Commit

Next == User \/ Build \/ Update

Spec == Init /\ [][Next]_vars

-----------------------------------------------------------------------------
TypeOK ==
    /\ \A f \in Files : disk[f] \in TextsOf[f] \cup {Absent} /\ head[f] \in TextsOf[f] \cup {Absent}
    /\ staged \subseteq Files /\ covered \subseteq Files
    /\ \A n \in DOMAIN graph.nodes : Len(n) = 4 /\ graph.nodes[n] \in Nat
    /\ \A e \in DOMAIN graph.edges : Len(e) = 3 /\ graph.edges[e] \in 1..100
    /\ \A x \in deps.rows \cup deps.ext : x.file \in Files
    /\ last \in {"none", "build", "update"} /\ calm \in BOOLEAN
    /\ update.pc \in {"idle", "delete", "rewrite", "wipe", "insert"}
    /\ build.pc \in {"idle", "repo", "write", "deps", "insert", "calls", "imports", "links"}

(* What the graph must hold for a file with a given text.                  *)
DeclaredAt(f, text) == {Module(f)} \cup {DeclNode(f, d) : d \in text.decls}

HoldsFile(f, text) ==
    /\ DeclaredAt(f, text) \subseteq NodesAtPath(graph, f[1], f[2])
    /\ \A d \in text.decls : \E c \in text.decls :
            /\ DeclNode(f, c) = DeclNode(f, d)
            /\ graph.nodes[DeclNode(f, d)] = c.line
            /\ \E p \in DeclaredAt(f, text) : <<p, DeclNode(f, d), "contains">> \in DOMAIN graph.edges
    /\ <<RepoNode(f[1]), Module(f), "contains">> \in DOMAIN graph.edges
    /\ outline[<<f[1], AbsPath[f]>>] = text

(* Of two files that declare a name none can be meant by a call.           *)
DefinitionsOf(n) == {c \in DOMAIN graph.nodes : KindOf(c) \in {"function", "method"} /\ SymbolOf(c) = n}

DeclaredNames == {SymbolOf(c) : c \in Callables(graph)}

(***************************************************************************)
(* After a build that nothing disturbed, whatever ran or failed before it, *)
(* the stores mirror the working tree: every file with its declarations,   *)
(* every import of a file that exists, a call edge for every called name   *)
(* with one definition that the name scan reports, and exactly the         *)
(* dependency rows of the files there are (build_all).                     *)
(***************************************************************************)
BuildMirrorsDisk ==
    last = "build" =>
        /\ \A f \in Visible(disk) :
            /\ HoldsFile(f, disk[f])
            /\ \A s \in Specs(disk[f]) :
                IsRelative(s) /\ Target(f, s) \in Present(disk) =>
                    <<Module(f), Module(Target(f, s)), "imports">> \in DOMAIN graph.edges
            /\ \A n \in disk[f].calls \ Noise : \A c \in DefinitionsOf(n) :
                DefinitionsOf(n) = {c} /\ (\A m \in DeclaredNames : <<m, n>> \notin Shadows) =>
                    <<Module(f), c, "calls">> \in DOMAIN graph.edges
        /\ \A x \in deps.rows : {x.file, x.to} \subseteq Present(disk)
        /\ \A f \in DepsFiles(disk) : \A i \in DOMAIN disk[f].imports :
                LET s == disk[f].imports[i].spec
                IN  \/ \E x \in deps.rows : x.file = f /\ IsRelative(s) /\ x.to = Target(f, s)
                    \/ [file |-> f, raw |-> s] \in deps.ext

(***************************************************************************)
(* After an update that nothing disturbed and in which nothing failed, the *)
(* graph holds of each file it covered the module and the declarations of  *)
(* the file as it is, and nothing else; the dependency rows of a deleted   *)
(* file are gone; and no edge of the graph lacks an end                    *)
(* (incremental::update, reindex_file, delete_module).                     *)
(***************************************************************************)
UpdateMirrorsChanges ==
    last = "update" =>
        /\ \A f \in covered :
            IF disk[f] = Absent
            THEN NodesAtPath(graph, f[1], f[2]) = {} /\ Without({f}) = deps
            ELSE /\ HoldsFile(f, disk[f])
                 /\ NodesAtPath(graph, f[1], f[2]) = DeclaredAt(f, disk[f])
                 /\ f \in DepsFiles(disk) => {x \in deps.rows : x.file = f} = FileRows(f, disk)
        /\ \A e \in DOMAIN graph.edges : ~Dangles(graph, e)

(***************************************************************************)
(* An update takes an edge out of the graph only when the edge touches a   *)
(* file it covers or has lost an end before, and the links it does not     *)
(* compute, imports, calls and IDL links, it never adds                    *)
(* (reindex_file, delete_module).                                          *)
(***************************************************************************)
TouchesCovered(e) == \E f \in covered, i \in {1, 2} : RepoOf(e[i]) = f[1] /\ PathOf(e[i]) = f[2]

UpdateLosesOnlyItsOwn ==
    [][build = build' =>
        /\ \A e \in DOMAIN graph.edges \ DOMAIN graph'.edges : TouchesCovered(e) \/ Dangles(graph, e)
        /\ \A e \in DOMAIN graph'.edges \ DOMAIN graph.edges : e[3] = "contains"]_vars

(***************************************************************************)
(* The queries agree about who calls a name.  `callers --depth N` finds    *)
(* the same callers for every N, because a Calls edge starts at a module   *)
(* and none ends at one; each of them is reached from one definition by    *)
(* get_callers, and is listed by get_symbol for that definition, as long   *)
(* as neither query's LIMIT cuts the rows that match the name              *)
(* (walk_callers, get_callers_all, get_callers, get_symbol).               *)
(***************************************************************************)
Uncut(n) == \A limit \in {50, 200} : Cardinality(MatchingSymbols(graph, n, None)) <= limit

CallersAgree ==
    last # "none" => \A n \in {m \in DeclaredNames : Uncut(m)} :
        /\ CallersOf(graph, n, None, 3) = CallersOf(graph, n, None, 1)
        /\ LET called == {{c.caller : c \in chains} : chains \in CallersOf(graph, n, None, 1)}
               shown  == {r.callers : r \in SymbolResults(graph, n, None)}
           IN  CallersOfOne(graph, n, 1) = shown /\ called = {UNION shown}

(***************************************************************************)
(* After a build that nothing disturbed, a file that calls an IDL method   *)
(* is found from the method, as a server or a client by where it lies, and *)
(* the method is found from the file when it is in another repository; and *)
(* the dependencies of a module reach the files its local imports reach    *)
(* (IdlLinker, find_idl_impl, collect_cross_repo_edges, get_dependencies). *)
(***************************************************************************)
LinksAreFound ==
    last = "build" => \A f \in Visible(disk) :
        /\ \A m \in IdlMethods :
            Short[m[4]] \in disk[f].calls \ Noise
                /\ (\A o \in IdlMethods : <<Short[o[4]], Short[m[4]]>> \notin Shadows) =>
                /\ \E r \in IdlImpls(graph, m[4], m[3]) :
                    Module(f) \in (IF f \in ServerSide THEN r.implements ELSE r.invokes)
                /\ m[1] # f[1] => \E e \in CrossRepoEdges(graph, Module(f)) : SymbolOf(e[2]) = m[4]
        /\ LET near == LocalTargets(f, disk[f], disk)
               far  == UNION {LocalTargets(t, disk[t], disk) : t \in near \cap Visible(disk)}
           IN  {Module(t) : t \in near \cup far} \subseteq Dependencies(graph, Module(f), 2)

(***************************************************************************)
(* After a build, a search hit in an indexed file is mapped to a node of   *)
(* the graph: find_context.rs takes "the Module node for the file (always  *)
(* present after build)" when no declaration fits.  The path of a hit is   *)
(* the one the chunk was stored under, which comes from outline.db.        *)
(***************************************************************************)
HitsReachTheGraph ==
    last = "build" => \A k \in DOMAIN outline :
        (\E f \in Visible(disk) : k = <<f[1], AbsPath[f]>>) =>
            PickNode(graph, [repo |-> k[1], path |-> k[2], from |-> 1, to |-> 9]) # {}
=============================================================================
