--------------------------- MODULE CodeIndexProofs ---------------------------
(***************************************************************************)
(* Theorems about CodeIndex for every workspace: any repositories, files,  *)
(* texts, links and bounds.  The tables stay typed.  An update takes from  *)
(* the graph only what belongs to the files it covers, and one that        *)
(* nothing disturbed leaves the graph, the outline and the dependency rows *)
(* of these files as the files are.  A build that nothing disturbed leaves *)
(* all of the stores as the working tree is, whatever they held before,    *)
(* and what it links is found by the queries; and the queries for callers  *)
(* agree.                                                                  *)
(***************************************************************************)
EXTENDS CodeIndex, FiniteSetTheorems, TLAPS

-----------------------------------------------------------------------------
(* The operators on the graph.                                             *)

IsGraph(g) == g = [nodes |-> g.nodes, edges |-> g.edges]

TypedGraph(g) ==
    /\ IsGraph(g)
    /\ \A n \in DOMAIN g.nodes : Len(n) = 4 /\ g.nodes[n] \in Nat
    /\ \A e \in DOMAIN g.edges : Len(e) = 3 /\ g.edges[e] \in 1..100

LEMMA NodeLength ==
    ASSUME NEW k, NEW r, NEW p, NEW s
    PROVE  Len(Node(k, r, p, s)) = 4 /\ Len(RepoNode(r)) = 4 /\ Len(ModuleNode(r, p)) = 4
BY DEF Node, RepoNode, ModuleNode

LEMMA OverFacts ==
    ASSUME NEW rows, NEW table
    PROVE  /\ DOMAIN Over(rows, table) = DOMAIN rows \cup DOMAIN table
           /\ \A x \in DOMAIN rows : Over(rows, table)[x] = rows[x]
           /\ \A x \in DOMAIN table \ DOMAIN rows : Over(rows, table)[x] = table[x]
BY DEF Over

LEMMA UpsertNodesFacts ==
    ASSUME NEW g, IsGraph(g), NEW rows, NEW h, h = UpsertNodes(g, rows)
    PROVE  /\ IsGraph(h) /\ h.edges = g.edges
           /\ DOMAIN h.nodes = DOMAIN g.nodes \cup DOMAIN rows
           /\ \A n \in DOMAIN h.nodes :
                h.nodes[n] = IF n \in DOMAIN rows /\ (rows[n] # 0 \/ n \notin DOMAIN g.nodes)
                             THEN rows[n] ELSE g.nodes[n]
<1> DEFINE kept == {n \in DOMAIN rows : rows[n] = 0 /\ n \in DOMAIN g.nodes}
           new  == [n \in DOMAIN rows \ kept |-> rows[n]]
           all  == Over(new, g.nodes)
<1>1. h = [nodes |-> all, edges |-> g.edges]
  BY DEF UpsertNodes, IsGraph
<1>2. IsGraph(h) /\ h.nodes = all /\ h.edges = g.edges
  BY <1>1 DEF IsGraph
<1>3. DOMAIN new = DOMAIN rows \ kept /\ \A n \in DOMAIN new : new[n] = rows[n]
  OBVIOUS
<1> HIDE DEF new
<1>4. /\ DOMAIN all = DOMAIN new \cup DOMAIN g.nodes
      /\ \A n \in DOMAIN new : all[n] = new[n]
      /\ \A n \in DOMAIN g.nodes \ DOMAIN new : all[n] = g.nodes[n]
  BY OverFacts
<1> HIDE DEF all
<1> QED BY <1>2, <1>3, <1>4

LEMMA UpsertEdgesFacts ==
    ASSUME NEW g, IsGraph(g), NEW rows, NEW h, h = UpsertEdges(g, rows)
    PROVE  /\ IsGraph(h) /\ h.nodes = g.nodes
           /\ DOMAIN h.edges = DOMAIN g.edges \cup DOMAIN rows
           /\ \A e \in DOMAIN h.edges :
                h.edges[e] = IF e \in DOMAIN rows THEN rows[e] ELSE g.edges[e]
<1> DEFINE all == Over(rows, g.edges)
<1>1. h = [nodes |-> g.nodes, edges |-> all]
  BY DEF UpsertEdges, IsGraph
<1>2. IsGraph(h) /\ h.nodes = g.nodes /\ h.edges = all
  BY <1>1 DEF IsGraph
<1>3. /\ DOMAIN all = DOMAIN rows \cup DOMAIN g.edges
      /\ \A e \in DOMAIN rows : all[e] = rows[e]
      /\ \A e \in DOMAIN g.edges \ DOMAIN rows : all[e] = g.edges[e]
  BY OverFacts
<1> HIDE DEF all
<1> QED BY <1>2, <1>3

LEMMA EdgeRowsFacts ==
    ASSUME NEW triples, NEW confidence
    PROVE  /\ DOMAIN EdgeRows(triples, confidence) = triples
           /\ \A e \in triples : EdgeRows(triples, confidence)[e] = confidence
BY DEF EdgeRows

LEMMA UpsertNodesTyped ==
    ASSUME NEW g, TypedGraph(g), NEW rows, \A n \in DOMAIN rows : Len(n) = 4 /\ rows[n] \in Nat
    PROVE  TypedGraph(UpsertNodes(g, rows))
BY UpsertNodesFacts DEF TypedGraph

LEMMA UpsertEdgesTyped ==
    ASSUME NEW g, TypedGraph(g), NEW rows, \A e \in DOMAIN rows : Len(e) = 3 /\ rows[e] \in 1..100
    PROVE  TypedGraph(UpsertEdges(g, rows))
BY UpsertEdgesFacts DEF TypedGraph

(* Nodes without a line, and edges of one confidence.                      *)
LEMMA PlainNodesTyped ==
    ASSUME NEW g, TypedGraph(g), NEW S, \A n \in S : Len(n) = 4
    PROVE  TypedGraph(UpsertNodes(g, EdgeRows(S, 0)))
BY UpsertNodesTyped, EdgeRowsFacts

LEMMA PlainEdgesTyped ==
    ASSUME NEW g, TypedGraph(g), NEW S, \A e \in S : Len(e) = 3, NEW c \in 1..100
    PROVE  TypedGraph(UpsertEdges(g, EdgeRows(S, c)))
BY UpsertEdgesTyped, EdgeRowsFacts

(* What is declared in a file, with the file itself.                       *)
LEMMA DeclaredPlaces ==
    ASSUME NEW f \in Files, NEW text, NEW n \in DeclaredAt(f, text)
    PROVE  RepoOf(n) = f[1] /\ PathOf(n) = f[2] /\ Len(n) = 4
BY DEF DeclaredAt, Module, ModuleNode, DeclNode, Node, RepoOf, PathOf

LEMMA RepoNodePlace ==
    ASSUME NEW f \in Files, NEW r
    PROVE  PathOf(RepoNode(r)) # f[2]
BY WorkspaceAssumption DEF RepoNode, Node, PathOf

LEMMA ParentDeclared ==
    ASSUME NEW f \in Files, NEW text, IsText(text), NEW d \in text.decls
    PROVE  DeclParent(f, d) \in DeclaredAt(f, text)
BY DEF DeclParent, DeclaredAt, IsText, DeclNode

LEMMA EmitModuleFacts ==
    ASSUME NEW g, IsGraph(g), NEW f \in Files, NEW text, IsText(text),
           NEW h, h = EmitModule(g, f, text)
    PROVE  /\ IsGraph(h)
           /\ DOMAIN h.nodes = DOMAIN g.nodes \cup {RepoNode(f[1])} \cup DeclaredAt(f, text)
           /\ DOMAIN h.edges = DOMAIN g.edges \cup {<<RepoNode(f[1]), Module(f), "contains">>}
                \cup {<<DeclParent(f, d), DeclNode(f, d), "contains">> : d \in text.decls}
           /\ \A n \in DOMAIN g.nodes \ DeclaredAt(f, text) : h.nodes[n] = g.nodes[n]
           /\ \A d \in text.decls : \E c \in text.decls :
                DeclNode(f, c) = DeclNode(f, d) /\ h.nodes[DeclNode(f, d)] = c.line
<1> DEFINE ds == text.decls
           g1 == UpsertNodes(g, EdgeRows({RepoNode(f[1]), Module(f)}, 0))
           g2 == UpsertEdges(g1, EdgeRows({<<RepoNode(f[1]), Module(f), "contains">>}, 100))
           rows == [n \in {DeclNode(f, d) : d \in ds} |->
                        (CHOOSE d \in ds : DeclNode(f, d) = n).line]
           g3 == UpsertNodes(g2, rows)
           es == {<<DeclParent(f, d), DeclNode(f, d), "contains">> : d \in ds}
           g4 == UpsertEdges(g3, EdgeRows(es, 100))
<1>1. h = g4
  BY DEF EmitModule, EmitDecls
<1>2. /\ IsGraph(g1) /\ g1.edges = g.edges
      /\ DOMAIN g1.nodes = DOMAIN g.nodes \cup {RepoNode(f[1]), Module(f)}
      /\ \A n \in DOMAIN g.nodes : g1.nodes[n] = g.nodes[n]
  BY UpsertNodesFacts, EdgeRowsFacts
<1> HIDE DEF g1
<1>3. /\ IsGraph(g2) /\ g2.nodes = g1.nodes
      /\ DOMAIN g2.edges = DOMAIN g.edges \cup {<<RepoNode(f[1]), Module(f), "contains">>}
  BY <1>2, UpsertEdgesFacts, EdgeRowsFacts
<1> HIDE DEF g2
<1>4. /\ DOMAIN rows = {DeclNode(f, d) : d \in ds}
      /\ \A d \in ds : \E c \in ds : DeclNode(f, c) = DeclNode(f, d)
                            /\ rows[DeclNode(f, d)] = c.line /\ c.line # 0
  <2>1. ASSUME NEW d \in ds
        PROVE  \E c \in ds : DeclNode(f, c) = DeclNode(f, d)
                    /\ rows[DeclNode(f, d)] = c.line /\ c.line # 0
    <3> DEFINE c == CHOOSE e \in ds : DeclNode(f, e) = DeclNode(f, d)
    <3>1. c \in ds /\ DeclNode(f, c) = DeclNode(f, d)
      OBVIOUS
    <3>2. rows[DeclNode(f, d)] = c.line
      OBVIOUS
    <3> HIDE DEF c, rows
    <3> QED BY <3>1, <3>2 DEF IsText
  <2> QED BY <2>1
<1> HIDE DEF rows
<1>5. /\ IsGraph(g3) /\ g3.edges = g2.edges
      /\ DOMAIN g3.nodes = DOMAIN g2.nodes \cup {DeclNode(f, d) : d \in ds}
      /\ \A n \in DOMAIN g2.nodes : n \notin DOMAIN rows => g3.nodes[n] = g2.nodes[n]
      /\ \A n \in DOMAIN rows : rows[n] # 0 => g3.nodes[n] = rows[n]
  <2>1. /\ IsGraph(g3) /\ g3.edges = g2.edges
        /\ DOMAIN g3.nodes = DOMAIN g2.nodes \cup DOMAIN rows
        /\ \A n \in DOMAIN g3.nodes :
             g3.nodes[n] = IF n \in DOMAIN rows /\ (rows[n] # 0 \/ n \notin DOMAIN g2.nodes)
                          THEN rows[n] ELSE g2.nodes[n]
    BY <1>3, UpsertNodesFacts
  <2> HIDE DEF g3
  <2> QED BY <1>4, <2>1
<1> HIDE DEF g3
<1>6. /\ IsGraph(g4) /\ g4.nodes = g3.nodes /\ DOMAIN g4.edges = DOMAIN g2.edges \cup es
  BY <1>5, UpsertEdgesFacts, EdgeRowsFacts
<1> HIDE DEF g4
<1>7. DOMAIN h.nodes = DOMAIN g.nodes \cup {RepoNode(f[1])} \cup DeclaredAt(f, text)
  BY <1>1, <1>2, <1>3, <1>5, <1>6 DEF DeclaredAt
<1>8. \A n \in DOMAIN g.nodes \ DeclaredAt(f, text) : h.nodes[n] = g.nodes[n]
  BY <1>1, <1>2, <1>3, <1>4, <1>5, <1>6 DEF DeclaredAt
<1>9. \A d \in ds : \E c \in ds :
        DeclNode(f, c) = DeclNode(f, d) /\ h.nodes[DeclNode(f, d)] = c.line
  <2> TAKE d \in ds
  <2>1. PICK c \in ds : DeclNode(f, c) = DeclNode(f, d)
                            /\ rows[DeclNode(f, d)] = c.line /\ c.line # 0
    BY <1>4
  <2>2. h.nodes[DeclNode(f, d)] = c.line
    BY <1>1, <1>4, <1>5, <1>6, <2>1
  <2> QED BY <2>1, <2>2
<1> QED BY <1>1, <1>3, <1>6, <1>7, <1>8, <1>9

LEMMA DeleteModuleFacts ==
    ASSUME NEW g, IsGraph(g), NEW r, NEW p, NEW h, h = DeleteModule(g, r, p)
    PROVE  /\ IsGraph(h)
           /\ DOMAIN h.nodes = {n \in DOMAIN g.nodes : ~(RepoOf(n) = r /\ PathOf(n) = p)}
           /\ \A n \in DOMAIN h.nodes : h.nodes[n] = g.nodes[n]
           /\ DOMAIN h.edges = {e \in DOMAIN g.edges : e[1] \in DOMAIN h.nodes /\ e[2] \in DOMAIN h.nodes}
           /\ \A e \in DOMAIN h.edges : h.edges[e] = g.edges[e]
<1> DEFINE left == [n \in {m \in DOMAIN g.nodes : ~(RepoOf(m) = r /\ PathOf(m) = p)} |-> g.nodes[n]]
           d == [nodes |-> left, edges |-> g.edges]
           ends == {e \in DOMAIN g.edges : ~Dangles(d, e)}
<1>1. DeleteNodesAt(g, r, p) = d
  BY DEF DeleteNodesAt, IsGraph
<1>2. h = [nodes |-> left, edges |-> [e \in ends |-> g.edges[e]]]
  BY <1>1 DEF DeleteModule, SweepEdges
<1>3. ends = {e \in DOMAIN g.edges : e[1] \in DOMAIN left /\ e[2] \in DOMAIN left}
  BY DEF Dangles
<1> QED BY <1>2, <1>3 DEF IsGraph

LEMMA EmitModuleTyped ==
    ASSUME NEW g, TypedGraph(g), NEW f \in Files, NEW text, IsText(text)
    PROVE  TypedGraph(EmitModule(g, f, text))
<1> DEFINE ds == text.decls
           g1 == UpsertNodes(g, EdgeRows({RepoNode(f[1]), Module(f)}, 0))
           g2 == UpsertEdges(g1, EdgeRows({<<RepoNode(f[1]), Module(f), "contains">>}, 100))
           rows == [n \in {DeclNode(f, d) : d \in ds} |->
                        (CHOOSE d \in ds : DeclNode(f, d) = n).line]
           g3 == UpsertNodes(g2, rows)
           es == {<<DeclParent(f, d), DeclNode(f, d), "contains">> : d \in ds}
<1>1. TypedGraph(g1)
  BY PlainNodesTyped, NodeLength DEF Module
<1> HIDE DEF g1
<1>2. TypedGraph(g2)
  BY <1>1, PlainEdgesTyped
<1> HIDE DEF g2
<1>3. \A n \in DOMAIN rows : Len(n) = 4 /\ rows[n] \in Nat
  <2> SUFFICES ASSUME NEW n \in DOMAIN rows PROVE Len(n) = 4 /\ rows[n] \in Nat
    OBVIOUS
  <2> DEFINE c == CHOOSE d \in ds : DeclNode(f, d) = n
  <2>1. c \in ds /\ DeclNode(f, c) = n /\ rows[n] = c.line
    OBVIOUS
  <2> HIDE DEF c
  <2> QED BY <2>1, NodeLength DEF DeclNode, IsText
<1> HIDE DEF rows
<1>4. TypedGraph(g3)
  BY <1>2, <1>3, UpsertNodesTyped
<1> HIDE DEF g3
<1>5. TypedGraph(UpsertEdges(g3, EdgeRows(es, 100)))
  BY <1>4, PlainEdgesTyped
<1> QED BY <1>5 DEF EmitModule, EmitDecls, g1, g2, g3, rows

LEMMA EmitImportsTyped ==
    ASSUME NEW g, TypedGraph(g), NEW f, NEW text, NEW d, NEW pick
    PROVE  TypedGraph(EmitImports(g, f, text, d, pick))
<1> DEFINE local == {Module(t) : t \in LocalTargets(f, text, d)}
           pkgs == {pick[s] : s \in {t \in Specs(text) : ~IsRelative(t) /\ LookupPackage(t) # {}}}
           PkgModule(p) == ModuleNode(p.repo, IF p.main = None THEN "package.json" ELSE p.main)
           targets == local \cup {PkgModule(p) : p \in pkgs}
           contained == {<<RepoNode(f[1]), m, "contains">> : m \in local}
               \cup {<<RepoNode(p.repo), PkgModule(p), "contains">> : p \in {q \in pkgs : q.main = None}}
           es == contained \cup {<<Module(f), m, "imports">> : m \in targets}
<1>1. TypedGraph(UpsertNodes(g, EdgeRows(targets, 0)))
  BY PlainNodesTyped, NodeLength DEF Module
<1>2. \A e \in es : Len(e) = 3
  OBVIOUS
<1>3. EmitImports(g, f, text, d, pick) =
        UpsertEdges(UpsertNodes(g, EdgeRows(targets, 0)), EdgeRows(es, 100))
  BY DEF EmitImports
<1> HIDE DEF es, targets
<1> QED BY <1>1, <1>2, <1>3, PlainEdgesTyped

LEMMA IndexIdlTyped ==
    ASSUME NEW g, TypedGraph(g), NEW r
    PROVE  TypedGraph(IndexIdl(g, r))
<1> DEFINE ms == {m \in IdlMethods : m[1] = r}
           Service(m) == Node("idlservice", r, m[2], m[3])
           Method(m) == Node("idlmethod", r, m[2], m[4])
           ns == {RepoNode(r)} \cup {Service(m) : m \in ms} \cup {Method(m) : m \in ms}
           es == {<<RepoNode(r), Service(m), "defines">> : m \in ms}
                    \cup {<<Service(m), Method(m), "contains">> : m \in ms}
<1>1. TypedGraph(UpsertNodes(g, EdgeRows(ns, 0)))
  BY PlainNodesTyped, NodeLength
<1>2. \A e \in es : Len(e) = 3
  OBVIOUS
<1>3. IndexIdl(g, r) = UpsertEdges(UpsertNodes(g, EdgeRows(ns, 0)), EdgeRows(es, 100))
  BY DEF IndexIdl
<1> HIDE DEF es, ns
<1> QED BY <1>1, <1>2, <1>3, PlainEdgesTyped

LEMMA LinkCallsTyped ==
    ASSUME NEW g, TypedGraph(g), NEW d
    PROVE  TypedGraph(LinkCalls(g, d))
<1> DEFINE names == UniqueNames(g)
           Def(n) == CHOOSE c \in Callables(g) : SymbolOf(c) = n
           es == UNION {{<<Module(f), Def(n), "calls">> : n \in NameHits(d[f], names) \cap d[f].calls}
                            : f \in Visible(d)}
<1>1. \A e \in es : Len(e) = 3
  OBVIOUS
<1>2. LinkCalls(g, d) = UpsertEdges(g, EdgeRows(es, 100))
  BY DEF LinkCalls
<1> HIDE DEF es
<1> QED BY <1>1, <1>2, PlainEdgesTyped

LEMMA LinkIdlTyped ==
    ASSUME NEW g, TypedGraph(g), NEW d
    PROVE  TypedGraph(LinkIdl(g, d))
<1> DEFINE methods == NodesByKind(g, "idlmethod")
           names == {Short[SymbolOf(m)] : m \in methods} \ Noise
           Named(n) == {m \in methods : Short[SymbolOf(m)] = n}
           Score(f, n) == (IF n \in d[f].calls THEN 70 ELSE IF f \in ServerSide THEN 40 ELSE 0)
                              \div (IF Cardinality(Named(n)) > 1 THEN 2 ELSE 1)
           Kind(f) == IF f \in ServerSide THEN "implements" ELSE "invokes"
           links == {l \in Visible(d) \X names \X methods :
                        l[3] \in Named(l[2]) /\ l[2] \in NameHits(d[l[1]], names) /\ Score(l[1], l[2]) > 0}
           Edge(l) == <<Module(l[1]), l[3], Kind(l[1])>>
           rows == [e \in {Edge(l) : l \in links} |->
                        LET l == CHOOSE k \in links : Edge(k) = e IN Score(l[1], l[2])]
<1>1. LinkIdl(g, d) = UpsertEdges(g, rows)
  BY DEF LinkIdl
<1>2. \A f, n : Score(f, n) \in 0..70
  OBVIOUS
<1>3. \A l \in links : Score(l[1], l[2]) > 0
  OBVIOUS
<1> HIDE DEF Score
<1>4. ASSUME NEW e \in DOMAIN rows PROVE Len(e) = 3 /\ rows[e] \in 1..100
  <2> DEFINE k == CHOOSE k \in links : Edge(k) = e
  <2>1. k \in links /\ Edge(k) = e
    OBVIOUS
  <2>2. rows[e] = Score(k[1], k[2])
    OBVIOUS
  <2>3. Len(Edge(k)) = 3
    OBVIOUS
  <2> HIDE DEF k, links, rows, Edge
  <2>4. Score(k[1], k[2]) > 0
    BY <1>3, <2>1
  <2> QED BY <1>2, <2>1, <2>2, <2>3, <2>4
<1> HIDE DEF rows
<1> QED BY <1>1, <1>4, UpsertEdgesTyped

LEMMA LinkImportsTyped ==
    ASSUME NEW g, TypedGraph(g), NEW externals
    PROVE  TypedGraph(LinkImports(g, externals))
<1> DEFINE es == UNION {{<<Module(e.file), RepoNode(r), "imports">> :
                            r \in LongestMatch(e.raw) \ {e.file[1]}} : e \in externals}
<1>1. \A e \in es : Len(e) = 3
  OBVIOUS
<1>2. LinkImports(g, externals) = UpsertEdges(g, EdgeRows(es, 90))
  BY DEF LinkImports
<1> HIDE DEF es
<1> QED BY <1>1, <1>2, PlainEdgesTyped

LEMMA LinkManuallyTyped ==
    ASSUME NEW g, TypedGraph(g)
    PROVE  TypedGraph(LinkManually(g))
<1> DEFINE ns == UNION {{RepoNode(l[1]), RepoNode(l[2])} : l \in Links}
           es == {<<RepoNode(l[1]), RepoNode(l[2]),
                    IF l[3] \in {"calls", "invokes"} THEN l[3] ELSE "imports">> : l \in Links}
<1>1. TypedGraph(UpsertNodes(g, EdgeRows(ns, 0)))
  BY PlainNodesTyped, NodeLength
<1>2. \A e \in es : Len(e) = 3
  OBVIOUS
<1>3. LinkManually(g) = UpsertEdges(UpsertNodes(g, EdgeRows(ns, 0)), EdgeRows(es, 100))
  BY DEF LinkManually
<1> HIDE DEF es, ns
<1> QED BY <1>1, <1>2, <1>3, PlainEdgesTyped

LEMMA DeleteModuleTyped ==
    ASSUME NEW g, TypedGraph(g), NEW r, NEW p
    PROVE  TypedGraph(DeleteModule(g, r, p)) /\ TypedGraph(DeleteNodesAt(g, r, p))
<1>1. TypedGraph(DeleteModule(g, r, p))
  BY DeleteModuleFacts DEF TypedGraph
<1>2. TypedGraph(DeleteNodesAt(g, r, p))
  BY DEF DeleteNodesAt, TypedGraph, IsGraph
<1> QED BY <1>1, <1>2

-----------------------------------------------------------------------------
(* Where the commands are.  Everything a command holds is about files and  *)
(* texts there are, the files an update still has to do are files it       *)
(* covers, and a calm command runs alone.                                  *)

FilesTyped(d, h, st) ==
    /\ d = [f \in Files |-> d[f]] /\ h = [f \in Files |-> h[f]] /\ st \subseteq Files
    /\ \A f \in Files : d[f] \in TextsOf[f] \cup {Absent} /\ h[f] \in TextsOf[f] \cup {Absent}

AboutFiles(rows) == \A x \in rows : x.file \in Files

DepsTyped(ds) ==
    ds = [rows |-> ds.rows, ext |-> ds.ext] /\ AboutFiles(ds.rows) /\ AboutFiles(ds.ext)

BuildTyped(b) ==
    /\ b = [pc |-> b.pc, repos |-> b.repos, todo |-> b.todo, rows |-> b.rows, ext |-> b.ext]
    /\ b.pc \in {"idle", "repo", "write", "deps", "insert", "calls", "imports", "links"}
    /\ b.repos \in Seq(STRING)
    /\ b.pc \in {"write", "insert"} => b.repos # <<>>
    /\ \A f \in DOMAIN b.todo : f \in Files /\ b.todo[f] \in TextsOf[f]
    /\ AboutFiles(b.rows) /\ AboutFiles(b.ext)

UpdateTyped(u, done) ==
    /\ u = [pc |-> u.pc, todo |-> u.todo, file |-> u.file, repos |-> u.repos, repo |-> u.repo,
            rows |-> u.rows, ext |-> u.ext]
    /\ u.pc \in {"idle", "delete", "rewrite", "wipe", "insert"}
    /\ done \subseteq Files /\ u.todo \subseteq done
    /\ u.pc \in {"rewrite", "insert"} => u.file \in done
    /\ AboutFiles(u.rows) /\ AboutFiles(u.ext)

AloneWhenCalm(c, l, b, u) ==
    /\ c \in BOOLEAN /\ l \in {"none", "build", "update"}
    /\ c => b.pc = "idle" \/ u.pc = "idle"
    /\ l # "none" => b.pc = "idle" /\ u.pc = "idle"

TypeInv ==
    /\ FilesTyped(disk, head, staged)
    /\ TypedGraph(graph)
    /\ DepsTyped(deps)
    /\ BuildTyped(build)
    /\ UpdateTyped(update, covered)
    /\ AloneWhenCalm(calm, last, build, update)

(* A file that is there has one of its texts.                              *)
LEMMA TextsThere ==
    ASSUME FilesTyped(disk, head, staged), NEW f \in Files, disk[f] # Absent
    PROVE  disk[f] \in TextsOf[f] /\ IsText(disk[f]) /\ Current(f) = disk[f]
BY WorkspaceAssumption DEF FilesTyped, Current

LEMMA RowsAboutFiles ==
    ASSUME NEW f \in Files, NEW d
    PROVE  /\ AboutFiles(BuildRows(f, d)) /\ AboutFiles(FileRows(f, d))
           /\ AboutFiles(ExternalRows(f, d))
<1>1. AboutFiles(BuildRows(f, d))
  <2> SUFFICES ASSUME NEW x \in BuildRows(f, d) PROVE x.file \in Files
    BY DEF AboutFiles
  <2>1. \E spec, kind : x = DepRow(f, spec, kind)
    BY DEF BuildRows
  <2> QED BY <2>1 DEF DepRow
<1>2. AboutFiles(FileRows(f, d))
  BY DEF AboutFiles, FileRows, DepRow
<1>3. AboutFiles(ExternalRows(f, d))
  BY DEF AboutFiles, ExternalRows
<1> QED BY <1>1, <1>2, <1>3

LEMMA TypeInit == Init => TypeInv
<1> SUFFICES ASSUME Init PROVE TypeInv
  OBVIOUS
<1> USE DEF Init
<1>1. \A f \in Files : disk[f] \in TextsOf[f]
  BY WorkspaceAssumption
<1>2. FilesTyped(disk, head, staged)
  BY <1>1 DEF FilesTyped
<1>3. TypedGraph(graph) /\ DepsTyped(deps)
  BY DEF TypedGraph, IsGraph, EmptyGraph, DepsTyped, AboutFiles
<1>4. BuildTyped(build)
  BY DEF BuildTyped, Idle, AboutFiles
<1>5. UpdateTyped(update, covered) /\ AloneWhenCalm(calm, last, build, update)
  BY DEF UpdateTyped, Quiet, AboutFiles, AloneWhenCalm, Idle
<1> QED BY <1>2, <1>3, <1>4, <1>5 DEF TypeInv

LEMMA FilesStayTyped ==
    ASSUME FilesTyped(disk, head, staged), [Next]_vars
    PROVE  FilesTyped(disk', head', staged')
<1> USE DEF repoFiles, FilesTyped
<1>1. ASSUME NEW f \in Files, NEW t \in TextsOf[f] \cup {Absent}, Edit(f, t)
      PROVE  FilesTyped(disk', head', staged')
  BY <1>1 DEF Edit
<1>2. ASSUME NEW f \in Files, Stage(f) PROVE FilesTyped(disk', head', staged')
  BY <1>2 DEF Stage
<1>3. CASE Commit
  BY <1>3 DEF Commit
<1>4. CASE UNCHANGED repoFiles
  BY <1>4
<1>5. CASE Build
  BY <1>4, <1>5 DEF Build, BuildStart, BuildStep, ParseRepo, ParseIdlRepo, WriteFile, RepoWritten,
       AllReposWritten, WipeDeps, InsertDeps, InsertFails, AllDepsWritten, RunCalls, RunImports,
       LinkStep, BuildDone, BuildKilled
<1>6. CASE Update
  BY <1>4, <1>6 DEF Update, UpdateStart, UpdateStep, DeleteFile, RewriteFile, ReindexFails, ResolveDeps,
       WipeFileRows, InsertFileRows, DropGoneRows, UpdateKilled
<1> QED BY <1>1, <1>2, <1>3, <1>4, <1>5, <1>6 DEF Next, User, vars

(* One step of a build: what it does to its own state.                     *)
LEMMA BuildStaysTyped ==
    ASSUME FilesTyped(disk, head, staged), BuildTyped(build), [Next]_vars
    PROVE  BuildTyped(build')
<1>0. AboutFiles({}) /\ DOMAIN <<>> = {}
  BY DEF AboutFiles
<1> USE DEF BuildTyped
<1>1. CASE UNCHANGED build
  BY <1>1
<1>2. CASE BuildStart
  <2>1. build' = [pc |-> "repo", repos |-> Repos, todo |-> <<>>, rows |-> {}, ext |-> {}]
    BY <1>2 DEF BuildStart, Idle
  <2> QED BY <1>0, <2>1, WorkspaceAssumption
<1>3. CASE ParseRepo
  <2> DEFINE r == Head(build.repos)
             todo == [f \in Visible(disk) \cap FilesOf(r) |-> disk[f]]
  <2>1. build' = [build EXCEPT !.pc = "write", !.todo = todo] /\ build.repos # <<>>
    BY <1>3 DEF ParseRepo
  <2>2. \A f \in DOMAIN todo : f \in Files /\ todo[f] \in TextsOf[f]
    BY TextsThere DEF Visible, Present
  <2> HIDE DEF todo
  <2>3. /\ build'.pc = "write" /\ build'.repos = build.repos /\ build'.todo = todo
        /\ build'.rows = build.rows /\ build'.ext = build.ext
        /\ build' = [pc |-> build'.pc, repos |-> build'.repos, todo |-> build'.todo,
                     rows |-> build'.rows, ext |-> build'.ext]
    BY <2>1
  <2> QED BY <2>1, <2>2, <2>3
<1>4. ASSUME build.repos # <<>>,
             NEW pc \in {"repo", "deps"}, NEW todo,
             \A f \in DOMAIN todo : f \in Files /\ todo[f] \in TextsOf[f],
             NEW rows, NEW ext, AboutFiles(rows), AboutFiles(ext),
             build' = [build EXCEPT !.pc = pc, !.repos = Tail(@), !.todo = todo, !.rows = rows, !.ext = ext]
      PROVE  BuildTyped(build')
  <2>1. Tail(build.repos) \in Seq(STRING)
    BY <1>4
  <2>2. /\ build'.pc = pc /\ build'.repos = Tail(build.repos) /\ build'.todo = todo
        /\ build'.rows = rows /\ build'.ext = ext
        /\ build' = [pc |-> build'.pc, repos |-> build'.repos, todo |-> build'.todo,
                     rows |-> build'.rows, ext |-> build'.ext]
    BY <1>4
  <2> QED BY <1>4, <2>1, <2>2
<1>5. CASE ParseIdlRepo
  <2>1. build' = [build EXCEPT !.pc = "repo", !.repos = Tail(@), !.todo = build.todo,
                               !.rows = build.rows, !.ext = build.ext]
    BY <1>5 DEF ParseIdlRepo, BuildStep
  <2> QED BY <1>4, <1>5, <2>1 DEF ParseIdlRepo
<1>6. ASSUME NEW f \in Files, WriteFile(f) PROVE BuildTyped(build')
  <2> DEFINE todo == [g \in DOMAIN build.todo \ {f} |-> build.todo[g]]
  <2>1. build' = [build EXCEPT !.todo = todo] /\ build.pc = "write"
    BY <1>6 DEF WriteFile, BuildStep
  <2>2. \A g \in DOMAIN todo : g \in Files /\ todo[g] \in TextsOf[g]
    OBVIOUS
  <2> HIDE DEF todo
  <2>3. /\ build'.pc = "write" /\ build'.repos = build.repos /\ build'.todo = todo
        /\ build'.rows = build.rows /\ build'.ext = build.ext
        /\ build' = [pc |-> build'.pc, repos |-> build'.repos, todo |-> build'.todo,
                     rows |-> build'.rows, ext |-> build'.ext]
    BY <2>1
  <2> QED BY <2>1, <2>2, <2>3
<1>7. CASE RepoWritten
  <2>1. build' = [build EXCEPT !.pc = "repo", !.repos = Tail(@), !.todo = build.todo,
                               !.rows = build.rows, !.ext = build.ext]
    BY <1>7 DEF RepoWritten
  <2> QED BY <1>4, <1>7, <2>1 DEF RepoWritten, BuildStep
<1>8. CASE AllReposWritten
  BY <1>8, WorkspaceAssumption DEF AllReposWritten
<1>9. CASE WipeDeps
  <2> DEFINE r == Head(build.repos)
             rows == UNION {BuildRows(f, disk) : f \in FilesOf(r)}
             ext  == UNION {ExternalRows(f, disk) : f \in FilesOf(r)}
  <2>1. build' = [build EXCEPT !.pc = "insert", !.rows = rows, !.ext = ext] /\ build.repos # <<>>
    BY <1>9 DEF WipeDeps
  <2>2. \A f \in FilesOf(r) : AboutFiles(BuildRows(f, disk)) /\ AboutFiles(ExternalRows(f, disk))
    BY RowsAboutFiles DEF FilesOf
  <2>3. AboutFiles(rows) /\ AboutFiles(ext)
    BY <2>2 DEF AboutFiles
  <2> HIDE DEF rows, ext
  <2>4. /\ build'.pc = "insert" /\ build'.repos = build.repos /\ build'.todo = build.todo
        /\ build'.rows = rows /\ build'.ext = ext
        /\ build' = [pc |-> build'.pc, repos |-> build'.repos, todo |-> build'.todo,
                     rows |-> build'.rows, ext |-> build'.ext]
    BY <2>1
  <2> QED BY <2>1, <2>3, <2>4
<1>10. CASE InsertDeps \/ InsertFails
  <2>1. /\ build' = [build EXCEPT !.pc = "deps", !.repos = Tail(@), !.todo = build.todo,
                                  !.rows = {}, !.ext = {}]
        /\ build.repos # <<>>
    BY <1>10 DEF InsertDeps, InsertFails, BuildStep
  <2> QED BY <1>0, <1>4, <2>1
<1>11. CASE AllDepsWritten \/ RunCalls \/ RunImports
  BY <1>11 DEF AllDepsWritten, RunCalls, RunImports, LinkStep
<1>12. CASE BuildDone \/ BuildKilled
  <2>1. build' = [pc |-> "idle", repos |-> <<>>, todo |-> <<>>, rows |-> {}, ext |-> {}]
    BY <1>12 DEF BuildDone, BuildKilled, Idle
  <2> QED BY <1>0, <2>1
<1>13. CASE User
  BY <1>1, <1>13 DEF User, Edit, Stage, Commit
<1>14. CASE Update
  BY <1>1, <1>14 DEF Update, UpdateStart, UpdateStep, DeleteFile, RewriteFile, ReindexFails, ResolveDeps,
       WipeFileRows, InsertFileRows, DropGoneRows, UpdateKilled
<1>15. CASE Build
  BY <1>2, <1>3, <1>5, <1>6, <1>7, <1>8, <1>9, <1>10, <1>11, <1>12, <1>15 DEF Build
<1> QED BY <1>1, <1>13, <1>14, <1>15 DEF Next, vars

(* One step of an update: what it does to its own state.                   *)
LEMMA UpdateStaysTyped ==
    ASSUME UpdateTyped(update, covered), [Next]_vars
    PROVE  UpdateTyped(update', covered')
<1> USE DEF UpdateTyped, AboutFiles
<1>1. CASE UNCHANGED <<update, covered>>
  BY <1>1
<1>2. CASE UpdateStart
  BY <1>2 DEF UpdateStart, Quiet, Changed
<1>3. ASSUME covered' = covered, NEW gone, NEW file,
             update' = [update EXCEPT !.pc = "delete", !.todo = @ \ gone, !.file = file]
      PROVE  UpdateTyped(update', covered')
  BY <1>3
<1>4. ASSUME NEW f \in Files, DeleteFile(f) PROVE UpdateTyped(update', covered')
  <2>1. covered' = covered /\ f \in update.todo /\ update.pc = "delete"
    BY <1>4 DEF DeleteFile, UpdateStep, history
  <2>2. \/ update' = [update EXCEPT !.todo = @ \ {f}]
        \/ update' = [update EXCEPT !.pc = "rewrite", !.file = f]
    BY <1>4 DEF DeleteFile
  <2>3. CASE update' = [update EXCEPT !.todo = @ \ {f}]
    BY <2>1, <2>3
  <2>4. CASE update' = [update EXCEPT !.pc = "rewrite", !.file = f]
    BY <2>1, <2>4
  <2> QED BY <2>2, <2>3, <2>4
<1>5. CASE RewriteFile
  BY <1>3, <1>5 DEF RewriteFile, UpdateStep, history, FileDone
<1>6. CASE ReindexFails
  <2>1. CASE \E f \in update.todo : update.pc = "delete" /\ update' = [update EXCEPT !.todo = @ \ {f}]
    BY <1>6, <2>1 DEF ReindexFails
  <2>2. CASE update' = FileDone
    BY <1>3, <1>6, <2>2 DEF ReindexFails, FileDone
  <2> QED BY <1>6, <2>1, <2>2 DEF ReindexFails
<1>7. ASSUME NEW r, ResolveDeps(r) PROVE UpdateTyped(update', covered')
  <2> DEFINE fs == covered \cap DepsFiles(disk) \cap FilesOf(r)
             rows == UNION {FileRows(f, disk) : f \in fs}
             ext  == UNION {ExternalRows(f, disk) : f \in fs}
  <2>1. /\ update' = [update EXCEPT !.pc = "wipe", !.todo = fs, !.repo = r, !.rows = rows, !.ext = ext]
        /\ covered' = covered
    BY <1>7 DEF ResolveDeps, UpdateStep, history
  <2>2. \A f \in fs : AboutFiles(FileRows(f, disk)) /\ AboutFiles(ExternalRows(f, disk))
    BY RowsAboutFiles DEF FilesOf
  <2>3. AboutFiles(rows) /\ AboutFiles(ext) /\ fs \subseteq covered
    BY <2>2
  <2> HIDE DEF rows, ext, fs
  <2>4. /\ update'.pc = "wipe" /\ update'.todo = fs /\ update'.rows = rows /\ update'.ext = ext
        /\ update' = [pc |-> update'.pc, todo |-> update'.todo, file |-> update'.file,
                      repos |-> update'.repos, repo |-> update'.repo,
                      rows |-> update'.rows, ext |-> update'.ext]
    BY <2>1
  <2> QED BY <2>1, <2>3, <2>4
<1>8. ASSUME NEW f \in Files, WipeFileRows(f) PROVE UpdateTyped(update', covered')
  <2>1. /\ covered' = covered /\ f \in update.todo
        /\ update' = [update EXCEPT !.pc = "insert", !.file = f]
    BY <1>8 DEF WipeFileRows, UpdateStep, history
  <2> QED BY <2>1
<1>9. CASE InsertFileRows
  <2>1. /\ covered' = covered
        /\ update' = [update EXCEPT !.pc = "wipe", !.todo = @ \ {update.file}, !.file = None]
    BY <1>9 DEF InsertFileRows, UpdateStep, history
  <2> QED BY <2>1
<1>10. CASE DropGoneRows
  <2>1. /\ covered' = covered
        /\ \/ update' = Quiet
           \/ update' = [update EXCEPT !.pc = "delete", !.repos = update.repos \ {update.repo},
                                       !.repo = None, !.rows = {}, !.ext = {}]
    BY <1>10 DEF DropGoneRows
  <2>2. CASE update' = Quiet
    BY <2>1, <2>2 DEF Quiet
  <2>3. CASE update' = [update EXCEPT !.pc = "delete", !.repos = update.repos \ {update.repo},
                                       !.repo = None, !.rows = {}, !.ext = {}]
    BY <2>1, <2>3
  <2> QED BY <2>1, <2>2, <2>3
<1>11. CASE UpdateKilled
  BY <1>11 DEF UpdateKilled, Quiet, history
<1>12. CASE User
  BY <1>1, <1>12 DEF User, Edit, Stage, Commit, history
<1>13. CASE Build
  BY <1>1, <1>13 DEF Build, BuildStart, BuildStep, ParseRepo, ParseIdlRepo, WriteFile, RepoWritten,
       AllReposWritten, WipeDeps, InsertDeps, InsertFails, AllDepsWritten, RunCalls, RunImports,
       LinkStep, BuildDone, BuildKilled, history
<1>14. CASE Update
  BY <1>2, <1>4, <1>5, <1>6, <1>7, <1>8, <1>9, <1>10, <1>11, <1>14 DEF Update
<1> QED BY <1>1, <1>12, <1>13, <1>14 DEF Next, vars, history

LEMMA DepsStayTyped ==
    ASSUME DepsTyped(deps), BuildTyped(build), UpdateTyped(update, covered), [Next]_vars
    PROVE  DepsTyped(deps')
<1> USE DEF DepsTyped, AboutFiles
<1>1. CASE UNCHANGED deps
  BY <1>1
<1>2. CASE WipeDeps
  BY <1>2 DEF WipeDeps, InRepo, ExtIn
<1>3. CASE InsertDeps
  BY <1>3 DEF InsertDeps, BuildTyped
<1>4. ASSUME NEW fs, deps' = Without(fs) PROVE DepsTyped(deps')
  BY <1>4 DEF Without
<1>5. CASE InsertFileRows
  BY <1>5 DEF InsertFileRows, UpdateTyped
<1>6. CASE User
  BY <1>1, <1>6 DEF User, Edit, Stage, Commit, stores
<1>7. CASE Build
  BY <1>1, <1>2, <1>3, <1>7 DEF Build, BuildStart, ParseRepo, ParseIdlRepo, WriteFile, RepoWritten,
       AllReposWritten, InsertFails, AllDepsWritten, RunCalls, RunImports, LinkStep, BuildDone, BuildKilled,
       stores
<1>8. CASE Update
  BY <1>1, <1>4, <1>5, <1>8 DEF Update, UpdateStart, DeleteFile, RewriteFile, ReindexFails, ResolveDeps,
       WipeFileRows, DropGoneRows, UpdateKilled, stores
<1> QED BY <1>1, <1>6, <1>7, <1>8 DEF Next, vars, stores

LEMMA GraphStaysTyped ==
    ASSUME FilesTyped(disk, head, staged), TypedGraph(graph), BuildTyped(build),
           UpdateTyped(update, covered), [Next]_vars
    PROVE  TypedGraph(graph')
<1>1. CASE UNCHANGED graph
  BY <1>1 DEF TypedGraph, IsGraph
<1>2. CASE ParseRepo
  BY <1>2, PlainNodesTyped, NodeLength DEF ParseRepo
<1>3. CASE ParseIdlRepo
  BY <1>3, IndexIdlTyped DEF ParseIdlRepo
<1>4. ASSUME NEW f \in Files, WriteFile(f) PROVE TypedGraph(graph')
  <2>1. f \in DOMAIN build.todo /\ build.todo[f] \in TextsOf[f]
    BY <1>4 DEF WriteFile, BuildTyped
  <2>2. TypedGraph(EmitModule(graph, f, build.todo[f]))
    BY <2>1, EmitModuleTyped, WorkspaceAssumption
  <2>3. PICK pick \in Picks(Current(f)) :
          graph' = EmitImports(EmitModule(graph, f, build.todo[f]), f, Current(f), disk, pick)
    BY <1>4 DEF WriteFile
  <2> QED BY <2>2, <2>3, EmitImportsTyped
<1>5. CASE AllDepsWritten \/ RunCalls \/ RunImports \/ BuildDone
  BY <1>5, LinkIdlTyped, LinkCallsTyped, LinkImportsTyped, LinkManuallyTyped
     DEF AllDepsWritten, RunCalls, RunImports, BuildDone, LinkStep
<1>6. ASSUME NEW f \in Files, DeleteFile(f) PROVE TypedGraph(graph')
  BY <1>6, DeleteModuleTyped DEF DeleteFile
<1>7. CASE RewriteFile
  <2>1. update.file \in Files
    BY <1>7 DEF RewriteFile, UpdateStep, UpdateTyped
  <2>2. CASE disk[update.file] = Absent
    BY <1>1, <1>7, <2>2 DEF RewriteFile
  <2>3. CASE disk[update.file] # Absent
    BY <1>7, <2>1, <2>3, TextsThere, EmitModuleTyped DEF RewriteFile
  <2> QED BY <2>2, <2>3
<1>8. CASE ReindexFails
  BY <1>1, <1>8, DeleteModuleTyped DEF ReindexFails
<1>9. CASE User
  BY <1>1, <1>9 DEF User, Edit, Stage, Commit, stores
<1>10. CASE Build
  BY <1>1, <1>2, <1>3, <1>4, <1>5, <1>10 DEF Build, BuildStart, RepoWritten, AllReposWritten, WipeDeps,
       InsertDeps, InsertFails, BuildKilled, stores
<1>11. CASE Update
  BY <1>1, <1>6, <1>7, <1>8, <1>11 DEF Update, UpdateStart, ResolveDeps, WipeFileRows, InsertFileRows,
       DropGoneRows, UpdateKilled, stores
<1> QED BY <1>1, <1>9, <1>10, <1>11 DEF Next, vars, stores

(* A command counts as undisturbed only while it is the only one.          *)
LEMMA CommandsStayAlone ==
    ASSUME AloneWhenCalm(calm, last, build, update), BuildTyped(build), UpdateTyped(update, covered),
           BuildTyped(build'), UpdateTyped(update', covered'), [Next]_vars
    PROVE  AloneWhenCalm(calm', last', build', update')
<1> USE DEF AloneWhenCalm
<1>1. CASE UNCHANGED <<calm, last, build.pc, update.pc>>
  BY <1>1
<1>2. CASE User
  <2>1. /\ build' = build /\ update' = update
        /\ \/ calm' = calm /\ last' = last
           \/ calm' = FALSE /\ last' = "none"
    BY <1>2 DEF User, Edit, Stage, Commit, history
  <2>2. CASE calm' = calm /\ last' = last
    BY <1>1, <2>1, <2>2
  <2>3. CASE calm' = FALSE /\ last' = "none"
    BY <2>3
  <2> QED BY <2>1, <2>2, <2>3
<1>3. CASE BuildStart
  BY <1>3 DEF BuildStart, Begins
<1>4. CASE InsertFails
  BY <1>4 DEF InsertFails
<1>5. CASE BuildDone
  BY <1>5 DEF BuildDone, Idle
<1>6. CASE BuildKilled
  BY <1>6 DEF BuildKilled, Idle, history
<1>7. ASSUME build.pc # "idle", UNCHANGED <<calm, last, update>> PROVE AloneWhenCalm(calm', last', build', update')
  BY <1>7
<1>8. CASE UpdateStart
  BY <1>8 DEF UpdateStart, Begins
<1>9. CASE ReindexFails
  <2>1. update.pc # "idle" /\ calm' = FALSE /\ last' = last /\ build' = build
    BY <1>9 DEF ReindexFails
  <2> QED BY <2>1
<1>10. CASE DropGoneRows
  <2>1. update.pc = "wipe" /\ calm' = calm /\ build' = build
    BY <1>10 DEF DropGoneRows
  <2>2. \/ update'.pc = "idle" /\ last' = (IF calm THEN "update" ELSE "none")
        \/ last' = last
    BY <1>10 DEF DropGoneRows, Quiet
  <2> QED BY <2>1, <2>2
<1>11. CASE UpdateKilled
  BY <1>11 DEF UpdateKilled, Quiet, history
<1>12. ASSUME update.pc # "idle", UNCHANGED <<calm, last, build>> PROVE AloneWhenCalm(calm', last', build', update')
  BY <1>12
<1>13. CASE Build
  BY <1>3, <1>4, <1>5, <1>6, <1>7, <1>13 DEF Build, BuildStep, ParseRepo, ParseIdlRepo, WriteFile, RepoWritten,
       AllReposWritten, WipeDeps, InsertDeps, AllDepsWritten, RunCalls, RunImports, LinkStep, history
<1>14. CASE Update
  BY <1>8, <1>9, <1>10, <1>11, <1>12, <1>14 DEF Update, UpdateStep, DeleteFile, RewriteFile, ResolveDeps,
       WipeFileRows, InsertFileRows, history
<1> QED BY <1>1, <1>2, <1>13, <1>14 DEF Next, vars, history

LEMMA TypeNext == TypeInv /\ [Next]_vars => TypeInv'
<1> SUFFICES ASSUME TypeInv, [Next]_vars PROVE TypeInv'
  OBVIOUS
<1> USE DEF TypeInv
<1>1. FilesTyped(disk', head', staged')
  BY FilesStayTyped
<1>2. BuildTyped(build') /\ UpdateTyped(update', covered')
  BY BuildStaysTyped, UpdateStaysTyped
<1>3. DepsTyped(deps') /\ TypedGraph(graph')
  BY DepsStayTyped, GraphStaysTyped
<1>4. AloneWhenCalm(calm', last', build', update')
  BY <1>2, CommandsStayAlone
<1> QED BY <1>1, <1>2, <1>3, <1>4

(***************************************************************************)
(* Every table and every command keeps its type, in any workspace: the     *)
(* graph holds nodes of four parts and edges of three with a confidence in *)
(* percent, the dependency rows are those of files, and a command handles  *)
(* only texts a file can have (the tables of index.db and deps.db).        *)
(***************************************************************************)
THEOREM TablesStayTyped == Spec => []TypeOK
<1>1. TypeInv => TypeOK
  BY DEF TypeInv, TypeOK, FilesTyped, TypedGraph, DepsTyped, AboutFiles, BuildTyped, UpdateTyped, AloneWhenCalm
<1> QED BY <1>1, TypeInit, TypeNext, PTL DEF Spec

-----------------------------------------------------------------------------
(* What an update takes from the graph.                                    *)

(* A build that takes a step is somewhere else afterwards.                 *)
LEMMA BuildStepsMove ==
    ASSUME BuildTyped(build), build' = build, Build
    PROVE  FALSE
<1> USE DEF BuildTyped
<1>1. ASSUME build'.pc # build.pc PROVE FALSE
  BY <1>1
<1>2. ASSUME build.repos # <<>>, build'.repos = Tail(build.repos) PROVE FALSE
  <2>1. Len(Tail(build.repos)) = Len(build.repos) - 1
    BY <1>2
  <2>2. Len(build.repos) \in Nat
    OBVIOUS
  <2> QED BY <1>2, <2>1, <2>2
<1>3. CASE BuildStart
  BY <1>1, <1>3 DEF BuildStart, Idle
<1>4. CASE ParseRepo
  BY <1>1, <1>4 DEF ParseRepo, BuildStep
<1>5. CASE ParseIdlRepo
  BY <1>2, <1>5 DEF ParseIdlRepo
<1>6. ASSUME NEW f \in Files, WriteFile(f) PROVE FALSE
  <2>1. f \in DOMAIN build.todo /\ build'.todo = [g \in DOMAIN build.todo \ {f} |-> build.todo[g]]
    BY <1>6 DEF WriteFile
  <2>2. f \notin DOMAIN build'.todo
    BY <2>1
  <2> QED BY <2>1, <2>2
<1>7. CASE RepoWritten
  BY <1>1, <1>7 DEF RepoWritten, BuildStep
<1>8. CASE AllReposWritten
  BY <1>1, <1>8 DEF AllReposWritten, BuildStep
<1>9. CASE WipeDeps
  BY <1>1, <1>9 DEF WipeDeps, BuildStep
<1>10. CASE InsertDeps \/ InsertFails
  BY <1>1, <1>10 DEF InsertDeps, InsertFails, BuildStep
<1>11. CASE AllDepsWritten \/ RunCalls \/ RunImports
  BY <1>1, <1>11 DEF AllDepsWritten, RunCalls, RunImports, LinkStep, BuildStep
<1>12. CASE BuildDone \/ BuildKilled
  BY <1>1, <1>12 DEF BuildDone, BuildKilled, Idle
<1> QED BY <1>3, <1>4, <1>5, <1>6, <1>7, <1>8, <1>9, <1>10, <1>11, <1>12 DEF Build

LosesOnlyItsOwn(g, h) ==
    /\ \A e \in DOMAIN g.edges \ DOMAIN h.edges : TouchesCovered(e) \/ Dangles(g, e)
    /\ \A e \in DOMAIN h.edges \ DOMAIN g.edges : e[3] = "contains"

LEMMA DeletesItsOwn ==
    ASSUME IsGraph(graph), NEW f \in covered
    PROVE  LosesOnlyItsOwn(graph, DeleteModule(graph, f[1], f[2]))
<1> DEFINE h == DeleteModule(graph, f[1], f[2])
<1>1. /\ DOMAIN h.nodes = {n \in DOMAIN graph.nodes : ~(RepoOf(n) = f[1] /\ PathOf(n) = f[2])}
      /\ DOMAIN h.edges = {e \in DOMAIN graph.edges : e[1] \in DOMAIN h.nodes /\ e[2] \in DOMAIN h.nodes}
  BY DeleteModuleFacts
<1> HIDE DEF h
<1>2. ASSUME NEW e \in DOMAIN graph.edges, NEW i \in {1, 2}, e[i] \notin DOMAIN h.nodes
      PROVE  TouchesCovered(e) \/ Dangles(graph, e)
  <2>1. CASE e[i] \notin DOMAIN graph.nodes
    BY <2>1 DEF Dangles
  <2>2. CASE RepoOf(e[i]) = f[1] /\ PathOf(e[i]) = f[2]
    BY <2>2 DEF TouchesCovered
  <2> QED BY <1>1, <1>2, <2>1, <2>2
<1>3. ASSUME NEW e \in DOMAIN graph.edges \ DOMAIN h.edges PROVE TouchesCovered(e) \/ Dangles(graph, e)
  BY <1>1, <1>2
<1> QED BY <1>1, <1>3 DEF LosesOnlyItsOwn, h

LEMMA RewritesItsOwn ==
    ASSUME IsGraph(graph), NEW f \in Files, NEW text, IsText(text)
    PROVE  LosesOnlyItsOwn(graph, EmitModule(graph, f, text))
<1> DEFINE h == EmitModule(graph, f, text)
           own == {<<RepoNode(f[1]), Module(f), "contains">>}
           inner == {<<DeclParent(f, d), DeclNode(f, d), "contains">> : d \in text.decls}
<1>1. h = EmitModule(graph, f, text)
  OBVIOUS
<1>2. \A e \in own \cup inner : e[3] = "contains"
  OBVIOUS
<1> HIDE DEF h
<1>3. DOMAIN h.edges = DOMAIN graph.edges \cup own \cup inner
  BY <1>1, EmitModuleFacts
<1> HIDE DEF own, inner
<1> QED BY <1>1, <1>2, <1>3 DEF LosesOnlyItsOwn

(***************************************************************************)
(* In any workspace a step that is not a build's takes from the graph only *)
(* the edges of files the update covers and edges that had lost an end,    *)
(* and adds only "contains" edges (delete_module, reindex_file).           *)
(***************************************************************************)
THEOREM UpdatesLoseOnlyTheirOwn == Spec => UpdateLosesOnlyItsOwn
<1>1. ASSUME TypeInv, [Next]_vars, build = build'
      PROVE  LosesOnlyItsOwn(graph, graph')
  <2> USE <1>1 DEF TypeInv
  <2>1. CASE UNCHANGED graph
    BY <2>1 DEF LosesOnlyItsOwn
  <2>2. IsGraph(graph) /\ covered \subseteq Files
    BY DEF TypedGraph, UpdateTyped
  <2>3. CASE Build
    BY <2>3, BuildStepsMove
  <2>4. CASE User
    BY <2>1, <2>4 DEF User, Edit, Stage, Commit, stores
  <2>5. ASSUME NEW f \in Files, DeleteFile(f) PROVE LosesOnlyItsOwn(graph, graph')
    <3>1. f \in covered
      BY <2>5 DEF DeleteFile, UpdateTyped
    <3> QED BY <2>2, <2>5, <3>1, DeletesItsOwn DEF DeleteFile
  <2>6. CASE RewriteFile
    <3>1. update.file \in Files
      BY <2>6 DEF RewriteFile, UpdateStep, UpdateTyped
    <3>2. CASE disk[update.file] = Absent
      BY <2>1, <2>6, <3>2 DEF RewriteFile
    <3>3. CASE disk[update.file] # Absent
      BY <2>2, <2>6, <3>1, <3>3, TextsThere, RewritesItsOwn DEF RewriteFile
    <3> QED BY <3>2, <3>3
  <2>7. CASE ReindexFails
    <3>1. UNCHANGED graph \/ \E f \in update.todo : graph' = DeleteNodesAt(graph, f[1], f[2])
      BY <2>7 DEF ReindexFails
    <3>2. ASSUME NEW f, graph' = DeleteNodesAt(graph, f[1], f[2]) PROVE graph'.edges = graph.edges
      BY <2>2, <3>2 DEF DeleteNodesAt, IsGraph
    <3> QED BY <2>1, <3>1, <3>2 DEF LosesOnlyItsOwn
  <2>8. CASE Update
    BY <2>1, <2>5, <2>6, <2>7, <2>8 DEF Update, UpdateStart, ResolveDeps, WipeFileRows, InsertFileRows,
         DropGoneRows, UpdateKilled, stores
  <2> QED BY <2>1, <2>3, <2>4, <2>8 DEF Next, vars, stores
<1>2. TypeInv /\ [Next]_vars =>
        [build = build' =>
            /\ \A e \in DOMAIN graph.edges \ DOMAIN graph'.edges : TouchesCovered(e) \/ Dangles(graph, e)
            /\ \A e \in DOMAIN graph'.edges \ DOMAIN graph.edges : e[3] = "contains"]_vars
  BY <1>1 DEF LosesOnlyItsOwn
<1> QED BY <1>2, TypeInit, TypeNext, PTL DEF Spec, UpdateLosesOnlyItsOwn

-----------------------------------------------------------------------------
(* One file in the stores, as operators on the values of the stores.       *)

Holds(g, o, f, text) ==
    /\ DeclaredAt(f, text) \subseteq NodesAtPath(g, f[1], f[2])
    /\ \A d \in text.decls : \E c \in text.decls :
            /\ DeclNode(f, c) = DeclNode(f, d)
            /\ g.nodes[DeclNode(f, d)] = c.line
            /\ \E p \in DeclaredAt(f, text) : <<p, DeclNode(f, d), "contains">> \in DOMAIN g.edges
    /\ <<RepoNode(f[1]), Module(f), "contains">> \in DOMAIN g.edges
    /\ <<f[1], AbsPath[f]>> \in DOMAIN o /\ o[<<f[1], AbsPath[f]>>] = text

Clean(g, o, f, text) ==
    IF text = Absent THEN NodesAtPath(g, f[1], f[2]) = {}
    ELSE Holds(g, o, f, text) /\ NodesAtPath(g, f[1], f[2]) = DeclaredAt(f, text)

Sound(g) == \A e \in DOMAIN g.edges : ~Dangles(g, e)

(* Two files differ in the place of their nodes and of their outline row.  *)
LEMMA FilesApart ==
    ASSUME NEW f \in Files, NEW c \in Files, c # f
    PROVE  /\ ~(c[1] = f[1] /\ c[2] = f[2])
           /\ <<c[1], AbsPath[c]>> # <<f[1], AbsPath[f]>>
           /\ <<c[1], AbsPath[c]>> # f
<1>1. c = <<c[1], c[2]>> /\ f = <<f[1], f[2]>>
  BY WorkspaceAssumption
<1>2. c[1] = f[1] => AbsPath[c] # f[2] /\ AbsPath[c] # AbsPath[f]
  BY WorkspaceAssumption
<1>3. ASSUME <<c[1], AbsPath[c]>> = f PROVE FALSE
  <2>1. f[1] = c[1] /\ f[2] = AbsPath[c]
    BY <1>3
  <2> QED BY <1>2, <2>1
<1> QED BY <1>1, <1>2, <1>3

(* delete_module and the deletion of the outline row: the file is gone,    *)
(* no edge lacks an end, and another file is as it was.                    *)
LEMMA DeleteClears ==
    ASSUME NEW g, IsGraph(g), NEW f \in Files, NEW h, h = DeleteModule(g, f[1], f[2])
    PROVE  NodesAtPath(h, f[1], f[2]) = {} /\ Sound(h)
BY DeleteModuleFacts DEF NodesAtPath, Sound, Dangles

LEMMA DeleteKeeps ==
    ASSUME NEW g, IsGraph(g), Sound(g), NEW o, NEW f \in Files, NEW c \in Files, c # f,
           NEW text, Clean(g, o, c, text),
           NEW h, h = DeleteModule(g, f[1], f[2]),
           NEW p, p = [k \in DOMAIN o \ {f} |-> o[k]]
    PROVE  Clean(h, p, c, text)
<1>1. /\ DOMAIN h.nodes = {n \in DOMAIN g.nodes : ~(RepoOf(n) = f[1] /\ PathOf(n) = f[2])}
      /\ \A n \in DOMAIN h.nodes : h.nodes[n] = g.nodes[n]
      /\ DOMAIN h.edges = {e \in DOMAIN g.edges : e[1] \in DOMAIN h.nodes /\ e[2] \in DOMAIN h.nodes}
  BY DeleteModuleFacts
<1>2. NodesAtPath(h, c[1], c[2]) = NodesAtPath(g, c[1], c[2])
  BY <1>1, FilesApart DEF NodesAtPath
<1>3. CASE text = Absent
  BY <1>2, <1>3 DEF Clean
<1>4. CASE text # Absent
  <2>1. Holds(g, o, c, text) /\ NodesAtPath(g, c[1], c[2]) = DeclaredAt(c, text)
    BY <1>4 DEF Clean
  <2>2. DeclaredAt(c, text) \subseteq DOMAIN h.nodes
    BY <1>2, <2>1 DEF NodesAtPath
  <2>3. \A d \in text.decls : DeclNode(c, d) \in DeclaredAt(c, text)
    BY DEF DeclaredAt
  <2>4. Module(c) \in DeclaredAt(c, text)
    BY DEF DeclaredAt
  <2>5. <<RepoNode(c[1]), Module(c), "contains">> \in DOMAIN h.edges
    <3> DEFINE e == <<RepoNode(c[1]), Module(c), "contains">>
    <3>1. e \in DOMAIN g.edges /\ ~Dangles(g, e)
      BY <2>1 DEF Holds, Sound
    <3>2. RepoNode(c[1]) \in DOMAIN g.nodes
      BY <3>1 DEF Dangles
    <3>3. RepoNode(c[1]) \in DOMAIN h.nodes
      BY <1>1, <3>2, RepoNodePlace
    <3> QED BY <1>1, <2>2, <2>4, <3>1, <3>3
  <2>6. ASSUME NEW d \in text.decls
        PROVE  \E b \in text.decls :
                  /\ DeclNode(c, b) = DeclNode(c, d)
                  /\ h.nodes[DeclNode(c, d)] = b.line
                  /\ \E q \in DeclaredAt(c, text) : <<q, DeclNode(c, d), "contains">> \in DOMAIN h.edges
    <3>1. PICK b \in text.decls :
            /\ DeclNode(c, b) = DeclNode(c, d)
            /\ g.nodes[DeclNode(c, d)] = b.line
            /\ \E q \in DeclaredAt(c, text) : <<q, DeclNode(c, d), "contains">> \in DOMAIN g.edges
      BY <2>1 DEF Holds
    <3>2. PICK q \in DeclaredAt(c, text) : <<q, DeclNode(c, d), "contains">> \in DOMAIN g.edges
      BY <3>1
    <3>3. <<q, DeclNode(c, d), "contains">> \in DOMAIN h.edges
      BY <1>1, <2>2, <2>3, <3>2
    <3>4. h.nodes[DeclNode(c, d)] = b.line
      BY <1>1, <2>2, <2>3, <3>1
    <3> QED BY <3>1, <3>3, <3>4
  <2>7. <<c[1], AbsPath[c]>> \in DOMAIN p /\ p[<<c[1], AbsPath[c]>>] = text
    BY <2>1, FilesApart DEF Holds
  <2>8. Holds(h, p, c, text)
    BY <1>2, <2>1, <2>5, <2>6, <2>7 DEF Holds
  <2> QED BY <1>2, <1>4, <2>1, <2>8 DEF Clean
<1> QED BY <1>3, <1>4

(* emit_module and the outline row: the file is there, and nothing else    *)
(* under its path that was not there before; another file is as it was.    *)
LEMMA EmitHolds ==
    ASSUME NEW g, IsGraph(g), NEW o, NEW f \in Files, NEW text, IsText(text),
           NEW h, h = EmitModule(g, f, text),
           NEW p, p = Over([k \in {<<f[1], AbsPath[f]>>} |-> text], o)
    PROVE  /\ Holds(h, p, f, text)
           /\ NodesAtPath(g, f[1], f[2]) = {} => NodesAtPath(h, f[1], f[2]) = DeclaredAt(f, text)
<1> DEFINE own == {<<RepoNode(f[1]), Module(f), "contains">>}
           inner == {<<DeclParent(f, d), DeclNode(f, d), "contains">> : d \in text.decls}
<1>1. /\ DOMAIN h.nodes = DOMAIN g.nodes \cup {RepoNode(f[1])} \cup DeclaredAt(f, text)
      /\ DOMAIN h.edges = DOMAIN g.edges \cup own \cup inner
      /\ \A d \in text.decls : \E c \in text.decls :
            DeclNode(f, c) = DeclNode(f, d) /\ h.nodes[DeclNode(f, d)] = c.line
  BY EmitModuleFacts
<1>2. NodesAtPath(h, f[1], f[2]) = NodesAtPath(g, f[1], f[2]) \cup DeclaredAt(f, text)
  BY <1>1, DeclaredPlaces, RepoNodePlace DEF NodesAtPath
<1>3. ASSUME NEW d \in text.decls
      PROVE  \E q \in DeclaredAt(f, text) : <<q, DeclNode(f, d), "contains">> \in DOMAIN h.edges
  BY <1>1, ParentDeclared
<1>4. <<RepoNode(f[1]), Module(f), "contains">> \in DOMAIN h.edges
  BY <1>1
<1>5. <<f[1], AbsPath[f]>> \in DOMAIN p /\ p[<<f[1], AbsPath[f]>>] = text
  <2> DEFINE k == <<f[1], AbsPath[f]>>
  <2> HIDE DEF k
  <2>1. p = Over([x \in {k} |-> text], o)
    BY DEF k
  <2>2. k \in DOMAIN p /\ p[k] = text
    BY <2>1 DEF Over
  <2> QED BY <2>2 DEF k
<1> HIDE DEF own, inner
<1>6. Holds(h, p, f, text)
  BY <1>1, <1>2, <1>3, <1>4, <1>5 DEF Holds
<1> QED BY <1>2, <1>6

LEMMA EmitKeepsPath ==
    ASSUME NEW g, IsGraph(g), NEW f \in Files, NEW new, IsText(new), NEW c \in Files, c # f,
           NEW h, h = EmitModule(g, f, new)
    PROVE  NodesAtPath(h, c[1], c[2]) = NodesAtPath(g, c[1], c[2])
<1>1. DOMAIN h.nodes = DOMAIN g.nodes \cup {RepoNode(f[1])} \cup DeclaredAt(f, new)
  BY EmitModuleFacts
<1> QED BY <1>1, DeclaredPlaces, FilesApart, RepoNodePlace DEF NodesAtPath

LEMMA EmitKeeps ==
    ASSUME NEW g, IsGraph(g), NEW o, NEW f \in Files, NEW new, IsText(new),
           NEW c \in Files, c # f, NEW text, Holds(g, o, c, text),
           NEW h, h = EmitModule(g, f, new),
           NEW p, p = Over([k \in {<<f[1], AbsPath[f]>>} |-> new], o)
    PROVE  Holds(h, p, c, text)
<1>1. /\ DOMAIN g.edges \subseteq DOMAIN h.edges
      /\ \A n \in DOMAIN g.nodes \ DeclaredAt(f, new) : h.nodes[n] = g.nodes[n]
  BY EmitModuleFacts
<1>2. \A n \in DeclaredAt(f, new) : ~(RepoOf(n) = c[1] /\ PathOf(n) = c[2])
  BY DeclaredPlaces, FilesApart
<1>3. NodesAtPath(h, c[1], c[2]) = NodesAtPath(g, c[1], c[2])
  BY EmitKeepsPath
<1>4. ASSUME NEW d \in text.decls PROVE h.nodes[DeclNode(c, d)] = g.nodes[DeclNode(c, d)]
  <2>1. DeclNode(c, d) \in NodesAtPath(g, c[1], c[2])
    BY DEF Holds, DeclaredAt
  <2> QED BY <1>1, <1>2, <2>1 DEF NodesAtPath
<1>5. <<c[1], AbsPath[c]>> \in DOMAIN p /\ p[<<c[1], AbsPath[c]>>] = text
  <2> DEFINE k == <<f[1], AbsPath[f]>>
             i == <<c[1], AbsPath[c]>>
  <2>1. i \in DOMAIN o /\ o[i] = text /\ i # k
    BY FilesApart DEF Holds
  <2> HIDE DEF k, i
  <2>2. p = Over([x \in {k} |-> new], o)
    BY DEF k
  <2>3. i \in DOMAIN p /\ p[i] = text
    BY <2>1, <2>2 DEF Over
  <2> QED BY <2>3 DEF i
<1>6. ASSUME NEW d \in text.decls
      PROVE  \E b \in text.decls :
                /\ DeclNode(c, b) = DeclNode(c, d)
                /\ h.nodes[DeclNode(c, d)] = b.line
                /\ \E q \in DeclaredAt(c, text) : <<q, DeclNode(c, d), "contains">> \in DOMAIN h.edges
  <2>1. PICK b \in text.decls :
          /\ DeclNode(c, b) = DeclNode(c, d)
          /\ g.nodes[DeclNode(c, d)] = b.line
          /\ \E q \in DeclaredAt(c, text) : <<q, DeclNode(c, d), "contains">> \in DOMAIN g.edges
    BY DEF Holds
  <2> QED BY <1>1, <1>4, <2>1
<1>7. <<RepoNode(c[1]), Module(c), "contains">> \in DOMAIN h.edges
  BY <1>1 DEF Holds
<1> QED BY <1>3, <1>5, <1>6, <1>7 DEF Holds

LEMMA EmitKeepsSound ==
    ASSUME NEW g, IsGraph(g), Sound(g), NEW f \in Files, NEW text, IsText(text),
           NEW h, h = EmitModule(g, f, text)
    PROVE  Sound(h)
<1> DEFINE own == {<<RepoNode(f[1]), Module(f), "contains">>}
           inner == {<<DeclParent(f, d), DeclNode(f, d), "contains">> : d \in text.decls}
<1>1. /\ DOMAIN h.nodes = DOMAIN g.nodes \cup {RepoNode(f[1])} \cup DeclaredAt(f, text)
      /\ DOMAIN h.edges = DOMAIN g.edges \cup own \cup inner
  BY SMTT(40), EmitModuleFacts
<1>2. \A e \in DOMAIN g.edges : ~Dangles(h, e)
  BY <1>1 DEF Sound, Dangles
<1>3. \A e \in own : ~Dangles(h, e)
  BY <1>1 DEF Dangles, DeclaredAt
<1>4. \A e \in inner : ~Dangles(h, e)
  <2>1. ASSUME NEW d \in text.decls PROVE ~Dangles(h, <<DeclParent(f, d), DeclNode(f, d), "contains">>)
    <3>1. DeclParent(f, d) \in DOMAIN h.nodes
      BY <1>1, ParentDeclared
    <3>2. DeclNode(f, d) \in DOMAIN h.nodes
      BY <1>1 DEF DeclaredAt
    <3> QED BY <3>1, <3>2 DEF Dangles
  <2> QED BY <2>1
<1> HIDE DEF own, inner
<1> QED BY <1>1, <1>2, <1>3, <1>4 DEF Sound

-----------------------------------------------------------------------------
(* An update that nothing disturbs, step by step.                          *)

RowsOf(rows, f) == {x \in rows : x.file = f}

(* The dependency rows of a file are as the file is.                       *)
Settled(ds, d, f) ==
    IF d[f] = Absent THEN RowsOf(ds.rows, f) = {} /\ RowsOf(ds.ext, f) = {}
    ELSE f \in DepsFiles(d) => RowsOf(ds.rows, f) = FileRows(f, d)

(* What is left to do in the graph: every other file is done, and no edge  *)
(* lacks an end once the first file was deleted.                           *)
GraphDone(g, o, d, u, done) ==
    /\ \A f \in done : (u.pc \in {"delete", "rewrite"} /\ f \in u.todo) \/ Clean(g, o, f, d[f])
    /\ u.pc # "delete" \/ u.todo # done => Sound(g)
    /\ u.pc = "rewrite" =>
        u.file \in u.todo /\ d[u.file] # Absent /\ NodesAtPath(g, u.file[1], u.file[2]) = {}

(* What is left to do in the dependency tables.                            *)
DepsDone(ds, d, u, done) ==
    /\ \A f \in done : f[1] \in u.repos \/ Settled(ds, d, f)
    /\ u.pc \in {"wipe", "insert"} =>
        /\ u.repo \in u.repos /\ u.todo \subseteq DepsFiles(d) \cap FilesOf(u.repo)
        /\ \A f \in u.todo : RowsOf(u.rows, f) = FileRows(f, d)
        /\ \A f \in done \cap DepsFiles(d) \cap FilesOf(u.repo) :
            f \in u.todo \/ RowsOf(ds.rows, f) = FileRows(f, d)
    /\ u.pc = "insert" => u.file \in u.todo /\ RowsOf(ds.rows, u.file) = {}

Underway(g, o, ds, d, u, done) ==
    done # {} /\ GraphDone(g, o, d, u, done) /\ DepsDone(ds, d, u, done)

Updated(g, o, ds, d, done) ==
    Sound(g) /\ \A f \in done : Clean(g, o, f, d[f]) /\ Settled(ds, d, f)

UpdateInv ==
    /\ TypeInv
    /\ calm /\ update.pc # "idle" => Underway(graph, outline, deps, disk, update, covered)
    /\ last = "update" => Updated(graph, outline, deps, disk, covered)

LEMMA FileRowsOwn ==
    ASSUME NEW d, NEW fs, NEW f \in fs
    PROVE  RowsOf(UNION {FileRows(c, d) : c \in fs}, f) = FileRows(f, d)
<1>1. ASSUME NEW c, NEW x \in FileRows(c, d) PROVE x.file = c
  BY DEF FileRows, DepRow
<1> QED BY <1>1 DEF RowsOf

LEMMA DeleteStep ==
    ASSUME TypeInv, Underway(graph, outline, deps, disk, update, covered), NEW f \in Files, DeleteFile(f)
    PROVE  Underway(graph', outline', deps', disk', update', covered')
<1> USE DEF Underway, TypeInv
<1>1. /\ update.pc = "delete" /\ f \in update.todo /\ UNCHANGED <<disk, covered, deps>>
      /\ graph' = DeleteModule(graph, f[1], f[2])
      /\ outline' = [k \in DOMAIN outline \ {f} |-> outline[k]]
  BY DEF DeleteFile, UpdateStep, repoFiles, history
<1>2. IsGraph(graph) /\ covered \subseteq Files /\ update.todo \subseteq covered
  BY DEF TypedGraph, UpdateTyped
<1>3. NodesAtPath(graph', f[1], f[2]) = {} /\ Sound(graph')
  BY <1>1, <1>2, DeleteClears
<1>4. ASSUME NEW c \in covered, c \notin update.todo PROVE Clean(graph', outline', c, disk[c])
  <2>1. Sound(graph) /\ Clean(graph, outline, c, disk[c])
    BY <1>1, <1>4 DEF GraphDone
  <2>2. c \in Files /\ c # f
    BY <1>1, <1>2, <1>4
  <2> QED BY <1>1, <1>2, <2>1, <2>2, DeleteKeeps
<1>5. CASE disk[f] = Absent
  <2>1. update' = [update EXCEPT !.todo = @ \ {f}]
    BY <1>5 DEF DeleteFile
  <2>2. /\ update'.pc = "delete" /\ update'.todo = update.todo \ {f} /\ update'.repos = update.repos
    BY <1>1, <2>1 DEF UpdateTyped
  <2>3. Clean(graph', outline', f, disk[f])
    BY <1>3, <1>5 DEF Clean
  <2>4. GraphDone(graph', outline', disk', update', covered')
    BY <1>1, <1>3, <1>4, <2>2, <2>3 DEF GraphDone
  <2>5. DepsDone(deps', disk', update', covered')
    BY <1>1, <2>2 DEF DepsDone
  <2> QED BY <1>1, <2>4, <2>5
<1>6. CASE disk[f] # Absent
  <2>1. update' = [update EXCEPT !.pc = "rewrite", !.file = f]
    BY <1>6 DEF DeleteFile
  <2>2. /\ update'.pc = "rewrite" /\ update'.todo = update.todo /\ update'.file = f
        /\ update'.repos = update.repos
    BY <2>1 DEF UpdateTyped
  <2>3. GraphDone(graph', outline', disk', update', covered')
    BY <1>1, <1>3, <1>4, <1>6, <2>2 DEF GraphDone
  <2>4. DepsDone(deps', disk', update', covered')
    BY <1>1, <2>2 DEF DepsDone
  <2> QED BY <1>1, <2>3, <2>4
<1> QED BY <1>5, <1>6

LEMMA RewriteStep ==
    ASSUME TypeInv, Underway(graph, outline, deps, disk, update, covered), RewriteFile
    PROVE  Underway(graph', outline', deps', disk', update', covered')
<1> USE DEF Underway, TypeInv
<1> DEFINE f == update.file
<1>1. /\ update.pc = "rewrite" /\ UNCHANGED <<disk, covered, deps>>
      /\ update' = [update EXCEPT !.pc = "delete", !.todo = @ \ {f}, !.file = None]
  BY DEF RewriteFile, UpdateStep, FileDone, repoFiles, history
<1>2. /\ IsGraph(graph) /\ covered \subseteq Files /\ update.todo \subseteq covered
      /\ f \in update.todo /\ f \in Files /\ Sound(graph) /\ disk[f] # Absent
      /\ NodesAtPath(graph, f[1], f[2]) = {}
  BY <1>1 DEF TypedGraph, UpdateTyped, GraphDone
<1>3. /\ graph' = EmitModule(graph, f, disk[f])
      /\ outline' = Over([k \in {<<f[1], AbsPath[f]>>} |-> disk[f]], outline)
  BY <1>2 DEF RewriteFile
<1>4. IsText(disk[f])
  BY <1>2, TextsThere
<1>5. update'.pc = "delete" /\ update'.todo = update.todo \ {f} /\ update'.repos = update.repos
  BY <1>1 DEF UpdateTyped
<1> HIDE DEF f
<1>6. Clean(graph', outline', f, disk[f]) /\ Sound(graph')
  <2>1. Clean(graph', outline', f, disk[f])
    BY <1>2, <1>3, <1>4, EmitHolds DEF Clean
  <2>2. Sound(graph')
    BY <1>2, <1>3, <1>4, EmitKeepsSound
  <2> QED BY <2>1, <2>2
<1>7. ASSUME NEW c \in covered, c \notin update.todo PROVE Clean(graph', outline', c, disk[c])
  <2>1. Clean(graph, outline, c, disk[c])
    BY <1>1, <1>7 DEF GraphDone
  <2>2. c \in Files /\ c # f
    BY <1>2, <1>7
  <2>3. NodesAtPath(graph', c[1], c[2]) = NodesAtPath(graph, c[1], c[2])
    BY <1>2, <1>3, <1>4, <2>2, EmitKeepsPath
  <2>4. Holds(graph, outline, c, disk[c]) => Holds(graph', outline', c, disk[c])
    BY <1>2, <1>3, <1>4, <2>2, EmitKeeps
  <2> QED BY <2>1, <2>3, <2>4 DEF Clean
<1>8. GraphDone(graph', outline', disk', update', covered')
  BY <1>1, <1>5, <1>6, <1>7 DEF GraphDone
<1>9. DepsDone(deps', disk', update', covered')
  BY <1>1, <1>5 DEF DepsDone
<1> QED BY <1>1, <1>8, <1>9

LEMMA ResolveStep ==
    ASSUME TypeInv, Underway(graph, outline, deps, disk, update, covered), NEW r, ResolveDeps(r)
    PROVE  Underway(graph', outline', deps', disk', update', covered')
<1> USE DEF Underway, TypeInv
<1> DEFINE fs == covered \cap DepsFiles(disk) \cap FilesOf(r)
           rows == UNION {FileRows(f, disk) : f \in fs}
<1>1. /\ update.pc = "delete" /\ update.todo = {} /\ r \in update.repos
      /\ UNCHANGED <<disk, covered, stores>>
      /\ update' = [update EXCEPT !.pc = "wipe", !.todo = fs, !.repo = r, !.rows = rows,
                        !.ext = UNION {ExternalRows(f, disk) : f \in fs}]
  BY DEF ResolveDeps, UpdateStep, repoFiles, history
<1>2. \A f \in fs : RowsOf(rows, f) = FileRows(f, disk)
  BY FileRowsOwn
<1>3. fs \subseteq DepsFiles(disk) \cap FilesOf(r) /\ covered \cap DepsFiles(disk) \cap FilesOf(r) = fs
  OBVIOUS
<1> HIDE DEF fs, rows
<1>4. /\ update'.pc = "wipe" /\ update'.todo = fs /\ update'.repo = r /\ update'.rows = rows
      /\ update'.repos = update.repos
  BY <1>1 DEF UpdateTyped
<1>5. UNCHANGED <<graph, outline, deps>>
  BY <1>1 DEF stores
<1>6. GraphDone(graph', outline', disk', update', covered')
  BY <1>1, <1>4, <1>5 DEF GraphDone
<1>7. DepsDone(deps', disk', update', covered')
  BY <1>1, <1>2, <1>3, <1>4, <1>5 DEF DepsDone
<1> QED BY <1>1, <1>6, <1>7

LEMMA WipeStep ==
    ASSUME TypeInv, Underway(graph, outline, deps, disk, update, covered), NEW f \in Files, WipeFileRows(f)
    PROVE  Underway(graph', outline', deps', disk', update', covered')
<1> USE DEF Underway, TypeInv
<1>1. /\ update.pc = "wipe" /\ f \in update.todo /\ UNCHANGED <<disk, covered, graph, outline>>
      /\ deps' = Without({f})
      /\ update' = [update EXCEPT !.pc = "insert", !.file = f]
  BY DEF WipeFileRows, UpdateStep, repoFiles, history
<1>2. /\ update'.pc = "insert" /\ update'.todo = update.todo /\ update'.repo = update.repo
      /\ update'.rows = update.rows /\ update'.repos = update.repos /\ update'.file = f
  BY <1>1 DEF UpdateTyped
<1>3. /\ RowsOf(deps'.rows, f) = {}
      /\ \A c : c # f => RowsOf(deps'.rows, c) = RowsOf(deps.rows, c) /\ RowsOf(deps'.ext, c) = RowsOf(deps.ext, c)
  BY <1>1 DEF Without, RowsOf
<1>4. GraphDone(graph', outline', disk', update', covered')
  BY <1>1, <1>2 DEF GraphDone
<1>5. f[1] = update.repo /\ update.repo \in update.repos
  BY <1>1 DEF DepsDone, FilesOf
<1>6. \A c \in covered : c[1] \in update.repos \/ Settled(deps', disk, c)
  BY <1>1, <1>3, <1>5 DEF DepsDone, Settled
<1>7. DepsDone(deps', disk', update', covered')
  BY <1>1, <1>2, <1>3, <1>5, <1>6 DEF DepsDone
<1> QED BY <1>1, <1>4, <1>7

LEMMA InsertStep ==
    ASSUME TypeInv, Underway(graph, outline, deps, disk, update, covered), InsertFileRows
    PROVE  Underway(graph', outline', deps', disk', update', covered')
<1> USE DEF Underway, TypeInv
<1> DEFINE f == update.file
<1>1. /\ update.pc = "insert" /\ UNCHANGED <<disk, covered, graph, outline>>
      /\ deps' = [rows |-> deps.rows \cup RowsOf(update.rows, f), ext |-> deps.ext \cup RowsOf(update.ext, f)]
      /\ update' = [update EXCEPT !.pc = "wipe", !.todo = @ \ {f}, !.file = None]
  BY DEF InsertFileRows, UpdateStep, repoFiles, history, RowsOf
<1>2. /\ f \in update.todo /\ RowsOf(deps.rows, f) = {} /\ RowsOf(update.rows, f) = FileRows(f, disk)
      /\ f[1] = update.repo /\ update.repo \in update.repos
  BY <1>1 DEF DepsDone, FilesOf
<1>3. /\ update'.pc = "wipe" /\ update'.todo = update.todo \ {f} /\ update'.repo = update.repo
      /\ update'.rows = update.rows /\ update'.repos = update.repos
  BY <1>1 DEF UpdateTyped
<1> HIDE DEF f
<1>4. /\ RowsOf(deps'.rows, f) = FileRows(f, disk)
      /\ \A c : c # f => RowsOf(deps'.rows, c) = RowsOf(deps.rows, c) /\ RowsOf(deps'.ext, c) = RowsOf(deps.ext, c)
  BY <1>1, <1>2 DEF RowsOf
<1>5. GraphDone(graph', outline', disk', update', covered')
  BY <1>1, <1>3 DEF GraphDone
<1>6. \A c \in covered : c[1] \in update.repos \/ Settled(deps', disk, c)
  BY <1>1, <1>2, <1>4 DEF DepsDone, Settled
<1>7. DepsDone(deps', disk', update', covered')
  BY <1>1, <1>2, <1>3, <1>4, <1>6 DEF DepsDone
<1> QED BY <1>1, <1>5, <1>7

(* The end of a repository, and of the update when it was the last one.    *)
LEMMA DropStep ==
    ASSUME TypeInv, Underway(graph, outline, deps, disk, update, covered), DropGoneRows
    PROVE  IF update'.pc = "idle" THEN Updated(graph', outline', deps', disk', covered')
           ELSE Underway(graph', outline', deps', disk', update', covered')
<1> USE DEF Underway, TypeInv
<1> DEFINE gone == {f \in covered \cap FilesOf(update.repo) : disk[f] = Absent}
           left == update.repos \ {update.repo}
<1>1. /\ update.pc = "wipe" /\ update.todo = {} /\ UNCHANGED <<disk, covered, graph, outline>>
      /\ deps' = Without(gone)
      /\ left = {} => update' = Quiet
      /\ left # {} => update' = [update EXCEPT !.pc = "delete", !.repos = left, !.repo = None,
                                               !.rows = {}, !.ext = {}]
  BY DEF DropGoneRows, repoFiles
<1>2. /\ \A c \in gone : RowsOf(deps'.rows, c) = {} /\ RowsOf(deps'.ext, c) = {}
      /\ \A c : c \notin gone => RowsOf(deps'.rows, c) = RowsOf(deps.rows, c) /\ RowsOf(deps'.ext, c) = RowsOf(deps.ext, c)
  BY <1>1 DEF Without, RowsOf
<1>3. covered \subseteq Files /\ (\A c \in covered : Clean(graph, outline, c, disk[c])) /\ Sound(graph)
  BY <1>1 DEF GraphDone, UpdateTyped
<1>4. ASSUME NEW c \in covered, c[1] \notin left PROVE Settled(deps', disk, c)
  <2>1. CASE c[1] \notin update.repos
    BY <1>1, <1>2, <2>1 DEF DepsDone, Settled
  <2>2. CASE c[1] = update.repo
    BY <1>1, <1>2, <1>3, <2>2 DEF DepsDone, Settled, FilesOf, DepsFiles, Present
  <2> QED BY <1>4, <2>1, <2>2
<1>5. CASE left = {}
  BY <1>1, <1>3, <1>4, <1>5 DEF Updated, Quiet
<1>6. CASE left # {}
  <2>1. update'.pc = "delete" /\ update'.todo = {} /\ update'.repos = left
    BY <1>1, <1>6 DEF UpdateTyped
  <2>2. GraphDone(graph', outline', disk', update', covered')
    BY <1>1, <1>3, <2>1 DEF GraphDone
  <2>3. DepsDone(deps', disk', update', covered')
    BY <1>1, <1>4, <2>1 DEF DepsDone
  <2> QED BY <1>1, <2>1, <2>2, <2>3
<1> QED BY <1>5, <1>6

LEMMA UpdateInvInit == Init => UpdateInv
BY TypeInit DEF Init, UpdateInv, Quiet

(* A calm update is alone: no build takes a step, no file changes and no   *)
(* statement fails while it stays calm.                                    *)
LEMMA UnderwayNext ==
    ASSUME UpdateInv, [Next]_vars, calm', update'.pc # "idle"
    PROVE  Underway(graph', outline', deps', disk', update', covered')
<1> USE DEF UpdateInv
<1> DEFINE Goal == Underway(graph', outline', deps', disk', update', covered')
<1>1. CASE UpdateStart
  <2>1. /\ covered' = Changed /\ covered' # {} /\ update'.pc = "delete" /\ update'.todo = covered'
        /\ update'.repos = {f[1] : f \in covered'}
    BY <1>1 DEF UpdateStart, Quiet
  <2>2. GraphDone(graph', outline', disk', update', covered')
    BY <2>1 DEF GraphDone
  <2>3. DepsDone(deps', disk', update', covered')
    BY <2>1 DEF DepsDone
  <2> QED BY <2>1, <2>2, <2>3 DEF Underway
<1>2. ASSUME calm, update.pc # "idle" PROVE Goal
  <2>1. Underway(graph, outline, deps, disk, update, covered)
    BY <1>2
  <2>2. build.pc = "idle"
    BY <1>2 DEF TypeInv, AloneWhenCalm
  <2>3. ASSUME UNCHANGED <<graph, outline, deps, disk, update, covered>> PROVE Goal
    BY <2>1, <2>3
  <2>4. CASE User
    BY <2>3, <2>4 DEF User, Edit, Stage, Commit, stores, history
  <2>5. CASE Build
    BY <1>2, <2>2, <2>5 DEF Build, BuildStart, BuildStep, Begins, ParseRepo, ParseIdlRepo, WriteFile, RepoWritten,
         AllReposWritten, WipeDeps, InsertDeps, InsertFails, AllDepsWritten, RunCalls, RunImports,
         LinkStep, BuildDone, BuildKilled
  <2>6. CASE ReindexFails
    BY <2>6 DEF ReindexFails
  <2>7. CASE UpdateKilled
    BY <2>7 DEF UpdateKilled, Quiet
  <2>8. CASE DropGoneRows
    BY <2>1, <2>8, DropStep
  <2>9. CASE Update
    BY <1>1, <2>1, <2>6, <2>7, <2>8, <2>9, DeleteStep, RewriteStep, ResolveStep, WipeStep, InsertStep DEF Update
  <2> QED BY <2>3, <2>4, <2>5, <2>9 DEF Next, vars, repoFiles, stores, history
<1>3. CASE ~calm \/ update.pc = "idle"
  <2>1. CASE UNCHANGED <<calm, update>>
    BY <1>3, <2>1
  <2>2. CASE User
    BY <2>1, <2>2 DEF User, Edit, Stage, Commit, history
  <2>3. CASE BuildStart
    BY <2>3 DEF BuildStart, Begins
  <2>4. CASE Build
    BY <2>1, <2>3, <2>4 DEF Build, BuildStep, ParseRepo, ParseIdlRepo, WriteFile, RepoWritten,
         AllReposWritten, WipeDeps, InsertDeps, InsertFails, AllDepsWritten, RunCalls, RunImports,
         LinkStep, BuildDone, BuildKilled, history
  <2>5. CASE ReindexFails
    BY <2>5 DEF ReindexFails
  <2>6. CASE UpdateKilled
    BY <2>6 DEF UpdateKilled, Quiet
  <2>7. ASSUME update.pc # "idle", UNCHANGED calm PROVE Goal
    BY <1>3, <2>7
  <2>8. CASE Update
    BY <1>1, <2>5, <2>6, <2>7, <2>8 DEF Update, UpdateStep, DeleteFile, RewriteFile, ResolveDeps,
         WipeFileRows, InsertFileRows, DropGoneRows, history
  <2> QED BY <2>1, <2>2, <2>4, <2>8 DEF Next, vars, history
<1> QED BY <1>2, <1>3

LEMMA UpdatedNext ==
    ASSUME UpdateInv, [Next]_vars, last' = "update"
    PROVE  Updated(graph', outline', deps', disk', covered')
<1> USE DEF UpdateInv
<1> DEFINE Goal == Updated(graph', outline', deps', disk', covered')
<1>1. ASSUME UNCHANGED <<graph, outline, deps, disk, covered, last>> PROVE Goal
  BY <1>1
<1>2. last # "none" => build.pc = "idle" /\ update.pc = "idle"
  BY DEF TypeInv, AloneWhenCalm
<1>3. CASE User
  BY <1>1, <1>3 DEF User, Edit, Stage, Commit, stores, history
<1>4. ASSUME build.pc # "idle", UNCHANGED last PROVE Goal
  BY <1>2, <1>4
<1>5. CASE Build
  BY <1>4, <1>5 DEF Build, BuildStart, Begins, BuildStep, ParseRepo, ParseIdlRepo, WriteFile, RepoWritten,
       AllReposWritten, WipeDeps, InsertDeps, InsertFails, AllDepsWritten, RunCalls, RunImports,
       LinkStep, BuildDone, BuildKilled, history
<1>6. ASSUME update.pc # "idle", UNCHANGED last PROVE Goal
  BY <1>2, <1>6
<1>7. CASE DropGoneRows
  <2>1. update.pc = "wipe"
    BY <1>7 DEF DropGoneRows
  <2>2. CASE UNCHANGED last
    BY <1>6, <2>1, <2>2
  <2>3. CASE ~UNCHANGED last
    <3>1. calm /\ update'.pc = "idle"
      BY <1>7, <2>3 DEF DropGoneRows, Quiet
    <3> QED BY <1>7, <2>1, <3>1, DropStep
  <2> QED BY <2>2, <2>3
<1>8. CASE Update
  BY <1>6, <1>7, <1>8 DEF Update, UpdateStart, Begins, UpdateStep, DeleteFile, RewriteFile, ReindexFails,
       ResolveDeps, WipeFileRows, InsertFileRows, UpdateKilled, history
<1> QED BY <1>1, <1>3, <1>5, <1>8 DEF Next, vars, repoFiles, stores, history

LEMMA UpdateInvNext == UpdateInv /\ [Next]_vars => UpdateInv'
BY TypeNext, UnderwayNext, UpdatedNext DEF UpdateInv

LEMMA UpdateInvMeans == UpdateInv => UpdateMirrorsChanges
<1> SUFFICES ASSUME UpdateInv, last = "update" PROVE UpdateMirrorsChanges
  BY DEF UpdateMirrorsChanges
<1>1. Sound(graph) /\ \A f \in covered : Clean(graph, outline, f, disk[f]) /\ Settled(deps, disk, f)
  BY DEF UpdateInv, Updated
<1>2. ASSUME NEW f \in covered, disk[f] = Absent
      PROVE  NodesAtPath(graph, f[1], f[2]) = {} /\ Without({f}) = deps
  <2>1. NodesAtPath(graph, f[1], f[2]) = {} /\ RowsOf(deps.rows, f) = {} /\ RowsOf(deps.ext, f) = {}
    BY <1>1, <1>2 DEF Clean, Settled
  <2>2. {x \in deps.rows : x.file \notin {f}} = deps.rows /\ {x \in deps.ext : x.file \notin {f}} = deps.ext
    BY <2>1 DEF RowsOf
  <2>3. deps = [rows |-> deps.rows, ext |-> deps.ext]
    BY DEF UpdateInv, TypeInv, DepsTyped
  <2>4. Without({f}) = [rows |-> deps.rows, ext |-> deps.ext]
    BY <2>2 DEF Without
  <2> QED BY <2>1, <2>3, <2>4
<1>3. ASSUME NEW f \in covered, disk[f] # Absent
      PROVE  /\ HoldsFile(f, disk[f])
             /\ NodesAtPath(graph, f[1], f[2]) = DeclaredAt(f, disk[f])
             /\ f \in DepsFiles(disk) => {x \in deps.rows : x.file = f} = FileRows(f, disk)
  <2>1. Holds(graph, outline, f, disk[f]) /\ NodesAtPath(graph, f[1], f[2]) = DeclaredAt(f, disk[f])
    BY <1>1, <1>3 DEF Clean
  <2>2. f \in DepsFiles(disk) => RowsOf(deps.rows, f) = FileRows(f, disk)
    BY <1>1, <1>3 DEF Settled
  <2>3. HoldsFile(f, disk[f])
    BY <2>1 DEF Holds, HoldsFile
  <2> QED BY <2>1, <2>2, <2>3 DEF RowsOf
<1> QED BY <1>1, <1>2, <1>3 DEF UpdateMirrorsChanges, Sound

(***************************************************************************)
(* In any workspace, after an update that nothing disturbed and in which   *)
(* no statement failed, every file it covered is in the graph, the outline *)
(* and the dependency rows as it is on disk, whatever the stores held of   *)
(* it before, and no edge lacks an end (update, reindex_file,              *)
(* upsert_file_edges).                                                     *)
(***************************************************************************)
THEOREM UpdatesMirrorTheirFiles == Spec => []UpdateMirrorsChanges
BY UpdateInvInit, UpdateInvNext, UpdateInvMeans, PTL DEF Spec

-----------------------------------------------------------------------------
(* What kinds of nodes the edges join.  A call begins at a module, but for *)
(* the manual links between repositories, and does not end at one; a node  *)
(* of an IDL method is that of a method there is.                          *)

MethodNode(m) == Node("idlmethod", m[1], m[2], m[4])

FitsNode(n) == KindOf(n) = "idlmethod" => \E m \in IdlMethods : n = MethodNode(m)

FitsEdge(e) ==
    e[3] = "calls" =>
        /\ KindOf(e[2]) # "module"
        /\ KindOf(e[2]) \in QueryKinds => KindOf(e[1]) = "module"

Shaped(g) ==
    /\ IsGraph(g)
    /\ \A n \in DOMAIN g.nodes : FitsNode(n)
    /\ \A e \in DOMAIN g.edges : FitsEdge(e)

LEMMA KindsOfNodes ==
    ASSUME NEW r, NEW p, NEW f, NEW d
    PROVE  /\ KindOf(RepoNode(r)) = "repo" /\ KindOf(ModuleNode(r, p)) = "module"
           /\ KindOf(Module(f)) = "module" /\ KindOf(DeclNode(f, d)) = d.kind
           /\ FitsNode(RepoNode(r)) /\ FitsNode(ModuleNode(r, p)) /\ FitsNode(Module(f))
BY DEF RepoNode, ModuleNode, Module, DeclNode, Node, KindOf, FitsNode

LEMMA OtherKindsFit ==
    ASSUME NEW a, NEW b, NEW kind, kind # "calls"
    PROVE  FitsEdge(<<a, b, kind>>)
BY DEF FitsEdge

LEMMA RowsFit ==
    ASSUME NEW g, Shaped(g), NEW rows, \A n \in DOMAIN rows : FitsNode(n)
    PROVE  Shaped(UpsertNodes(g, rows))
BY UpsertNodesFacts DEF Shaped

LEMMA LinksFit ==
    ASSUME NEW g, Shaped(g), NEW rows, \A e \in DOMAIN rows : FitsEdge(e)
    PROVE  Shaped(UpsertEdges(g, rows))
BY UpsertEdgesFacts DEF Shaped

LEMMA PlainRowsFit ==
    ASSUME NEW g, Shaped(g), NEW S, \A n \in S : FitsNode(n), NEW c
    PROVE  Shaped(UpsertNodes(g, EdgeRows(S, c)))
BY RowsFit, EdgeRowsFacts

LEMMA PlainLinksFit ==
    ASSUME NEW g, Shaped(g), NEW S, \A e \in S : FitsEdge(e), NEW c
    PROVE  Shaped(UpsertEdges(g, EdgeRows(S, c)))
BY LinksFit, EdgeRowsFacts

LEMMA EmitModuleFits ==
    ASSUME NEW g, Shaped(g), NEW f, NEW text, IsText(text)
    PROVE  Shaped(EmitModule(g, f, text))
<1> DEFINE own == {RepoNode(f[1]), Module(f)}
           k == UpsertEdges(UpsertNodes(g, EdgeRows(own, 0)),
                    EdgeRows({<<RepoNode(f[1]), Module(f), "contains">>}, 100))
           ds == text.decls
           rows == [n \in {DeclNode(f, d) : d \in ds} |-> (CHOOSE d \in ds : DeclNode(f, d) = n).line]
           es == {<<DeclParent(f, d), DeclNode(f, d), "contains">> : d \in ds}
<1>1. Shaped(UpsertNodes(g, EdgeRows(own, 0)))
  BY PlainRowsFit, KindsOfNodes
<1>2. Shaped(k)
  BY <1>1, PlainLinksFit, OtherKindsFit
<1> HIDE DEF k
<1>3. \A n \in DOMAIN rows : FitsNode(n)
  <2> SUFFICES ASSUME NEW d \in ds PROVE FitsNode(DeclNode(f, d))
    OBVIOUS
  <2>1. d.kind \in {"function", "method", "type"}
    BY DEF IsText
  <2> QED BY <2>1, KindsOfNodes DEF FitsNode
<1>4. \A e \in es : FitsEdge(e)
  BY OtherKindsFit
<1>5. EmitModule(g, f, text) = UpsertEdges(UpsertNodes(k, rows), EdgeRows(es, 100))
  BY DEF EmitModule, EmitDecls, k
<1> HIDE DEF rows, es
<1>6. Shaped(UpsertNodes(k, rows))
  BY <1>2, <1>3, RowsFit
<1> QED BY <1>4, <1>5, <1>6, PlainLinksFit

LEMMA EmitImportsFits ==
    ASSUME NEW g, Shaped(g), NEW f, NEW text, NEW d, NEW pick
    PROVE  Shaped(EmitImports(g, f, text, d, pick))
<1> DEFINE local == {Module(t) : t \in LocalTargets(f, text, d)}
           pkgs == {pick[s] : s \in {t \in Specs(text) : ~IsRelative(t) /\ LookupPackage(t) # {}}}
           PkgModule(p) == ModuleNode(p.repo, IF p.main = None THEN "package.json" ELSE p.main)
           targets == local \cup {PkgModule(p) : p \in pkgs}
           contained == {<<RepoNode(f[1]), m, "contains">> : m \in local}
               \cup {<<RepoNode(p.repo), PkgModule(p), "contains">> : p \in {q \in pkgs : q.main = None}}
           es == contained \cup {<<Module(f), m, "imports">> : m \in targets}
<1>1. \A n \in targets : FitsNode(n)
  BY KindsOfNodes
<1>2. \A e \in es : FitsEdge(e)
  <2>1. \A e \in es : e[3] # "calls"
    OBVIOUS
  <2> QED BY <2>1 DEF FitsEdge
<1>3. EmitImports(g, f, text, d, pick) =
        UpsertEdges(UpsertNodes(g, EdgeRows(targets, 0)), EdgeRows(es, 100))
  BY DEF EmitImports
<1> HIDE DEF es, targets
<1>4. Shaped(UpsertNodes(g, EdgeRows(targets, 0)))
  BY <1>1, PlainRowsFit
<1> QED BY <1>2, <1>3, <1>4, PlainLinksFit

(* The IDL of a repository: its methods get their nodes.                   *)
LEMMA IndexIdlFits ==
    ASSUME NEW g, Shaped(g), NEW r
    PROVE  /\ Shaped(IndexIdl(g, r))
           /\ \A m \in IdlMethods : m[1] = r => MethodNode(m) \in DOMAIN IndexIdl(g, r).nodes
<1> DEFINE ms == {m \in IdlMethods : m[1] = r}
           Service(m) == Node("idlservice", r, m[2], m[3])
           Method(m) == Node("idlmethod", r, m[2], m[4])
           ns == {RepoNode(r)} \cup {Service(m) : m \in ms} \cup {Method(m) : m \in ms}
           es == {<<RepoNode(r), Service(m), "defines">> : m \in ms}
                    \cup {<<Service(m), Method(m), "contains">> : m \in ms}
           k == UpsertNodes(g, EdgeRows(ns, 0))
<1>1. \A n \in ns : FitsNode(n)
  <2>1. \A m \in ms : FitsNode(Service(m))
    BY DEF Node, KindOf, FitsNode
  <2>2. \A m \in ms : FitsNode(Method(m))
    BY DEF MethodNode, FitsNode
  <2> QED BY <2>1, <2>2, KindsOfNodes
<1>2. \A e \in es : FitsEdge(e)
  <2>1. \A e \in es : e[3] # "calls"
    OBVIOUS
  <2> QED BY <2>1 DEF FitsEdge
<1>3. IndexIdl(g, r) = UpsertEdges(k, EdgeRows(es, 100))
  BY DEF IndexIdl
<1>4. ASSUME NEW m \in IdlMethods, m[1] = r PROVE MethodNode(m) \in ns
  BY <1>4 DEF MethodNode
<1> HIDE DEF es, ns
<1>5. Shaped(k) /\ ns \subseteq DOMAIN k.nodes
  <2>1. Shaped(k)  BY <1>1, PlainRowsFit
  <2>2. DOMAIN k.nodes = DOMAIN g.nodes \cup ns
    BY UpsertNodesFacts, EdgeRowsFacts DEF Shaped
  <2> QED BY <2>1, <2>2
<1> HIDE DEF k
<1>6. IndexIdl(g, r).nodes = k.nodes
  BY <1>3, <1>5, UpsertEdgesFacts DEF Shaped
<1>7. Shaped(IndexIdl(g, r))
  BY <1>2, <1>3, <1>5, PlainLinksFit
<1> QED BY <1>4, <1>5, <1>6, <1>7

LEMMA LinkersFit ==
    ASSUME NEW g, Shaped(g), NEW d, NEW ext
    PROVE  /\ Shaped(LinkIdl(g, d)) /\ Shaped(LinkCalls(g, d))
           /\ Shaped(LinkImports(g, ext)) /\ Shaped(LinkManually(g))
<1>1. Shaped(LinkIdl(g, d))
  <2> DEFINE methods == NodesByKind(g, "idlmethod")
             names == {Short[SymbolOf(m)] : m \in methods} \ Noise
             Named(n) == {m \in methods : Short[SymbolOf(m)] = n}
             Score(f, n) == (IF n \in d[f].calls THEN 70 ELSE IF f \in ServerSide THEN 40 ELSE 0)
                                \div (IF Cardinality(Named(n)) > 1 THEN 2 ELSE 1)
             Kind(f) == IF f \in ServerSide THEN "implements" ELSE "invokes"
             links == {l \in Visible(d) \X names \X methods :
                          l[3] \in Named(l[2]) /\ l[2] \in NameHits(d[l[1]], names) /\ Score(l[1], l[2]) > 0}
             Edge(l) == <<Module(l[1]), l[3], Kind(l[1])>>
             rows == [e \in {Edge(l) : l \in links} |->
                          LET l == CHOOSE k \in links : Edge(k) = e IN Score(l[1], l[2])]
  <2>1. LinkIdl(g, d) = UpsertEdges(g, rows)
    BY DEF LinkIdl
  <2>2. \A l : FitsEdge(Edge(l))
    BY OtherKindsFit
  <2> HIDE DEF links, Edge
  <2>3. \A e \in DOMAIN rows : FitsEdge(e)
    BY <2>2
  <2> HIDE DEF rows
  <2> QED BY <2>1, <2>3, LinksFit
<1>2. Shaped(LinkCalls(g, d))
  <2> DEFINE names == UniqueNames(g)
             Def(n) == CHOOSE c \in Callables(g) : SymbolOf(c) = n
             es == UNION {{<<Module(f), Def(n), "calls">> : n \in NameHits(d[f], names) \cap d[f].calls}
                              : f \in Visible(d)}
  <2>1. \A n \in names : Def(n) \in Callables(g)
    BY DEF UniqueNames
  <2>2. \A c \in Callables(g) : KindOf(c) \in {"function", "method"}
    BY DEF Callables, NodesByKind
  <2>3. ASSUME NEW f \in Visible(d), NEW n \in NameHits(d[f], names)
        PROVE  FitsEdge(<<Module(f), Def(n), "calls">>)
    <3>1. n \in names  BY DEF NameHits
    <3>2. KindOf(Def(n)) # "module"  BY <2>1, <2>2, <3>1
    <3> HIDE DEF Def
    <3> QED BY <3>2, KindsOfNodes DEF FitsEdge
  <2>4. \A e \in es : FitsEdge(e)
    BY <2>3
  <2>5. LinkCalls(g, d) = UpsertEdges(g, EdgeRows(es, 100))
    BY DEF LinkCalls
  <2> HIDE DEF es
  <2> QED BY <2>4, <2>5, PlainLinksFit
<1>3. Shaped(LinkImports(g, ext))
  <2> DEFINE es == UNION {{<<Module(e.file), RepoNode(r), "imports">> :
                              r \in LongestMatch(e.raw) \ {e.file[1]}} : e \in ext}
  <2>1. \A e \in es : FitsEdge(e)
    BY OtherKindsFit
  <2>2. LinkImports(g, ext) = UpsertEdges(g, EdgeRows(es, 90))
    BY DEF LinkImports
  <2> HIDE DEF es
  <2> QED BY <2>1, <2>2, PlainLinksFit
<1>4. Shaped(LinkManually(g))
  <2> DEFINE ns == UNION {{RepoNode(l[1]), RepoNode(l[2])} : l \in Links}
             Kind(l) == IF l[3] \in {"calls", "invokes"} THEN l[3] ELSE "imports"
             es == {<<RepoNode(l[1]), RepoNode(l[2]), Kind(l)>> : l \in Links}
  <2>1. \A n \in ns : FitsNode(n)
    BY KindsOfNodes
  <2>2. \A e \in es : KindOf(e[2]) = "repo"
    BY KindsOfNodes
  <2>3. \A e \in es : FitsEdge(e)
    BY <2>2 DEF FitsEdge, QueryKinds
  <2>4. LinkManually(g) = UpsertEdges(UpsertNodes(g, EdgeRows(ns, 0)), EdgeRows(es, 100))
    BY DEF LinkManually
  <2> HIDE DEF es, ns
  <2>5. Shaped(UpsertNodes(g, EdgeRows(ns, 0)))
    BY <2>1, PlainRowsFit
  <2> QED BY <2>3, <2>4, <2>5, PlainLinksFit
<1> QED BY <1>1, <1>2, <1>3, <1>4

LEMMA DeleteModuleFits ==
    ASSUME NEW g, Shaped(g), NEW r, NEW p
    PROVE  Shaped(DeleteModule(g, r, p)) /\ Shaped(DeleteNodesAt(g, r, p))
<1>1. Shaped(DeleteModule(g, r, p))
  BY DeleteModuleFacts DEF Shaped
<1>2. Shaped(DeleteNodesAt(g, r, p))
  BY DEF DeleteNodesAt, Shaped, IsGraph
<1> QED BY <1>1, <1>2

LEMMA ShapedInit == Init => Shaped(graph)
BY DEF Init, EmptyGraph, Shaped, IsGraph

LEMMA GraphStaysShaped ==
    ASSUME TypeInv, Shaped(graph), [Next]_vars
    PROVE  Shaped(graph')
<1> USE DEF TypeInv
<1>1. CASE UNCHANGED graph
  BY <1>1 DEF Shaped, IsGraph
<1>2. CASE ParseRepo
  BY <1>2, PlainRowsFit, KindsOfNodes DEF ParseRepo
<1>3. CASE ParseIdlRepo
  BY <1>3, IndexIdlFits DEF ParseIdlRepo
<1>4. ASSUME NEW f \in Files, WriteFile(f) PROVE Shaped(graph')
  <2>1. f \in DOMAIN build.todo /\ build.todo[f] \in TextsOf[f]
    BY <1>4 DEF WriteFile, BuildTyped
  <2>2. Shaped(EmitModule(graph, f, build.todo[f]))
    BY <2>1, EmitModuleFits, WorkspaceAssumption
  <2>3. PICK pick \in Picks(Current(f)) :
          graph' = EmitImports(EmitModule(graph, f, build.todo[f]), f, Current(f), disk, pick)
    BY <1>4 DEF WriteFile
  <2> QED BY <2>2, <2>3, EmitImportsFits
<1>5. CASE AllDepsWritten \/ RunCalls \/ RunImports \/ BuildDone
  BY <1>5, LinkersFit DEF AllDepsWritten, RunCalls, RunImports, BuildDone, LinkStep
<1>6. ASSUME NEW f \in Files, DeleteFile(f) PROVE Shaped(graph')
  BY <1>6, DeleteModuleFits DEF DeleteFile
<1>7. CASE RewriteFile
  <2>1. update.file \in Files
    BY <1>7 DEF RewriteFile, UpdateStep, UpdateTyped
  <2>2. CASE disk[update.file] = Absent
    BY <1>1, <1>7, <2>2 DEF RewriteFile
  <2>3. CASE disk[update.file] # Absent
    BY <1>7, <2>1, <2>3, TextsThere, EmitModuleFits DEF RewriteFile
  <2> QED BY <2>2, <2>3
<1>8. CASE ReindexFails
  BY <1>1, <1>8, DeleteModuleFits DEF ReindexFails
<1>9. CASE User
  BY <1>1, <1>9 DEF User, Edit, Stage, Commit, stores
<1>10. CASE Build
  BY <1>1, <1>2, <1>3, <1>4, <1>5, <1>10 DEF Build, BuildStart, RepoWritten, AllReposWritten, WipeDeps,
       InsertDeps, InsertFails, BuildKilled, stores
<1>11. CASE Update
  BY <1>1, <1>6, <1>7, <1>8, <1>11 DEF Update, UpdateStart, ResolveDeps, WipeFileRows, InsertFileRows,
       DropGoneRows, UpdateKilled, stores
<1> QED BY <1>1, <1>9, <1>10, <1>11 DEF Next, vars, stores

-----------------------------------------------------------------------------
(* Who calls a name.                                                       *)

Start(starts) == [visited |-> starts, frontier |-> starts, chains |-> {}]

(* The walk of callers, round by round.                                    *)
LEMMA WalkRounds ==
    ASSUME NEW g, NEW starts, NEW n \in {1, 3},
           NEW w1, w1 = CallersRound(g, Start(starts)),
           NEW w2, w2 = CallersRound(g, w1), NEW w3, w3 = CallersRound(g, w2)
    PROVE  WalkCallers(g, starts, n) = (IF n = 1 THEN w1 ELSE w3).chains
<1> DEFINE Walk(w) == w = [d \in 0..n |-> IF d = 0 THEN Start(starts) ELSE CallersRound(g, w[d - 1])]
           walk == CHOOSE w : Walk(w)
           known == [d \in 0..n |-> IF d = 0 THEN Start(starts) ELSE IF d = 1 THEN w1 ELSE IF d = 2 THEN w2 ELSE w3]
<1>1. WalkCallers(g, starts, n) = walk[n].chains
  BY DEF WalkCallers, Start
<1>2. Walk(known)
  <2>1. ASSUME NEW d \in 0..n PROVE known[d] = IF d = 0 THEN Start(starts) ELSE CallersRound(g, known[d - 1])
    OBVIOUS
  <2> QED BY <2>1
<1>3. Walk(walk)
  BY <1>2
<1> HIDE DEF walk
<1>4. walk[0] = Start(starts) /\ walk[1] = w1
  BY <1>3
<1>5. n = 3 => walk[2] = w2 /\ walk[3] = w3
  BY <1>3, <1>4
<1> QED BY <1>1, <1>4, <1>5

Callers(g, s) == NodesByIds(g, {e[1] : e \in IncomingEdges(g, s, "calls")})

(* Callers are modules, which nothing calls: there is one round.           *)
LEMMA OneRound ==
    ASSUME NEW g, Shaped(g), NEW starts, \A s \in starts : KindOf(s) \in QueryKinds
    PROVE  /\ {c.caller : c \in WalkCallers(g, starts, 1)} = UNION {Callers(g, s) : s \in starts}
           /\ WalkCallers(g, starts, 3) = WalkCallers(g, starts, 1)
<1> DEFINE w0 == Start(starts)
           w1 == CallersRound(g, w0)
           w2 == CallersRound(g, w1)
           w3 == CallersRound(g, w2)
           froms == {e[1] : e \in UNION {IncomingEdges(g, t, "calls") : t \in starts}}
           all == UNION {Callers(g, s) : s \in starts}
           Row(c) == [caller |-> c, targets |-> {t \in starts : <<c, t, "calls">> \in DOMAIN g.edges}]
<1>1. \A a \in froms : KindOf(a) = "module"
  BY DEF IncomingEdges, Shaped, FitsEdge
<1>2. froms \ starts = froms
  BY <1>1 DEF QueryKinds
<1>3. NodesByIds(g, froms) = all
  BY DEF NodesByIds, Callers
<1> HIDE DEF froms
<1>4. /\ w1.frontier = all
      /\ w1.chains = {Row(c) : c \in all}
  BY <1>2, <1>3 DEF CallersRound, Start, froms
<1>5. {c.caller : c \in w1.chains} = all
  <2>1. \A c : Row(c).caller = c
    OBVIOUS
  <2> HIDE DEF Row, all, w1
  <2> QED BY <1>4, <2>1
<1>6. \A a \in all : KindOf(a) = "module"
  BY <1>1, <1>3 DEF NodesByIds
<1> HIDE DEF all, w1
<1>7. UNION {IncomingEdges(g, t, "calls") : t \in w1.frontier} = {}
  BY <1>4, <1>6 DEF IncomingEdges, Shaped, FitsEdge
<1>8. w2.frontier = {} /\ w2.chains = w1.chains
  BY <1>7 DEF CallersRound, NodesByIds
<1> HIDE DEF w2
<1>9. w3.chains = w1.chains
  BY <1>8 DEF CallersRound, NodesByIds
<1> HIDE DEF w3
<1>10. WalkCallers(g, starts, 1) = w1.chains /\ WalkCallers(g, starts, 3) = w3.chains
  <2>1. w1 = CallersRound(g, Start(starts)) /\ w2 = CallersRound(g, w1) /\ w3 = CallersRound(g, w2)
    BY DEF w1, w2, w3
  <2>2. WalkCallers(g, starts, 1) = (IF 1 = 1 THEN w1 ELSE w3).chains
    BY <2>1, WalkRounds
  <2>3. WalkCallers(g, starts, 3) = (IF 3 = 1 THEN w1 ELSE w3).chains
    BY <2>1, WalkRounds
  <2> QED BY <2>2, <2>3
<1> QED BY <1>5, <1>9, <1>10 DEF all

(* A query without a cut sees every row that matches.                      *)
LEMMA CallersOfName ==
    ASSUME Shaped(graph), NEW n \in DeclaredNames, Uncut(n)
    PROVE  /\ CallersOf(graph, n, None, 3) = CallersOf(graph, n, None, 1)
           /\ LET called == {{c.caller : c \in chains} : chains \in CallersOf(graph, n, None, 1)}
                  shown  == {r.callers : r \in SymbolResults(graph, n, None)}
              IN  CallersOfOne(graph, n, 1) = shown /\ called = {UNION shown}
<1> DEFINE rows == MatchingSymbols(graph, n, None)
           exact == {m \in rows : SymbolOf(m) = n}
           Of(s) == Callers(graph, s)
<1>1. SearchSymbols(graph, n, None, 50) = {rows} /\ SearchSymbols(graph, n, None, 200) = {rows}
  BY DEF Uncut, SearchSymbols, Limited
<1>2. \A s \in exact : KindOf(s) \in QueryKinds
  BY DEF MatchingSymbols
<1>3. exact # {}
  <2>1. PICK c \in Callables(graph) : SymbolOf(c) = n
    BY DEF DeclaredNames
  <2>2. c \in DOMAIN graph.nodes /\ KindOf(c) \in QueryKinds
    BY <2>1 DEF Callables, NodesByKind, QueryKinds
  <2>3. c \in rows
    BY <2>1, <2>2 DEF MatchingSymbols, Like
  <2> QED BY <2>1, <2>3
<1> HIDE DEF rows
<1>4. CallersOf(graph, n, None, 1) = {WalkCallers(graph, exact, 1)}
  BY <1>1 DEF CallersOf
<1>5. CallersOf(graph, n, None, 3) = {WalkCallers(graph, exact, 3)}
  BY <1>1 DEF CallersOf
<1>6. CallersOfOne(graph, n, 1) = {{c.caller : c \in WalkCallers(graph, {s}, 1)} : s \in exact}
  BY <1>1, <1>3 DEF CallersOfOne
<1>7. {r.callers : r \in SymbolResults(graph, n, None)} = {Of(s) : s \in exact}
  <2> DEFINE Result(m) ==
               [symbol |-> m, callers |-> Of(m),
                callees |-> NodesByIds(graph, {e[2] : e \in OutgoingEdges(graph, m, "calls")})]
  <2>1. UNION {{m \in matches : SymbolOf(m) = n /\ (None = None \/ RepoOf(m) = None)}
                  : matches \in SearchSymbols(graph, n, None, 50)} = exact
    BY <1>1
  <2>2. SymbolResults(graph, n, None) = {Result(m) : m \in exact}
    BY <2>1 DEF SymbolResults, Callers
  <2>3. \A m : Result(m).callers = Of(m)
    OBVIOUS
  <2> HIDE DEF exact, Of, Result
  <2> QED BY <2>2, <2>3
<1> HIDE DEF exact
<1>8. \A s \in exact : {c.caller : c \in WalkCallers(graph, {s}, 1)} = Of(s)
  <2> SUFFICES ASSUME NEW s \in exact PROVE {c.caller : c \in WalkCallers(graph, {s}, 1)} = Of(s)
    OBVIOUS
  <2>1. {c.caller : c \in WalkCallers(graph, {s}, 1)} = UNION {Of(t) : t \in {s}}
    BY <1>2, OneRound
  <2>2. UNION {Of(t) : t \in {s}} = Of(s)
    OBVIOUS
  <2> QED BY <2>1, <2>2
<1>9. {c.caller : c \in WalkCallers(graph, exact, 1)} = UNION {Of(s) : s \in exact}
      /\ WalkCallers(graph, exact, 3) = WalkCallers(graph, exact, 1)
  BY <1>2, OneRound
<1>10. CallersOfOne(graph, n, 1) = {Of(s) : s \in exact}
  BY <1>6, <1>8
<1>11. {{c.caller : c \in chains} : chains \in CallersOf(graph, n, None, 1)} = {UNION {Of(s) : s \in exact}}
  BY <1>4, <1>9
<1> HIDE DEF Of
<1> QED BY <1>4, <1>5, <1>7, <1>9, <1>10, <1>11

(***************************************************************************)
(* In any workspace, whatever ran and failed: the queries for the callers  *)
(* of a name agree, as long as no limit cuts the rows that match it        *)
(* (get_callers_all, get_callers, get_symbol).                             *)
(***************************************************************************)
THEOREM CallersOfNamesAgree == Spec => []CallersAgree
<1>1. Init => Shaped(graph)
  BY ShapedInit
<1>2. TypeInv /\ Shaped(graph) /\ [Next]_vars => Shaped(graph)'
  BY GraphStaysShaped DEF Shaped, IsGraph
<1>3. Shaped(graph) => CallersAgree
  BY CallersOfName DEF CallersAgree
<1> QED BY <1>1, <1>2, <1>3, TypeInit, TypeNext, PTL DEF Spec
-----------------------------------------------------------------------------
(* A build only adds: every step but the declarations of a file leaves the *)
(* rows there are as they are.                                             *)

Grows(g, h) ==
    /\ IsGraph(h)
    /\ DOMAIN g.nodes \subseteq DOMAIN h.nodes /\ DOMAIN g.edges \subseteq DOMAIN h.edges
    /\ \A n \in DOMAIN g.nodes : h.nodes[n] = g.nodes[n]

LEMMA PlainNodesGrow ==
    ASSUME NEW g, IsGraph(g), NEW S
    PROVE  Grows(g, UpsertNodes(g, EdgeRows(S, 0)))
<1> DEFINE h == UpsertNodes(g, EdgeRows(S, 0))
<1>1. /\ IsGraph(h) /\ h.edges = g.edges
      /\ DOMAIN h.nodes = DOMAIN g.nodes \cup S
      /\ \A n \in DOMAIN g.nodes : h.nodes[n] = g.nodes[n]
  BY UpsertNodesFacts, EdgeRowsFacts
<1> QED BY <1>1 DEF Grows

LEMMA EdgesGrow ==
    ASSUME NEW g, IsGraph(g), NEW rows
    PROVE  Grows(g, UpsertEdges(g, rows))
BY UpsertEdgesFacts DEF Grows

LEMMA RowsGrow ==
    ASSUME NEW g, IsGraph(g), NEW S, NEW rows
    PROVE  Grows(g, UpsertEdges(UpsertNodes(g, EdgeRows(S, 0)), rows))
<1> DEFINE k == UpsertNodes(g, EdgeRows(S, 0))
<1>1. Grows(g, k)
  BY PlainNodesGrow
<1> HIDE DEF k
<1>2. Grows(k, UpsertEdges(k, rows))
  BY <1>1, EdgesGrow DEF Grows
<1>3. Grows(g, UpsertEdges(k, rows))
  BY <1>1, <1>2 DEF Grows
<1> QED BY <1>3 DEF k

LEMMA LinkersGrow ==
    ASSUME NEW g, IsGraph(g), NEW d, NEW r, NEW ext
    PROVE  /\ Grows(g, IndexIdl(g, r)) /\ Grows(g, LinkManually(g))
           /\ Grows(g, LinkIdl(g, d)) /\ Grows(g, LinkCalls(g, d)) /\ Grows(g, LinkImports(g, ext))
<1>1. Grows(g, IndexIdl(g, r)) /\ Grows(g, LinkManually(g))
  BY RowsGrow DEF IndexIdl, LinkManually
<1>2. Grows(g, LinkIdl(g, d)) /\ Grows(g, LinkCalls(g, d)) /\ Grows(g, LinkImports(g, ext))
  BY EdgesGrow DEF LinkIdl, LinkCalls, LinkImports
<1> QED BY <1>1, <1>2

Adds(g, h) == DOMAIN g.nodes \subseteq DOMAIN h.nodes /\ DOMAIN g.edges \subseteq DOMAIN h.edges

(* index_repo_v2 writes an edge for every import of a file there is, and   *)
(* the module it leads to.                                                 *)
ImportsThere(g, f, text, d) ==
    \A s \in Specs(text) : IsRelative(s) /\ Target(f, s) \in Present(d) =>
        /\ <<Module(f), Module(Target(f, s)), "imports">> \in DOMAIN g.edges
        /\ Module(Target(f, s)) \in DOMAIN g.nodes

LEMMA EmitImportsFacts ==
    ASSUME NEW g, IsGraph(g), NEW f, NEW text, NEW d, NEW pick,
           NEW h, h = EmitImports(g, f, text, d, pick)
    PROVE  Grows(g, h) /\ ImportsThere(h, f, text, d)
<1> DEFINE local == {Module(t) : t \in LocalTargets(f, text, d)}
           pkgs == {pick[s] : s \in {t \in Specs(text) : ~IsRelative(t) /\ LookupPackage(t) # {}}}
           PkgModule(p) == ModuleNode(p.repo, IF p.main = None THEN "package.json" ELSE p.main)
           contained == {<<RepoNode(f[1]), m, "contains">> : m \in local}
               \cup {<<RepoNode(p.repo), PkgModule(p), "contains">> : p \in {q \in pkgs : q.main = None}}
           targets == local \cup {PkgModule(p) : p \in pkgs}
           es == contained \cup {<<Module(f), m, "imports">> : m \in targets}
           k == UpsertNodes(g, EdgeRows(targets, 0))
<1>1. h = UpsertEdges(k, EdgeRows(es, 100))
  BY DEF EmitImports
<1>2. ASSUME NEW s \in Specs(text), IsRelative(s), Target(f, s) \in Present(d)
      PROVE  <<Module(f), Module(Target(f, s)), "imports">> \in es /\ Module(Target(f, s)) \in targets
  <2>1. Target(f, s) \in LocalTargets(f, text, d)
    BY <1>2 DEF LocalTargets
  <2> QED BY <2>1
<1>3. Grows(g, h)
  BY <1>1, RowsGrow
<1> HIDE DEF es, targets
<1>4. IsGraph(k) /\ targets \subseteq DOMAIN k.nodes
  BY UpsertNodesFacts, EdgeRowsFacts
<1> HIDE DEF k
<1>5. es \subseteq DOMAIN h.edges /\ h.nodes = k.nodes
  BY <1>1, <1>4, UpsertEdgesFacts, EdgeRowsFacts
<1> QED BY <1>2, <1>3, <1>4, <1>5 DEF ImportsThere

LEMMA HoldsGrows ==
    ASSUME NEW g, NEW h, Grows(g, h), NEW o, NEW f, NEW text, Holds(g, o, f, text)
    PROVE  Holds(h, o, f, text)
<1>1. \A d \in text.decls : DeclNode(f, d) \in DOMAIN g.nodes
  BY DEF Holds, DeclaredAt, NodesAtPath
<1> QED BY <1>1 DEF Holds, Grows, NodesAtPath

-----------------------------------------------------------------------------
(* A build that nothing disturbs, step by step.                            *)

LEMMA RangeSplit ==
    ASSUME NEW s \in Seq(STRING), s # <<>>
    PROVE  Range(s) = {Head(s)} \cup Range(Tail(s))
<1>1. ASSUME NEW i \in DOMAIN s PROVE s[i] \in {Head(s)} \cup Range(Tail(s))
  <2>1. CASE i = 1
    BY <2>1
  <2>2. CASE i # 1
    <3>1. i - 1 \in DOMAIN Tail(s) /\ Tail(s)[i - 1] = s[i]
      BY <2>2
    <3> QED BY <3>1 DEF Range
  <2> QED BY <2>1, <2>2
<1>2. ASSUME NEW i \in DOMAIN Tail(s) PROVE Tail(s)[i] \in Range(s)
  <2>1. i + 1 \in DOMAIN s /\ s[i + 1] = Tail(s)[i]
    OBVIOUS
  <2> QED BY <2>1 DEF Range
<1>3. Head(s) \in Range(s)
  <2>1. 1 \in DOMAIN s /\ s[1] = Head(s)
    OBVIOUS
  <2> QED BY <2>1 DEF Range
<1> QED BY <1>1, <1>2, <1>3 DEF Range

LEMMA EmptyRange == Range(<<>>) = {}
BY DEF Range

Written(g, o, d, f) == Holds(g, o, f, d[f]) /\ ImportsThere(g, f, d[f], d)

(* Every file is written, or waits in the repository at hand or in one to  *)
(* come.                                                                   *)
FilesDone(g, o, d, b) ==
    /\ \A f \in Visible(d) :
        \/ Written(g, o, d, f)
        \/ b.pc = "repo" /\ f[1] \in Range(b.repos)
        \/ b.pc = "write" /\ (f \in DOMAIN b.todo \/ f[1] \in Range(Tail(b.repos)))
    /\ b.pc = "write" => \A f \in DOMAIN b.todo : f \in Visible(d) /\ b.todo[f] = d[f]

(* The dependency rows name files there are and miss no import.            *)
InTree(rows, d, rest) == \A x \in rows : x.file[1] \in rest \/ {x.file, x.to} \subseteq Present(d)

Accounted(rows, ext, d, f) ==
    \A i \in DOMAIN d[f].imports :
        LET s == d[f].imports[i].spec
        IN  \/ \E x \in rows : x.file = f /\ IsRelative(s) /\ x.to = Target(f, s)
            \/ [file |-> f, raw |-> s] \in ext

RowsDone(ds, d, b) ==
    /\ b.pc = "deps" =>
        /\ InTree(ds.rows, d, Range(b.repos))
        /\ \A f \in DepsFiles(d) : f[1] \in Range(b.repos) \/ Accounted(ds.rows, ds.ext, d, f)
    /\ b.pc = "insert" =>
        /\ InTree(ds.rows, d, Range(Tail(b.repos))) /\ InTree(b.rows, d, {})
        /\ \A f \in DepsFiles(d) : f[1] \in Range(Tail(b.repos))
                \/ Accounted(ds.rows, ds.ext, d, f) \/ Accounted(b.rows, b.ext, d, f)
    /\ b.pc \in {"calls", "imports", "links"} =>
        InTree(ds.rows, d, {}) /\ \A f \in DepsFiles(d) : Accounted(ds.rows, ds.ext, d, f)

(* A call of a name with one definition has its edge.                      *)
Definitions(g, n) == {c \in DOMAIN g.nodes : KindOf(c) \in {"function", "method"} /\ SymbolOf(c) = n}
Names(g) == {SymbolOf(c) : c \in Callables(g)}

CallsThere(g, d) ==
    \A f \in Visible(d) : \A n \in d[f].calls \ Noise : \A c \in Definitions(g, n) :
        Definitions(g, n) = {c} /\ (\A m \in Names(g) : <<m, n>> \notin Shadows) =>
            <<Module(f), c, "calls">> \in DOMAIN g.edges

(* Each IDL method has its node unless its repository is still to come,    *)
(* and its links from the files that call it.                              *)
MethodsThere(g, left) == \A m \in IdlMethods : m[1] \in left \/ MethodNode(m) \in DOMAIN g.nodes

IdlCall(text, m) ==
    /\ Short[m[4]] \in text.calls \ Noise
    /\ \A o \in IdlMethods : <<Short[o[4]], Short[m[4]]>> \notin Shadows

IdlKind(f) == IF f \in ServerSide THEN "implements" ELSE "invokes"

IdlLinked(g, d) ==
    \A f \in Visible(d) : \A m \in IdlMethods :
        IdlCall(d[f], m) => <<Module(f), MethodNode(m), IdlKind(f)>> \in DOMAIN g.edges

IdlDone(g, d, b) ==
    /\ b.pc = "repo" => MethodsThere(g, Range(b.repos))
    /\ b.pc = "write" => MethodsThere(g, Range(Tail(b.repos)))
    /\ b.pc \in {"deps", "insert", "calls", "imports", "links"} => MethodsThere(g, {})
    /\ b.pc \in {"calls", "imports", "links"} => IdlLinked(g, d)

CallsDone(g, d, b) == b.pc \in {"imports", "links"} => CallsThere(g, d)

Building(g, o, ds, d, b) ==
    FilesDone(g, o, d, b) /\ RowsDone(ds, d, b) /\ CallsDone(g, d, b) /\ IdlDone(g, d, b)

Built(g, o, ds, d) ==
    /\ \A f \in Visible(d) : Written(g, o, d, f)
    /\ InTree(ds.rows, d, {}) /\ \A f \in DepsFiles(d) : Accounted(ds.rows, ds.ext, d, f)
    /\ CallsThere(g, d)
    /\ MethodsThere(g, {}) /\ IdlLinked(g, d)

BuildInv ==
    /\ TypeInv /\ Shaped(graph)
    /\ calm /\ build.pc # "idle" => Building(graph, outline, deps, disk, build)
    /\ last = "build" => Built(graph, outline, deps, disk)

LEMMA WrittenGrows ==
    ASSUME NEW g, NEW h, Grows(g, h), NEW o, NEW d, NEW f, Written(g, o, d, f)
    PROVE  Written(h, o, d, f)
<1>1. Holds(h, o, f, d[f])
  BY HoldsGrows DEF Written
<1>2. ImportsThere(h, f, d[f], d)
  BY DEF Written, ImportsThere, Grows
<1> QED BY <1>1, <1>2 DEF Written

(* What is there of the IDL stays as the graph grows.                      *)
LEMMA IdlStays ==
    ASSUME NEW g, NEW h, Adds(g, h) \/ Grows(g, h)
    PROVE  /\ \A left : MethodsThere(g, left) => MethodsThere(h, left)
           /\ \A d : IdlLinked(g, d) => IdlLinked(h, d)
<1>1. DOMAIN g.nodes \subseteq DOMAIN h.nodes /\ DOMAIN g.edges \subseteq DOMAIN h.edges
  BY DEF Adds, Grows
<1> QED BY <1>1 DEF MethodsThere, IdlLinked

LEMMA MethodNodeFacts ==
    ASSUME NEW m
    PROVE  /\ KindOf(MethodNode(m)) = "idlmethod" /\ SymbolOf(MethodNode(m)) = m[4]
           /\ RepoOf(MethodNode(m)) = m[1]
BY DEF MethodNode, Node, KindOf, SymbolOf, RepoOf

(* The linker of IDL methods finds the calls of all of them ...            *)
LEMMA LinkIdlFinds ==
    ASSUME NEW g, Shaped(g), NEW d, \A f \in Visible(d) : IsText(d[f]), MethodsThere(g, {})
    PROVE  IdlLinked(LinkIdl(g, d), d)
<1> DEFINE h == LinkIdl(g, d)
           methods == NodesByKind(g, "idlmethod")
           names == {Short[SymbolOf(m)] : m \in methods} \ Noise
           Named(n) == {m \in methods : Short[SymbolOf(m)] = n}
           Score(f, n) == (IF n \in d[f].calls THEN 70 ELSE IF f \in ServerSide THEN 40 ELSE 0)
                              \div (IF Cardinality(Named(n)) > 1 THEN 2 ELSE 1)
           links == {l \in Visible(d) \X names \X methods :
                        l[3] \in Named(l[2]) /\ l[2] \in NameHits(d[l[1]], names) /\ Score(l[1], l[2]) > 0}
           Edge(l) == <<Module(l[1]), l[3], IdlKind(l[1])>>
           rows == [e \in {Edge(l) : l \in links} |->
                        LET l == CHOOSE k \in links : Edge(k) = e IN Score(l[1], l[2])]
<1>1. h = UpsertEdges(g, rows)
  BY DEF LinkIdl, IdlKind
<1>2. \A l \in links : Edge(l) \in DOMAIN rows
  OBVIOUS
<1>3. \A f, n : n \in d[f].calls => Score(f, n) > 0
  OBVIOUS
<1> HIDE DEF Score, rows
<1>4. DOMAIN rows \subseteq DOMAIN h.edges
  BY <1>1, UpsertEdgesFacts DEF Shaped
<1>5. ASSUME NEW f \in Visible(d), NEW m \in IdlMethods, IdlCall(d[f], m)
      PROVE  <<Module(f), MethodNode(m), IdlKind(f)>> \in DOMAIN rows
  <2> DEFINE n == Short[m[4]]
             l == <<f, n, MethodNode(m)>>
  <2>1. MethodNode(m) \in methods /\ SymbolOf(MethodNode(m)) = m[4]
    BY MethodNodeFacts DEF MethodsThere, NodesByKind
  <2>2. n \in d[f].calls /\ n \notin Noise /\ n \in d[f].words
    BY <1>5 DEF IdlCall, IsText
  <2>3. n \in names /\ MethodNode(m) \in Named(n)
    BY <2>1, <2>2
  <2>4. ASSUME NEW o \in names PROVE <<o, n>> \notin Shadows
    <3>1. PICK x \in methods : o = Short[SymbolOf(x)]
      OBVIOUS
    <3>2. PICK p \in IdlMethods : x = MethodNode(p)
      BY DEF NodesByKind, Shaped, FitsNode
    <3>3. o = Short[p[4]]
      BY <3>1, <3>2, MethodNodeFacts
    <3> QED BY <1>5, <3>3 DEF IdlCall
  <2> HIDE DEF names, methods, n
  <2>5. n \in NameHits(d[f], names)
    BY <2>2, <2>3, <2>4 DEF NameHits
  <2>6. l \in links
    BY <1>3, <2>1, <2>2, <2>3, <2>5
  <2>7. Edge(l) = <<Module(f), MethodNode(m), IdlKind(f)>>
    OBVIOUS
  <2> HIDE DEF links, Edge, l
  <2> QED BY <1>2, <2>6, <2>7
<1>6. IdlLinked(h, d)
  BY <1>4, <1>5 DEF IdlLinked
<1> QED BY <1>6 DEF h

(* The linker of calls finds every name that is defined once.              *)
LEMMA LinkCallsFinds ==
    ASSUME NEW g, IsGraph(g), NEW d, \A f \in Visible(d) : IsText(d[f])
    PROVE  CallsThere(LinkCalls(g, d), d)
<1> DEFINE h == LinkCalls(g, d)
           names == UniqueNames(g)
           Def(n) == CHOOSE c \in Callables(g) : SymbolOf(c) = n
           es == UNION {{<<Module(f), Def(n), "calls">> : n \in NameHits(d[f], names) \cap d[f].calls}
                            : f \in Visible(d)}
<1>1. h = UpsertEdges(g, EdgeRows(es, 100))
  BY DEF LinkCalls
<1>2. h.nodes = g.nodes /\ es \subseteq DOMAIN h.edges
  BY <1>1, UpsertEdgesFacts, EdgeRowsFacts
<1> HIDE DEF h
<1>3. Callables(h) = Callables(g) /\ Names(h) = Names(g) /\ \A n : Definitions(h, n) = Definitions(g, n)
  BY <1>2 DEF Callables, NodesByKind, Names, Definitions
<1>4. \A n : Definitions(g, n) = {c \in Callables(g) : SymbolOf(c) = n}
  BY DEF Definitions, Callables, NodesByKind
<1>5. ASSUME NEW f \in Visible(d), NEW n \in d[f].calls \ Noise, NEW c \in Definitions(g, n),
             Definitions(g, n) = {c}, \A m \in Names(g) : <<m, n>> \notin Shadows
      PROVE  <<Module(f), c, "calls">> \in es
  <2>1. c \in Callables(g) /\ SymbolOf(c) = n /\ \A b \in Callables(g) : SymbolOf(b) = n => b = c
    BY <1>4, <1>5
  <2>2. Def(n) = c
    BY <2>1
  <2>3. n \in names
    <3>1. Cardinality({b \in Callables(g) : SymbolOf(b) = n}) = 1
      BY <1>4, <1>5, FS_Singleton
    <3> QED BY <2>1, <3>1 DEF UniqueNames
  <2>4. names \subseteq Names(g)
    BY DEF UniqueNames, Names
  <2>5. n \in d[f].words
    BY DEF IsText
  <2>6. n \in NameHits(d[f], names)
    BY <1>5, <2>3, <2>4, <2>5 DEF NameHits
  <2> QED BY <2>2, <2>6
<1> HIDE DEF es
<1>6. CallsThere(h, d)
  BY <1>2, <1>3, <1>5 DEF CallsThere
<1> QED BY <1>6 DEF h

(* ... and the steps after it add no callable.                             *)
LEMMA CallsStay ==
    ASSUME NEW g, NEW h, Grows(g, h), NEW d, CallsThere(g, d),
           \A n \in DOMAIN h.nodes \ DOMAIN g.nodes : KindOf(n) = "repo"
    PROVE  CallsThere(h, d)
<1>1. Callables(h) = Callables(g) /\ Names(h) = Names(g) /\ \A n : Definitions(h, n) = Definitions(g, n)
  <2>1. ASSUME NEW kind \in {"function", "method"} PROVE NodesByKind(h, kind) = NodesByKind(g, kind)
    BY DEF NodesByKind, Grows
  <2>2. Callables(h) = Callables(g)
    BY <2>1 DEF Callables
  <2>3. \A n : Definitions(h, n) = {c \in Callables(h) : SymbolOf(c) = n}
    BY DEF Definitions, Callables, NodesByKind
  <2>4. \A n : Definitions(g, n) = {c \in Callables(g) : SymbolOf(c) = n}
    BY DEF Definitions, Callables, NodesByKind
  <2> QED BY <2>2, <2>3, <2>4 DEF Names
<1> QED BY <1>1 DEF CallsThere, Grows

(* The rows a build computes of one file.                                  *)
LEMMA BuildRowsFacts ==
    ASSUME NEW f \in Files, NEW d
    PROVE  /\ InTree(BuildRows(f, d), d, {})
           /\ f \in DepsFiles(d) => Accounted(BuildRows(f, d), ExternalRows(f, d), d, f)
<1> DEFINE imports == d[f].imports
           First(i) == Min({j \in Internal(f, d) : imports[j].spec = imports[i].spec})
<1>1. \A i \in Internal(f, d) :
        /\ i \in DOMAIN imports /\ IsRelative(imports[i].spec)
        /\ Target(f, imports[i].spec) \in Present(d)
  BY DEF Internal
<1>2. CASE f \notin DepsFiles(d)
  BY <1>2 DEF BuildRows, InTree
<1>3. CASE f \in DepsFiles(d)
  <2>1. BuildRows(f, d) = {DepRow(f, imports[i].spec, imports[First(i)].kind) : i \in Internal(f, d)}
    BY <1>3 DEF BuildRows
  <2>2. ExternalRows(f, d) = {[file |-> f, raw |-> imports[i].spec] : i \in DOMAIN imports \ Internal(f, d)}
    BY <1>3 DEF ExternalRows
  <2> HIDE DEF imports, First
  <2>3. f \in Present(d)
    BY <1>3 DEF DepsFiles
  <2>4. InTree(BuildRows(f, d), d, {})
    BY <1>1, <2>1, <2>3 DEF InTree, DepRow
  <2>5. ASSUME NEW i \in DOMAIN imports
        PROVE  \/ \E x \in BuildRows(f, d) : x.file = f /\ IsRelative(imports[i].spec)
                                                /\ x.to = Target(f, imports[i].spec)
               \/ [file |-> f, raw |-> imports[i].spec] \in ExternalRows(f, d)
    <3>1. CASE i \in Internal(f, d)
      <4> DEFINE x == DepRow(f, imports[i].spec, imports[First(i)].kind)
      <4>1. x \in BuildRows(f, d)
        BY <2>1, <3>1
      <4>2. x.file = f /\ x.to = Target(f, imports[i].spec)
        BY DEF DepRow
      <4> QED BY <1>1, <3>1, <4>1, <4>2
    <3>2. CASE i \notin Internal(f, d)
      BY <2>2, <3>2
    <3> QED BY <3>1, <3>2
  <2> QED BY <2>4, <2>5 DEF Accounted, imports
<1> QED BY <1>2, <1>3

LEMMA AccountedMore ==
    ASSUME NEW rows, NEW ext, NEW d, NEW f, Accounted(rows, ext, d, f),
           NEW more, NEW moreExt,
           \A x \in rows : x.file = f => x \in more, \A x \in ext : x.file = f => x \in moreExt
    PROVE  Accounted(more, moreExt, d, f)
BY DEF Accounted

(* While a build writes the files, the graph only has to be looked at.     *)
LEMMA ParseStep ==
    ASSUME TypeInv, Building(graph, outline, deps, disk, build), ParseRepo
    PROVE  Building(graph', outline', deps', disk', build')
<1> USE DEF Building, TypeInv
<1> DEFINE r == Head(build.repos)
           todo == [f \in Visible(disk) \cap FilesOf(r) |-> disk[f]]
<1>1. /\ build.pc = "repo" /\ build.repos # <<>> /\ UNCHANGED <<disk, outline, deps>>
      /\ graph' = UpsertNodes(graph, EdgeRows({RepoNode(r)}, 0))
      /\ build' = [build EXCEPT !.pc = "write", !.todo = todo]
  BY DEF ParseRepo, BuildStep, repoFiles
<1>2. build'.pc = "write" /\ build'.repos = build.repos /\ build'.todo = todo
  BY <1>1 DEF BuildTyped
<1>3. Grows(graph, graph')
  BY <1>1, PlainNodesGrow DEF TypedGraph
<1>4. Range(build.repos) = {r} \cup Range(Tail(build.repos))
  BY <1>1, RangeSplit DEF BuildTyped
<1>5. DOMAIN todo = Visible(disk) \cap FilesOf(r) /\ \A f \in DOMAIN todo : todo[f] = disk[f]
  OBVIOUS
<1> HIDE DEF todo, r
<1>6. \A f \in Visible(disk) : f[1] = r => f \in DOMAIN todo
  BY <1>5 DEF FilesOf, Visible, Present
<1>7. \A f \in Visible(disk) : Written(graph, outline, disk, f) => Written(graph', outline', disk, f)
  BY <1>1, <1>3, WrittenGrows
<1>8. FilesDone(graph', outline', disk', build')
  BY <1>1, <1>2, <1>4, <1>5, <1>6, <1>7 DEF FilesDone
<1>9. IdlDone(graph', disk', build')
  <2>1. r \notin IdlRepos
    BY DEF ParseRepo, r
  <2>2. MethodsThere(graph, Range(build.repos))
    BY <1>1 DEF IdlDone
  <2>3. MethodsThere(graph, Range(Tail(build.repos)))
    BY <1>4, <2>1, <2>2, IdlAssumption DEF MethodsThere
  <2> QED BY <1>2, <1>3, <2>3, IdlStays DEF IdlDone
<1> QED BY <1>2, <1>8, <1>9 DEF RowsDone, CallsDone

LEMMA ParseIdlStep ==
    ASSUME TypeInv, Shaped(graph), Building(graph, outline, deps, disk, build), ParseIdlRepo
    PROVE  Building(graph', outline', deps', disk', build')
<1> USE DEF Building, TypeInv
<1>1. /\ build.pc = "repo" /\ build.repos # <<>> /\ Head(build.repos) \in IdlRepos
      /\ UNCHANGED <<disk, outline, deps>>
      /\ graph' = IndexIdl(graph, Head(build.repos))
      /\ build' = [build EXCEPT !.repos = Tail(@)]
  BY DEF ParseIdlRepo, BuildStep, repoFiles
<1>2. build'.pc = "repo" /\ build'.repos = Tail(build.repos)
  BY <1>1 DEF BuildTyped
<1>3. Grows(graph, graph')
  BY <1>1, LinkersGrow DEF TypedGraph
<1>4. Range(build.repos) = {Head(build.repos)} \cup Range(Tail(build.repos))
  BY <1>1, RangeSplit DEF BuildTyped
<1>5. \A f \in Visible(disk) : f[1] \in Range(build.repos) => f[1] \in Range(Tail(build.repos))
  BY <1>1, <1>4, WorkspaceAssumption DEF Visible, Present
<1>6. \A f \in Visible(disk) : Written(graph, outline, disk, f) => Written(graph', outline', disk, f)
  BY <1>1, <1>3, WrittenGrows
<1>7. FilesDone(graph', outline', disk', build')
  BY <1>1, <1>2, <1>5, <1>6 DEF FilesDone
<1>8. IdlDone(graph', disk', build')
  <2>1. MethodsThere(graph, Range(build.repos))
    BY <1>1 DEF IdlDone
  <2>2. MethodsThere(graph', Range(build.repos))
    BY <1>3, <2>1, IdlStays
  <2>3. \A m \in IdlMethods : m[1] = Head(build.repos) => MethodNode(m) \in DOMAIN graph'.nodes
    BY <1>1, IndexIdlFits
  <2>4. MethodsThere(graph', Range(Tail(build.repos)))
    BY <1>4, <2>2, <2>3 DEF MethodsThere
  <2> QED BY <1>2, <2>4 DEF IdlDone
<1> QED BY <1>2, <1>7, <1>8 DEF RowsDone, CallsDone

LEMMA WriteStep ==
    ASSUME TypeInv, Building(graph, outline, deps, disk, build), NEW f \in Files, WriteFile(f)
    PROVE  Building(graph', outline', deps', disk', build')
<1> USE DEF Building, TypeInv
<1> DEFINE todo == [g \in DOMAIN build.todo \ {f} |-> build.todo[g]]
<1>1. /\ build.pc = "write" /\ f \in DOMAIN build.todo /\ UNCHANGED <<disk, deps>>
      /\ outline' = Over([k \in {<<f[1], AbsPath[f]>>} |-> build.todo[f]], outline)
      /\ build' = [build EXCEPT !.todo = todo]
  BY DEF WriteFile, BuildStep, repoFiles
<1>2. build.todo[f] = disk[f] /\ f \in Visible(disk) /\ IsText(disk[f]) /\ Current(f) = disk[f]
  BY <1>1, TextsThere DEF FilesDone, Visible, Present
<1>3. IsGraph(graph)
  BY DEF TypedGraph
<1> DEFINE mid == EmitModule(graph, f, disk[f])
<1>4. PICK pick : graph' = EmitImports(mid, f, disk[f], disk, pick)
  BY <1>2 DEF WriteFile
<1>5. IsGraph(mid) /\ DOMAIN graph.edges \subseteq DOMAIN mid.edges /\ DOMAIN graph.nodes \subseteq DOMAIN mid.nodes
  BY <1>2, <1>3, EmitModuleFacts
<1>6. mid = EmitModule(graph, f, disk[f])
  OBVIOUS
<1>7. outline' = Over([k \in {<<f[1], AbsPath[f]>>} |-> disk[f]], outline)
  BY <1>1, <1>2
<1> HIDE DEF mid
<1>8. Holds(mid, outline', f, disk[f])
  BY <1>2, <1>3, <1>6, <1>7, EmitHolds
<1>9. Grows(mid, graph') /\ ImportsThere(graph', f, disk[f], disk)
  BY <1>4, <1>5, EmitImportsFacts
<1>10. Written(graph', outline', disk, f)
  BY <1>8, <1>9, HoldsGrows DEF Written
<1>11. ASSUME NEW c \in Visible(disk), c # f, Written(graph, outline, disk, c)
       PROVE  Written(graph', outline', disk, c)
  <2>1. c \in Files /\ Holds(graph, outline, c, disk[c]) /\ ImportsThere(graph, c, disk[c], disk)
    BY <1>11 DEF Written, Visible, Present
  <2>2. Holds(mid, outline', c, disk[c])
    BY <1>2, <1>3, <1>6, <1>7, <1>11, <2>1, EmitKeeps
  <2>3. Holds(graph', outline', c, disk[c])
    BY <1>9, <2>2, HoldsGrows
  <2>4. ImportsThere(graph', c, disk[c], disk)
    BY <1>5, <1>9, <2>1 DEF ImportsThere, Grows
  <2> QED BY <2>3, <2>4 DEF Written
<1>12. /\ build'.pc = "write" /\ build'.repos = build.repos /\ build'.todo = todo
  BY <1>1 DEF BuildTyped
<1>13. DOMAIN todo = DOMAIN build.todo \ {f} /\ \A g \in DOMAIN todo : todo[g] = build.todo[g]
  OBVIOUS
<1> HIDE DEF todo
<1>14. FilesDone(graph', outline', disk', build')
  BY <1>1, <1>10, <1>11, <1>12, <1>13 DEF FilesDone
<1>15. IdlDone(graph', disk', build')
  <2>1. Adds(graph, graph')
    BY <1>5, <1>9 DEF Adds, Grows
  <2>2. MethodsThere(graph, Range(Tail(build.repos)))
    BY <1>1 DEF IdlDone
  <2> QED BY <1>12, <2>1, <2>2, IdlStays DEF IdlDone
<1> QED BY <1>12, <1>14, <1>15 DEF RowsDone, CallsDone

LEMMA NextRepoStep ==
    ASSUME TypeInv, Building(graph, outline, deps, disk, build), RepoWritten \/ AllReposWritten
    PROVE  Building(graph', outline', deps', disk', build')
<1> USE DEF Building, TypeInv
<1>1. UNCHANGED <<disk, graph, outline, deps>>
  BY DEF RepoWritten, AllReposWritten, BuildStep, repoFiles, stores
<1>2. CASE RepoWritten
  <2>1. build.pc = "write" /\ DOMAIN build.todo = {} /\ build' = [build EXCEPT !.pc = "repo", !.repos = Tail(@)]
    BY <1>2 DEF RepoWritten, BuildStep
  <2>2. build'.pc = "repo" /\ build'.repos = Tail(build.repos)
    BY <2>1 DEF BuildTyped
  <2>3. FilesDone(graph', outline', disk', build')
    BY <1>1, <2>1, <2>2 DEF FilesDone
  <2>4. IdlDone(graph', disk', build')
    BY <1>1, <2>1, <2>2 DEF IdlDone
  <2> QED BY <2>2, <2>3, <2>4 DEF RowsDone, CallsDone
<1>3. CASE AllReposWritten
  <2>1. build.pc = "repo" /\ build.repos = <<>> /\ build' = [build EXCEPT !.pc = "deps", !.repos = CodeRepos]
    BY <1>3 DEF AllReposWritten, BuildStep
  <2>2. build'.pc = "deps" /\ build'.repos = CodeRepos
    BY <2>1 DEF BuildTyped
  <2>3. FilesDone(graph', outline', disk', build')
    BY <1>1, <2>1, <2>2, EmptyRange DEF FilesDone
  <2>4. InTree(deps.rows, disk, Range(CodeRepos))
    BY WorkspaceAssumption DEF InTree, DepsTyped, AboutFiles
  <2>5. \A f \in DepsFiles(disk) : f[1] \in Range(CodeRepos)
    BY WorkspaceAssumption DEF DepsFiles, Present
  <2>6. RowsDone(deps', disk', build')
    BY <1>1, <2>2, <2>4, <2>5 DEF RowsDone
  <2>7. IdlDone(graph', disk', build')
    BY <1>1, <2>1, <2>2, EmptyRange DEF IdlDone
  <2> QED BY <2>2, <2>3, <2>6, <2>7 DEF CallsDone
<1> QED BY <1>2, <1>3

(* The dependency rows of one repository are replaced.                     *)
LEMMA WipeRepoStep ==
    ASSUME TypeInv, Building(graph, outline, deps, disk, build), WipeDeps
    PROVE  Building(graph', outline', deps', disk', build')
<1> USE DEF Building, TypeInv
<1> DEFINE r == Head(build.repos)
           rest == Range(Tail(build.repos))
           rows == UNION {BuildRows(f, disk) : f \in FilesOf(r)}
           ext  == UNION {ExternalRows(f, disk) : f \in FilesOf(r)}
<1>1. /\ build.pc = "deps" /\ build.repos # <<>> /\ UNCHANGED <<disk, graph, outline>>
      /\ deps' = [rows |-> deps.rows \ InRepo(r), ext |-> deps.ext \ ExtIn(r)]
      /\ build' = [build EXCEPT !.pc = "insert", !.rows = rows, !.ext = ext]
  BY DEF WipeDeps, BuildStep, repoFiles
<1>2. InTree(rows, disk, {}) /\ \A f \in DepsFiles(disk) \cap FilesOf(r) : Accounted(rows, ext, disk, f)
  <2>1. \A f \in FilesOf(r) : InTree(BuildRows(f, disk), disk, {})
    BY BuildRowsFacts DEF FilesOf
  <2>2. ASSUME NEW f \in DepsFiles(disk) \cap FilesOf(r) PROVE Accounted(rows, ext, disk, f)
    <3>1. Accounted(BuildRows(f, disk), ExternalRows(f, disk), disk, f)
      BY BuildRowsFacts DEF FilesOf
    <3>2. BuildRows(f, disk) \subseteq rows /\ ExternalRows(f, disk) \subseteq ext
      OBVIOUS
    <3> HIDE DEF rows, ext
    <3> QED BY <3>1, <3>2, AccountedMore
  <2> QED BY <2>1, <2>2 DEF InTree
<1>3. Range(build.repos) = {r} \cup rest
  BY <1>1, RangeSplit DEF BuildTyped
<1> HIDE DEF rows, ext, r
<1>4. /\ build'.pc = "insert" /\ build'.repos = build.repos /\ build'.rows = rows /\ build'.ext = ext
  BY <1>1 DEF BuildTyped
<1>5. InTree(deps'.rows, disk, rest)
  BY <1>1, <1>3 DEF RowsDone, InTree, InRepo
<1>6. ASSUME NEW f \in DepsFiles(disk), f[1] \notin rest
      PROVE  Accounted(deps'.rows, deps'.ext, disk, f) \/ Accounted(rows, ext, disk, f)
  <2>1. CASE f[1] = r
    BY <1>2, <2>1 DEF FilesOf, DepsFiles, Present
  <2>2. CASE f[1] # r
    <3>1. Accounted(deps.rows, deps.ext, disk, f)
      BY <1>1, <1>3, <1>6, <2>2 DEF RowsDone
    <3>2. /\ \A x \in deps.rows : x.file = f => x \in deps'.rows
          /\ \A x \in deps.ext : x.file = f => x \in deps'.ext
      BY <1>1, <2>2 DEF InRepo, ExtIn
    <3> QED BY <3>1, <3>2, AccountedMore
  <2> QED BY <2>1, <2>2
<1>7. RowsDone(deps', disk', build')
  BY <1>1, <1>2, <1>4, <1>5, <1>6 DEF RowsDone
<1>8. FilesDone(graph', outline', disk', build')
  BY <1>1, <1>4 DEF FilesDone
<1>9. IdlDone(graph', disk', build')
  BY <1>1, <1>4 DEF IdlDone
<1> QED BY <1>4, <1>7, <1>8, <1>9 DEF CallsDone

LEMMA InsertRepoStep ==
    ASSUME TypeInv, Building(graph, outline, deps, disk, build), InsertDeps
    PROVE  Building(graph', outline', deps', disk', build')
<1> USE DEF Building, TypeInv
<1>1. /\ build.pc = "insert" /\ UNCHANGED <<disk, graph, outline>>
      /\ deps' = [rows |-> deps.rows \cup build.rows, ext |-> deps.ext \cup build.ext]
      /\ build' = [build EXCEPT !.pc = "deps", !.repos = Tail(@), !.rows = {}, !.ext = {}]
  BY DEF InsertDeps, BuildStep, repoFiles
<1>2. build'.pc = "deps" /\ build'.repos = Tail(build.repos)
  BY <1>1 DEF BuildTyped
<1>3. InTree(deps'.rows, disk, Range(Tail(build.repos)))
  BY <1>1 DEF RowsDone, InTree
<1>4. ASSUME NEW f \in DepsFiles(disk), f[1] \notin Range(Tail(build.repos))
      PROVE  Accounted(deps'.rows, deps'.ext, disk, f)
  <2>1. Accounted(deps.rows, deps.ext, disk, f) \/ Accounted(build.rows, build.ext, disk, f)
    BY <1>1, <1>4 DEF RowsDone
  <2>2. /\ deps.rows \subseteq deps'.rows /\ deps.ext \subseteq deps'.ext
        /\ build.rows \subseteq deps'.rows /\ build.ext \subseteq deps'.ext
    BY <1>1
  <2> QED BY <2>1, <2>2, AccountedMore
<1>5. RowsDone(deps', disk', build')
  BY <1>1, <1>2, <1>3, <1>4 DEF RowsDone
<1>6. FilesDone(graph', outline', disk', build')
  BY <1>1, <1>2 DEF FilesDone
<1>7. IdlDone(graph', disk', build')
  BY <1>1, <1>2 DEF IdlDone
<1> QED BY <1>2, <1>5, <1>6, <1>7 DEF CallsDone

(* The linkers only add to the graph.                                      *)
LEMMA LinkersStep ==
    ASSUME TypeInv, Shaped(graph), Building(graph, outline, deps, disk, build), AllDepsWritten \/ RunCalls \/ RunImports
    PROVE  Building(graph', outline', deps', disk', build')
<1> USE DEF Building, TypeInv
<1>1. /\ UNCHANGED <<disk, outline, deps>> /\ IsGraph(graph)
      /\ build.pc \in {"deps", "calls", "imports"} /\ (build.pc = "deps" => build.repos = <<>>)
      /\ build' = [build EXCEPT !.pc = IF build.pc = "deps" THEN "calls"
                                       ELSE IF build.pc = "calls" THEN "imports" ELSE "links"]
      /\ graph' = IF build.pc = "deps" THEN LinkIdl(graph, disk)
                  ELSE IF build.pc = "calls" THEN LinkCalls(graph, disk) ELSE LinkImports(graph, deps.ext)
  BY DEF AllDepsWritten, RunCalls, RunImports, LinkStep, BuildStep, repoFiles, TypedGraph
<1>2. build'.pc = IF build.pc = "deps" THEN "calls" ELSE IF build.pc = "calls" THEN "imports" ELSE "links"
  BY <1>1 DEF BuildTyped
<1>3. Grows(graph, graph')
  BY <1>1, LinkersGrow
<1>4. FilesDone(graph', outline', disk', build')
  BY <1>1, <1>2, <1>3, WrittenGrows DEF FilesDone
<1>5. RowsDone(deps', disk', build')
  <2>1. InTree(deps.rows, disk, {}) /\ \A f \in DepsFiles(disk) : Accounted(deps.rows, deps.ext, disk, f)
    <3>1. CASE build.pc = "deps"
      <4>1. Range(build.repos) = {}
        BY <1>1, <3>1, EmptyRange
      <4> QED BY <3>1, <4>1 DEF RowsDone
    <3>2. CASE build.pc # "deps"
      BY <1>1, <3>2 DEF RowsDone
    <3> QED BY <3>1, <3>2
  <2>2. build'.pc \in {"calls", "imports", "links"}
    BY <1>1, <1>2
  <2> QED BY <1>1, <2>1, <2>2 DEF RowsDone
<1>6. CallsDone(graph', disk', build')
  <2>1. CASE build.pc = "deps"
    BY <1>2, <2>1 DEF CallsDone
  <2>2. CASE build.pc = "calls"
    <3>1. \A f \in Visible(disk) : IsText(disk[f])
      BY TextsThere DEF Visible, Present
    <3> QED BY <1>1, <2>2, <3>1, LinkCallsFinds DEF CallsDone
  <2>3. CASE build.pc = "imports"
    <3>1. graph'.nodes = graph.nodes
      BY <1>1, <2>3, UpsertEdgesFacts DEF LinkImports
    <3>2. CallsThere(graph, disk)
      BY <2>3 DEF CallsDone
    <3> QED BY <1>1, <1>3, <3>1, <3>2, CallsStay DEF CallsDone
  <2> QED BY <1>1, <2>1, <2>2, <2>3
<1>7. IdlDone(graph', disk', build')
  <2>1. MethodsThere(graph, {})
    BY <1>1 DEF IdlDone
  <2>2. IdlLinked(graph', disk)
    <3>1. CASE build.pc = "deps"
      <4>1. \A f \in Visible(disk) : IsText(disk[f])
        BY TextsThere DEF Visible, Present
      <4> QED BY <1>1, <2>1, <3>1, <4>1, LinkIdlFinds
    <3>2. CASE build.pc # "deps"
      BY <1>1, <1>3, <3>2, IdlStays DEF IdlDone
    <3> QED BY <3>1, <3>2
  <2>3. MethodsThere(graph', {})
    BY <1>3, <2>1, IdlStays
  <2> QED BY <1>1, <1>2, <2>2, <2>3 DEF IdlDone
<1> QED BY <1>4, <1>5, <1>6, <1>7

LEMMA BuildEnds ==
    ASSUME TypeInv, Building(graph, outline, deps, disk, build), BuildDone
    PROVE  Built(graph', outline', deps', disk')
<1> USE DEF Building, TypeInv
<1>1. /\ build.pc = "links" /\ graph' = LinkManually(graph) /\ UNCHANGED <<disk, outline, deps>>
      /\ IsGraph(graph)
  BY DEF BuildDone, repoFiles, TypedGraph
<1>2. Grows(graph, graph')
  BY <1>1, LinkersGrow
<1>3. \A n \in DOMAIN graph'.nodes \ DOMAIN graph.nodes : KindOf(n) = "repo"
  <2> DEFINE ns == UNION {{RepoNode(l[1]), RepoNode(l[2])} : l \in Links}
             es == {<<RepoNode(l[1]), RepoNode(l[2]),
                      IF l[3] \in {"calls", "invokes"} THEN l[3] ELSE "imports">> : l \in Links}
             k == UpsertNodes(graph, EdgeRows(ns, 0))
  <2>1. graph' = UpsertEdges(k, EdgeRows(es, 100))
    BY <1>1 DEF LinkManually
  <2>2. \A n \in ns : KindOf(n) = "repo"
    BY DEF RepoNode, Node, KindOf
  <2> HIDE DEF ns, es
  <2>3. IsGraph(k) /\ DOMAIN k.nodes = DOMAIN graph.nodes \cup ns
    BY <1>1, UpsertNodesFacts, EdgeRowsFacts
  <2> HIDE DEF k
  <2>4. graph'.nodes = k.nodes
    BY <2>1, <2>3, UpsertEdgesFacts
  <2> QED BY <2>2, <2>3, <2>4
<1>4. CallsThere(graph', disk)
  BY <1>1, <1>2, <1>3, CallsStay DEF CallsDone
<1>5. \A f \in Visible(disk) : Written(graph', outline', disk, f)
  BY <1>1, <1>2, WrittenGrows DEF FilesDone
<1>6. MethodsThere(graph', {}) /\ IdlLinked(graph', disk)
  BY <1>1, <1>2, IdlStays DEF IdlDone
<1> QED BY <1>1, <1>4, <1>5, <1>6 DEF Built, RowsDone

LEMMA BuildInvInit == Init => BuildInv
<1>1. Init => Shaped(graph)
  BY ShapedInit
<1> QED BY <1>1, TypeInit DEF Init, BuildInv, Idle

LEMMA BuildingNext ==
    ASSUME BuildInv, [Next]_vars, calm', build'.pc # "idle"
    PROVE  Building(graph', outline', deps', disk', build')
<1> USE DEF BuildInv
<1> DEFINE Goal == Building(graph', outline', deps', disk', build')
<1>1. CASE BuildStart
  <2>1. build'.pc = "repo" /\ build'.repos = Repos
    BY <1>1 DEF BuildStart, Idle
  <2>2. \A f \in Visible(disk') : f[1] \in Range(Repos)
    BY WorkspaceAssumption DEF Visible, Present
  <2>3. FilesDone(graph', outline', disk', build')
    BY <2>1, <2>2 DEF FilesDone
  <2>4. MethodsThere(graph', Range(Repos))
    BY IdlAssumption DEF MethodsThere
  <2> QED BY <2>1, <2>3, <2>4 DEF Building, RowsDone, CallsDone, IdlDone
<1>2. ASSUME calm, build.pc # "idle" PROVE Goal
  <2>1. Building(graph, outline, deps, disk, build)
    BY <1>2
  <2>2. update.pc = "idle"
    BY <1>2 DEF TypeInv, AloneWhenCalm
  <2>3. ASSUME UNCHANGED <<graph, outline, deps, disk, build>> PROVE Goal
    BY <2>1, <2>3
  <2>4. CASE User
    BY <2>3, <2>4 DEF User, Edit, Stage, Commit, stores, history
  <2>5. CASE Update
    BY <1>2, <2>2, <2>5 DEF Update, UpdateStart, Begins, UpdateStep, DeleteFile, RewriteFile, ReindexFails,
         ResolveDeps, WipeFileRows, InsertFileRows, DropGoneRows, UpdateKilled
  <2>6. CASE InsertFails
    BY <2>6 DEF InsertFails
  <2>7. CASE BuildDone \/ BuildKilled
    <3>1. build' = Idle
      BY <2>7 DEF BuildDone, BuildKilled
    <3>2. Idle.pc = "idle"
      BY DEF Idle
    <3> QED BY <3>1, <3>2
  <2>8. CASE Build
    BY <1>1, <2>1, <2>6, <2>7, <2>8, ParseStep, ParseIdlStep, WriteStep, NextRepoStep, WipeRepoStep,
       InsertRepoStep, LinkersStep DEF Build
  <2> QED BY <2>3, <2>4, <2>5, <2>8 DEF Next, vars, repoFiles, stores, history
<1>3. CASE ~calm \/ build.pc = "idle"
  <2>1. CASE UNCHANGED <<calm, build>>
    BY <1>3, <2>1
  <2>2. CASE User
    BY <2>1, <2>2 DEF User, Edit, Stage, Commit, history
  <2>3. CASE UpdateStart
    BY <2>3 DEF UpdateStart, Begins
  <2>4. CASE ReindexFails
    BY <2>4 DEF ReindexFails
  <2>5. CASE Update
    BY <2>1, <2>3, <2>4, <2>5 DEF Update, UpdateStep, DeleteFile, RewriteFile, ResolveDeps,
         WipeFileRows, InsertFileRows, DropGoneRows, UpdateKilled, history
  <2>6. CASE InsertFails
    BY <2>6 DEF InsertFails
  <2>7. CASE BuildDone \/ BuildKilled
    <3>1. build' = Idle
      BY <2>7 DEF BuildDone, BuildKilled
    <3>2. Idle.pc = "idle"
      BY DEF Idle
    <3> QED BY <3>1, <3>2
  <2>8. ASSUME build.pc # "idle", UNCHANGED calm PROVE Goal
    BY <1>3, <2>8
  <2>9. CASE Build
    BY <1>1, <2>6, <2>7, <2>8, <2>9 DEF Build, BuildStep, ParseRepo, ParseIdlRepo, WriteFile, RepoWritten,
         AllReposWritten, WipeDeps, InsertDeps, AllDepsWritten, RunCalls, RunImports, LinkStep, history
  <2> QED BY <2>1, <2>2, <2>5, <2>9 DEF Next, vars, history
<1> QED BY <1>2, <1>3

LEMMA BuiltNext ==
    ASSUME BuildInv, [Next]_vars, last' = "build"
    PROVE  Built(graph', outline', deps', disk')
<1> USE DEF BuildInv
<1> DEFINE Goal == Built(graph', outline', deps', disk')
<1>1. ASSUME UNCHANGED <<graph, outline, deps, disk, last>> PROVE Goal
  BY <1>1
<1>2. last # "none" => build.pc = "idle" /\ update.pc = "idle"
  BY DEF TypeInv, AloneWhenCalm
<1>3. CASE User
  BY <1>1, <1>3 DEF User, Edit, Stage, Commit, stores, history
<1>4. ASSUME build.pc # "idle" \/ update.pc # "idle", UNCHANGED last PROVE Goal
  BY <1>2, <1>4
<1>5. CASE BuildDone
  <2>1. calm /\ build.pc # "idle"
    BY <1>5 DEF BuildDone
  <2> QED BY <1>5, <2>1, BuildEnds
<1>6. CASE Build
  BY <1>4, <1>5, <1>6 DEF Build, BuildStart, Begins, BuildStep, ParseRepo, ParseIdlRepo, WriteFile, RepoWritten,
       AllReposWritten, WipeDeps, InsertDeps, InsertFails, AllDepsWritten, RunCalls, RunImports,
       LinkStep, BuildKilled, history
<1>7. CASE DropGoneRows
  BY <1>4, <1>7 DEF DropGoneRows
<1>8. CASE Update
  BY <1>4, <1>7, <1>8 DEF Update, UpdateStart, Begins, UpdateStep, DeleteFile, RewriteFile, ReindexFails,
       ResolveDeps, WipeFileRows, InsertFileRows, UpdateKilled, history
<1> QED BY <1>1, <1>3, <1>6, <1>8 DEF Next, vars, repoFiles, stores, history

LEMMA BuildInvNext == BuildInv /\ [Next]_vars => BuildInv'
BY TypeNext, GraphStaysShaped, BuildingNext, BuiltNext DEF BuildInv

LEMMA BuildInvMeans == BuildInv => BuildMirrorsDisk
<1> SUFFICES ASSUME BuildInv, last = "build" PROVE BuildMirrorsDisk
  BY DEF BuildMirrorsDisk
<1>1. Built(graph, outline, deps, disk)
  BY DEF BuildInv
<1>2. ASSUME NEW f \in Visible(disk) PROVE HoldsFile(f, disk[f])
  BY <1>1 DEF Built, Written, Holds, HoldsFile
<1>3. ASSUME NEW f \in Visible(disk), NEW s \in Specs(disk[f]), IsRelative(s), Target(f, s) \in Present(disk)
      PROVE  <<Module(f), Module(Target(f, s)), "imports">> \in DOMAIN graph.edges
  BY <1>1, <1>3 DEF Built, Written, ImportsThere
<1>4. ASSUME NEW f \in Visible(disk), NEW n \in disk[f].calls \ Noise, NEW c \in DefinitionsOf(n),
             DefinitionsOf(n) = {c}, \A m \in DeclaredNames : <<m, n>> \notin Shadows
      PROVE  <<Module(f), c, "calls">> \in DOMAIN graph.edges
  BY <1>1, <1>4 DEF Built, CallsThere, Definitions, Names, DefinitionsOf, DeclaredNames
<1>5. \A x \in deps.rows : {x.file, x.to} \subseteq Present(disk)
  BY <1>1 DEF Built, InTree
<1>6. \A f \in DepsFiles(disk) : Accounted(deps.rows, deps.ext, disk, f)
  BY <1>1 DEF Built
<1> QED BY <1>2, <1>3, <1>4, <1>5, <1>6 DEF BuildMirrorsDisk, Accounted

(***************************************************************************)
(* In any workspace, after a build that nothing disturbed, whatever the    *)
(* stores held before it: every file is in the graph and the outline with  *)
(* its declarations and its imports, every call of a name that is defined  *)
(* once has its edge, and the dependency rows are those of the files there *)
(* are (build_all).                                                        *)
(***************************************************************************)
THEOREM BuildsMirrorTheDisk == Spec => []BuildMirrorsDisk
BY BuildInvInit, BuildInvNext, BuildInvMeans, PTL DEF Spec

-----------------------------------------------------------------------------
(* What a build links is found.                                            *)

ImportedBy(g, ns) == {e[2] : e \in UNION {OutgoingEdges(g, n, "imports") : n \in ns}}

(* The walk of dependencies, unfolded to its two rounds.                   *)
LEMMA DependencyRounds ==
    ASSUME NEW g, NEW start,
           NEW to1, to1 = ImportedBy(g, {start}), NEW next1, next1 = NodesByIds(g, to1),
           NEW to2, to2 = ImportedBy(g, next1), NEW next2, next2 = NodesByIds(g, to2 \ to1)
    PROVE  Dependencies(g, start, 2) = next1 \cup next2
<1> DEFINE Round(w) ==
               LET tos  == ImportedBy(g, w.frontier)
                   next == NodesByIds(g, tos \ w.visited)
               IN  [visited |-> w.visited \cup tos, frontier |-> next, found |-> w.found \cup next]
           w0 == [visited |-> {}, frontier |-> {start}, found |-> {}]
           w1 == [visited |-> to1, frontier |-> next1, found |-> next1]
           w2 == [visited |-> to1 \cup to2, frontier |-> next2, found |-> next1 \cup next2]
           Walk(w) == w = [d \in 0..2 |-> IF d = 0 THEN w0 ELSE Round(w[d - 1])]
           walk == CHOOSE w : Walk(w)
           known == [d \in 0..2 |-> IF d = 0 THEN w0 ELSE IF d = 1 THEN w1 ELSE w2]
<1>1. Dependencies(g, start, 2) = walk[2].found
  BY DEF Dependencies, ImportedBy
<1>2. Round(w0) = w1
  <2>1. to1 \ {} = to1 /\ {} \cup to1 = to1 /\ {} \cup next1 = next1
    OBVIOUS
  <2> QED BY <2>1
<1>3. Round(w1) = w2
  OBVIOUS
<1>4. w2.found = next1 \cup next2
  OBVIOUS
<1> HIDE DEF Round, w0, w1, w2
<1>5. Walk(known)
  <2>1. ASSUME NEW d \in 0..2 PROVE known[d] = IF d = 0 THEN w0 ELSE Round(known[d - 1])
    BY <1>2, <1>3
  <2> QED BY <2>1
<1>6. Walk(walk)
  BY <1>5
<1> HIDE DEF walk
<1>7. walk[0] = w0 /\ walk[1] = Round(walk[0]) /\ walk[2] = Round(walk[1])
  BY <1>6
<1> QED BY <1>1, <1>2, <1>3, <1>4, <1>7

(* A local import is an edge between two modules that are there.           *)
LEMMA LocalImports ==
    ASSUME NEW g, NEW f, NEW d, ImportsThere(g, f, d[f], d), NEW t \in LocalTargets(f, d[f], d)
    PROVE  <<Module(f), Module(t), "imports">> \in DOMAIN g.edges /\ Module(t) \in DOMAIN g.nodes
BY DEF LocalTargets, ImportsThere

(* The near targets are found in the first round; the far ones in the      *)
(* second, or in the first already.                                        *)
LEMMA DependenciesReach ==
    ASSUME NEW g, NEW d, \A f \in Visible(d) : ImportsThere(g, f, d[f], d), NEW f \in Visible(d)
    PROVE  LET near == LocalTargets(f, d[f], d)
               far  == UNION {LocalTargets(t, d[t], d) : t \in near \cap Visible(d)}
           IN  {Module(t) : t \in near \cup far} \subseteq Dependencies(g, Module(f), 2)
<1> DEFINE near == LocalTargets(f, d[f], d)
           to1 == ImportedBy(g, {Module(f)})
           next1 == NodesByIds(g, to1)
           to2 == ImportedBy(g, next1)
           next2 == NodesByIds(g, to2 \ to1)
           found == Dependencies(g, Module(f), 2)
<1>1. found = next1 \cup next2
  BY DependencyRounds
<1> HIDE DEF found
<1>2. ASSUME NEW e \in DOMAIN g.edges, NEW a, NEW b, e = <<a, b, "imports">>, NEW S, a \in S
      PROVE  b \in ImportedBy(g, S)
  <2>1. e[1] = a /\ e[2] = b /\ e[3] = "imports"
    BY <1>2
  <2>2. e \in OutgoingEdges(g, a, "imports")
    BY <2>1 DEF OutgoingEdges, EdgesFrom
  <2> QED BY <1>2, <2>1, <2>2 DEF ImportedBy
<1>3. ASSUME NEW t \in near PROVE Module(t) \in next1
  <2>1. <<Module(f), Module(t), "imports">> \in DOMAIN g.edges /\ Module(t) \in DOMAIN g.nodes
    BY LocalImports
  <2>2. Module(t) \in to1
    BY <1>2, <2>1
  <2> QED BY <2>1, <2>2 DEF NodesByIds
<1>4. ASSUME NEW t \in near \cap Visible(d), NEW u \in LocalTargets(t, d[t], d)
      PROVE  Module(u) \in next1 \cup next2
  <2>1. Module(t) \in next1
    BY <1>3
  <2>2. <<Module(t), Module(u), "imports">> \in DOMAIN g.edges /\ Module(u) \in DOMAIN g.nodes
    BY LocalImports
  <2> HIDE DEF next1, to1
  <2>3. Module(u) \in to2
    BY <1>2, <2>1, <2>2
  <2>4. CASE Module(u) \in to1
    BY <2>2, <2>4 DEF NodesByIds, next1
  <2>5. CASE Module(u) \notin to1
    BY <2>2, <2>3, <2>5 DEF NodesByIds
  <2> QED BY <2>4, <2>5
<1> HIDE DEF near, next1, next2
<1>5. \A t \in near \cup UNION {LocalTargets(s, d[s], d) : s \in near \cap Visible(d)} : Module(t) \in found
  BY <1>1, <1>3, <1>4
<1> QED BY <1>5 DEF near, found

(* A file that calls an IDL method is found from the method, and the       *)
(* method from the file.                                                   *)
LEMMA IdlLinksFound ==
    ASSUME NEW g, NEW d, MethodsThere(g, {}), IdlLinked(g, d),
           NEW f \in Visible(d), Module(f) \in DOMAIN g.nodes, NEW m \in IdlMethods, IdlCall(d[f], m)
    PROVE  /\ \E r \in IdlImpls(g, m[4], m[3]) :
                Module(f) \in (IF f \in ServerSide THEN r.implements ELSE r.invokes)
           /\ m[1] # f[1] => \E e \in CrossRepoEdges(g, Module(f)) : SymbolOf(e[2]) = m[4]
<1> DEFINE n == MethodNode(m)
           e == <<Module(f), n, IdlKind(f)>>
           From(kind) == NodesByIds(g, {x[1] : x \in IncomingEdges(g, n, kind)})
           r == [method |-> n, implements |-> From("implements"), invokes |-> From("invokes")]
<1>1. n \in DOMAIN g.nodes /\ KindOf(n) = "idlmethod" /\ SymbolOf(n) = m[4] /\ RepoOf(n) = m[1]
  BY MethodNodeFacts DEF MethodsThere
<1> HIDE DEF n
<1>2. e \in DOMAIN g.edges
  BY DEF IdlLinked, n
<1>3. e[1] = Module(f) /\ e[2] = n /\ e[3] = IdlKind(f)
  OBVIOUS
<1>4. RepoOf(Module(f)) = f[1]
  BY DEF Module, ModuleNode, Node, RepoOf
<1> HIDE DEF e
<1>5. n \in IdlMethodsByName(g, m[4], m[3])
  BY <1>1, IdlAssumption DEF IdlMethodsByName, NodesByKind, Like
<1>6. r \in IdlImpls(g, m[4], m[3])
  BY <1>5 DEF IdlImpls
<1>7. Module(f) \in From(IdlKind(f))
  BY <1>2, <1>3 DEF NodesByIds, IncomingEdges
<1>8. r.implements = From("implements") /\ r.invokes = From("invokes")
  OBVIOUS
<1> HIDE DEF r, From
<1>9. Module(f) \in (IF f \in ServerSide THEN r.implements ELSE r.invokes)
  BY <1>7, <1>8 DEF IdlKind
<1>10. IdlKind(f) \in {"invokes", "implements"}
  BY DEF IdlKind
<1>11. m[1] # f[1] => e \in CrossRepoEdges(g, Module(f))
  BY <1>1, <1>2, <1>3, <1>4, <1>10 DEF CrossRepoEdges, EdgesFrom
<1> QED BY <1>1, <1>3, <1>6, <1>9, <1>11

LEMMA BuildInvLinks == BuildInv => LinksAreFound
<1> SUFFICES ASSUME BuildInv, last = "build", NEW f \in Visible(disk)
             PROVE  /\ \A m \in IdlMethods :
                        Short[m[4]] \in disk[f].calls \ Noise
                            /\ (\A o \in IdlMethods : <<Short[o[4]], Short[m[4]]>> \notin Shadows) =>
                            /\ \E r \in IdlImpls(graph, m[4], m[3]) :
                                Module(f) \in (IF f \in ServerSide THEN r.implements ELSE r.invokes)
                            /\ m[1] # f[1] =>
                                \E e \in CrossRepoEdges(graph, Module(f)) : SymbolOf(e[2]) = m[4]
                    /\ LET near == LocalTargets(f, disk[f], disk)
                           far  == UNION {LocalTargets(t, disk[t], disk) : t \in near \cap Visible(disk)}
                       IN  {Module(t) : t \in near \cup far} \subseteq Dependencies(graph, Module(f), 2)
  BY DEF LinksAreFound
<1>1. Built(graph, outline, deps, disk)
  BY DEF BuildInv
<1>2. \A t \in Visible(disk) : ImportsThere(graph, t, disk[t], disk)
  BY <1>1 DEF Built, Written
<1>3. Module(f) \in DOMAIN graph.nodes
  BY <1>1 DEF Built, Written, Holds, DeclaredAt, NodesAtPath
<1>4. MethodsThere(graph, {}) /\ IdlLinked(graph, disk)
  BY <1>1 DEF Built
<1>5. ASSUME NEW m \in IdlMethods, Short[m[4]] \in disk[f].calls \ Noise,
             \A o \in IdlMethods : <<Short[o[4]], Short[m[4]]>> \notin Shadows
      PROVE  /\ \E r \in IdlImpls(graph, m[4], m[3]) :
                    Module(f) \in (IF f \in ServerSide THEN r.implements ELSE r.invokes)
             /\ m[1] # f[1] => \E e \in CrossRepoEdges(graph, Module(f)) : SymbolOf(e[2]) = m[4]
  <2>1. IdlCall(disk[f], m)
    BY <1>5 DEF IdlCall
  <2> QED BY <1>3, <1>4, <2>1, IdlLinksFound
<1>6. LET near == LocalTargets(f, disk[f], disk)
          far  == UNION {LocalTargets(t, disk[t], disk) : t \in near \cap Visible(disk)}
      IN  {Module(t) : t \in near \cup far} \subseteq Dependencies(graph, Module(f), 2)
  BY <1>2, DependenciesReach
<1> QED BY <1>5, <1>6

(***************************************************************************)
(* In any workspace, after a build that nothing disturbed, whatever the    *)
(* stores held before it: a file that calls an IDL method is found from    *)
(* the method as a server or a client, the method is found from the file   *)
(* in another repository, and the dependencies of a module two levels deep *)
(* reach the files its local imports reach (IdlLinker, find_idl_impl,      *)
(* collect_cross_repo_edges, get_dependencies).                            *)
(***************************************************************************)
THEOREM LinksOfBuildsAreFound == Spec => []LinksAreFound
BY BuildInvInit, BuildInvNext, BuildInvLinks, PTL DEF Spec
=============================================================================
