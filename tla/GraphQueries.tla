----------------------------- MODULE GraphQueries -----------------------------
(***************************************************************************)
(* The queries over the code graph (src/query/).  A query that depends on  *)
(* the order in which SQLite returns rows is the set of its possible       *)
(* answers.                                                                *)
(***************************************************************************)
EXTENDS CodeGraph, FiniteSetsExt

-----------------------------------------------------------------------------
(* Who calls a symbol, and what a module imports: two breadth-first walks. *)

(***************************************************************************)
(* One round of walk_callers.  An edge whose caller has no row marks it as *)
(* visited and reports nothing; the target of a chain is one of the nodes  *)
(* of the round before that the caller calls.                              *)
(***************************************************************************)
CallersRound(g, w) ==
    LET froms == {e[1] : e \in UNION {IncomingEdges(g, t, "calls") : t \in w.frontier}} \ w.visited
        next  == NodesByIds(g, froms)
    IN  [visited  |-> w.visited \cup froms,
         frontier |-> next,
         chains   |-> w.chains \cup
            {[caller |-> c, targets |-> {t \in w.frontier : <<c, t, "calls">> \in DOMAIN g.edges}]
                : c \in next}]

WalkCallers(g, starts, depth) ==
    LET walk[d \in 0..depth] ==
            IF d = 0 THEN [visited |-> starts, frontier |-> starts, chains |-> {}]
            ELSE CallersRound(g, walk[d - 1])
    IN  walk[depth].chains

(* get_callers_all: every definition of the name is a start of the walk.   *)
CallersOf(g, name, repo, depth) ==
    {WalkCallers(g, {n \in rows : SymbolOf(n) = name}, depth) :
        rows \in SearchSymbols(g, name, repo, 200)}

(* get_callers starts from one definition of the name, whichever is first. *)
CallersOfOne(g, name, depth) ==
    UNION {LET exact == {n \in rows : SymbolOf(n) = name}
           IN  IF exact = {} THEN {{}}
               ELSE {{c.caller : c \in WalkCallers(g, {s}, depth)} : s \in exact}
             : rows \in SearchSymbols(g, name, None, 50)}

(* get_symbol: the node, who calls it and what it calls.                   *)
SymbolResults(g, name, repo) ==
    {[symbol  |-> n,
      callers |-> NodesByIds(g, {e[1] : e \in IncomingEdges(g, n, "calls")}),
      callees |-> NodesByIds(g, {e[2] : e \in OutgoingEdges(g, n, "calls")})] :
        n \in UNION {{m \in rows : SymbolOf(m) = name /\ (repo = None \/ RepoOf(m) = repo)}
                        : rows \in SearchSymbols(g, name, None, 50)}}

(* get_dependencies: the walk does not mark its start, so that a module on *)
(* an import cycle is reported among its own dependencies.                 *)
Dependencies(g, start, depth) ==
    LET walk[d \in 0..depth] ==
            IF d = 0 THEN [visited |-> {}, frontier |-> {start}, found |-> {}]
            ELSE LET w    == walk[d - 1]
                     tos  == {e[2] : e \in UNION {OutgoingEdges(g, n, "imports") : n \in w.frontier}}
                     next == NodesByIds(g, tos \ w.visited)
                 IN  [visited |-> w.visited \cup tos, frontier |-> next, found |-> w.found \cup next]
    IN  walk[depth].found

-----------------------------------------------------------------------------
(* Implementations of an IDL method.                                       *)

(* Only the first of the methods that match is looked at.                  *)
IdlImpls(g, name, service) ==
    {[method     |-> m,
      implements |-> NodesByIds(g, {e[1] : e \in IncomingEdges(g, m, "implements")}),
      invokes    |-> NodesByIds(g, {e[1] : e \in IncomingEdges(g, m, "invokes")})] :
        m \in IdlMethodsByName(g, name, service)}

-----------------------------------------------------------------------------
(* From a search hit to a node of the graph (find_context).                *)

(***************************************************************************)
(* pick_node_for_hit: among the nodes recorded under the repository and    *)
(* the path of the hit, a declaration that starts inside its lines, the    *)
(* last such, else the module, else nothing.                               *)
(***************************************************************************)
PickNode(g, hit) ==
    LET nodes  == NodesAtPath(g, hit.repo, hit.path)
        inside == {n \in nodes : /\ KindOf(n) \in {"function", "method", "type"}
                                 /\ g.nodes[n] # 0
                                 /\ g.nodes[n] \in hit.from..hit.to}
    IN  IF inside # {} THEN {n \in inside : \A m \in inside : g.nodes[m] <= g.nodes[n]}
        ELSE {n \in nodes : KindOf(n) = "module"}

(* collect_cross_repo_edges: the links of a node that leave its repository *)
(* and whose target has a row.                                             *)
CrossRepoEdges(g, n) ==
    {e \in EdgesFrom(g, n) : /\ e[3] \in {"imports", "invokes", "implements"}
                             /\ e[2] \in DOMAIN g.nodes
                             /\ RepoOf(e[2]) # RepoOf(n)}
=============================================================================
