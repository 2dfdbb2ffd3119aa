------------------------------ MODULE CodeGraph ------------------------------
(***************************************************************************)
(* The code graph of index.db (src/graph/model.rs, src/graph/store.rs).    *)
(*                                                                         *)
(* A graph is a record of two tables.  "nodes" maps a node id to the line  *)
(* the node starts at (0 when the row has none); "edges" maps a triple     *)
(* <<from, to, kind>>, the primary key of the table, to a confidence in    *)
(* percent.  Nothing but the code keeps the ends of an edge in the table   *)
(* of nodes.                                                               *)
(***************************************************************************)
EXTENDS Integers, FiniteSets, Sequences

CONSTANTS Within,     \* the pairs <<q, s>> where LIKE '%q%' matches the text s
          StartsWith  \* the pairs <<q, s>> where the text s starts with q

None == "none"    \* an absent symbol, path or parent

(***************************************************************************)
(* A node id hashes the kind, repo, path and symbol: two declarations with *)
(* the same four are one node.                                             *)
(***************************************************************************)
Node(kind, repo, path, symbol) == <<kind, repo, path, symbol>>
KindOf(n)   == n[1]
RepoOf(n)   == n[2]
PathOf(n)   == n[3]
SymbolOf(n) == n[4]

RepoNode(r)      == Node("repo", r, None, None)
ModuleNode(r, p) == Node("module", r, p, None)

EmptyGraph == [nodes |-> <<>>, edges |-> <<>>]

-----------------------------------------------------------------------------
(* Writes.                                                                 *)

(* A table after rows were inserted, or replaced when they exist.          *)
Over(rows, table) ==
    [x \in DOMAIN rows \cup DOMAIN table |-> IF x \in DOMAIN rows THEN rows[x] ELSE table[x]]

(***************************************************************************)
(* INSERT ... ON CONFLICT(id) DO UPDATE: a row that exists keeps its line  *)
(* when the new one has none (COALESCE).  "rows" is a table of new nodes.  *)
(***************************************************************************)
UpsertNodes(g, rows) ==
    LET kept == {n \in DOMAIN rows : rows[n] = 0 /\ n \in DOMAIN g.nodes}
    IN  [g EXCEPT !.nodes = Over([n \in DOMAIN rows \ kept |-> rows[n]], @)]

(* An edge that exists takes the new confidence.                           *)
UpsertEdges(g, rows) == [g EXCEPT !.edges = Over(rows, @)]

(* Rows for UpsertEdges: every triple of a set with one confidence.        *)
EdgeRows(triples, confidence) == [e \in triples |-> confidence]

Dangles(g, e) == e[1] \notin DOMAIN g.nodes \/ e[2] \notin DOMAIN g.nodes

(* Mutant: the paths of every repository are deleted.                      *)
DeleteNodesAt_AnyRepo(g, r, p) ==
    [g EXCEPT !.nodes = [n \in {m \in DOMAIN @ : PathOf(m) # p} |-> @[n]]]

(* The two statements of delete_module.  The second one is global: it      *)
(* drops every edge of the table that has lost an end.                     *)
DeleteNodesAt(g, r, p) ==
    [g EXCEPT !.nodes = [n \in {m \in DOMAIN @ : ~(RepoOf(m) = r /\ PathOf(m) = p)} |-> @[n]]]

SweepEdges(g) ==
    [g EXCEPT !.edges = [e \in {d \in DOMAIN @ : ~Dangles(g, d)} |-> @[e]]]

(* Mutant: the second statement is missing.                                *)
DeleteModule_NoSweep(g, r, p) == DeleteNodesAt(g, r, p)

DeleteModule(g, r, p) == SweepEdges(DeleteNodesAt(g, r, p))

-----------------------------------------------------------------------------
(* Reads.                                                                  *)

EdgesFrom(g, from)          == {e \in DOMAIN g.edges : e[1] = from}
OutgoingEdges(g, from, kind) == {e \in EdgesFrom(g, from) : e[3] = kind}

(* Mutant: the kind is not asked for.                                      *)
IncomingEdges_AnyKind(g, to, kind) == {e \in DOMAIN g.edges : e[2] = to}

IncomingEdges(g, to, kind) == {e \in DOMAIN g.edges : e[2] = to /\ e[3] = kind}

(* get_nodes_by_ids and get_node: ids without a row are silently absent.   *)
NodesByIds(g, ids)     == ids \cap DOMAIN g.nodes
NodesByKind(g, kind)   == {n \in DOMAIN g.nodes : KindOf(n) = kind}
NodesAtPath(g, r, p)   == {n \in DOMAIN g.nodes : RepoOf(n) = r /\ PathOf(n) = p}
RepoNames(g)           == {RepoOf(n) : n \in DOMAIN g.nodes}

Like(q, s) == q = s \/ <<q, s>> \in Within

(* The rows LIMIT leaves: some subset of that size, no order is asked for. *)
Limited(rows, limit) ==
    IF Cardinality(rows) <= limit THEN {rows}
    ELSE {s \in SUBSET rows : Cardinality(s) = limit}

QueryKinds == {"type", "method", "function", "idlmethod", "idlservice"}

(* search_symbols_substring_filtered: the rows that match, and the         *)
(* possible answers; repo = None searches every repository.                *)
MatchingSymbols(g, q, repo) ==
    {n \in DOMAIN g.nodes :
        /\ KindOf(n) \in QueryKinds
        /\ repo # None => RepoOf(n) = repo
        /\ Like(q, SymbolOf(n)) \/ Like(q, PathOf(n))}

SearchSymbols(g, q, repo, limit) == Limited(MatchingSymbols(g, q, repo), limit)

(* Mutant: the prefix test with its arguments swapped.                     *)
IdlMethodsByName_Swapped(g, name, service) ==
    {n \in NodesByKind(g, "idlmethod") :
        /\ Like(name, SymbolOf(n))
        /\ service # None => <<SymbolOf(n), service>> \in StartsWith}

(***************************************************************************)
(* find_idl_methods_by_name.  The service filter accepts "svc." as a       *)
(* prefix and also every symbol that merely starts with svc, so that the   *)
(* service given may be a proper prefix of the one found.                  *)
(***************************************************************************)
IdlMethodsByName(g, name, service) ==
    {n \in NodesByKind(g, "idlmethod") :
        /\ Like(name, SymbolOf(n))
        /\ service # None => <<service, SymbolOf(n)>> \in StartsWith}
=============================================================================
