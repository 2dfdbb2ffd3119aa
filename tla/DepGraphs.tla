----------------------------- MODULE DepGraphs -----------------------------
(***************************************************************************)
(* The in-memory import graph (deps/graph.rs).  A graph maps each file of  *)
(* the project to the sequence of the files it imports; a target may be no *)
(* file of the project.  Files are numbered in the order of their paths.   *)
(***************************************************************************)
EXTENDS Integers, Sequences, FiniteSets, SequencesExt, FiniteSetsExt

CONSTANT Graphs

ASSUME GraphsAssumption ==
    \A g \in Graphs : IsFiniteSet(DOMAIN g) /\ \A v \in DOMAIN g : g[v] \in Seq(Nat)

VARIABLE graph

(* dedup_edges: the first import of each target stays.                     *)
DedupEdges(edges) ==
    FoldLeft(LAMBDA kept, e : IF \E i \in DOMAIN kept : kept[i] = e THEN kept ELSE Append(kept, e),
             <<>>, edges)

EdgesAt(g, f)   == IF f \in DOMAIN g THEN g[f] ELSE <<>>
Targets(g, f)   == Range(EdgesAt(g, f))
AllFiles(g)     == DOMAIN g \cup UNION {Targets(g, f) : f \in DOMAIN g}
Importers(g, t) == {f \in DOMAIN g : t \in Targets(g, f)}

Exactly(seq, set) == Range(seq) = set /\ Len(seq) = Cardinality(set)
=============================================================================
