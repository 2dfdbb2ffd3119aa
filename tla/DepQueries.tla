----------------------------- MODULE DepQueries -----------------------------
(***************************************************************************)
(* One query over an import graph: a walk, or the matrix.                  *)
(***************************************************************************)
EXTENDS DepWalks, DepLevels

queryVars == <<graph, call, walkVars, levelVars>>

QueryInit(graphs, calls) == graph \in graphs /\ WalkInit(calls) /\ LevelInit

QueryNext ==
    \/ call.kind # "matrix" /\ WalkNext /\ UNCHANGED levelVars
    \/ call.kind = "matrix" /\ LevelNext /\ UNCHANGED <<call, walkVars>>

QuerySpec == QueryInit(Graphs, Calls) /\ [][QueryNext]_queryVars

(* deps/traverse.rs and deps/dsm.rs: what a query over the graph promises. *)
WalksAreShortest == HitsAreNearest /\ DepthsAreNearest /\ LevelsAreHeights
=============================================================================
