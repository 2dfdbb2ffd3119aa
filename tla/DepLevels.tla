----------------------------- MODULE DepLevels -----------------------------
(***************************************************************************)
(* The design structure matrix (deps/dsm.rs): the levels, by peeling off   *)
(* the files whose imports have all been peeled off, one importer at a     *)
(* time, and then the matrix.  Hash maps are iterated in any order, and a  *)
(* sort is any order that is sorted.                                       *)
(***************************************************************************)
EXTENDS DepGraphs

VARIABLES
    phase,    \* "leaves", "peel" or "done"
    count,    \* out_count
    levels,
    ready,    \* the queue of compute_levels
    node,     \* what was taken from it last
    parents,  \* its importers that are not visited yet
    rows, cells

levelVars == <<phase, count, levels, ready, node, parents, rows, cells>>

Leaves == {f \in AllFiles(graph) : EdgesAt(graph, f) = <<>>}

Orders(S) == {s \in [1..Cardinality(S) -> S] : IsInjective(s) /\ Range(s) = S}

LevelInit ==
    /\ phase = "leaves"
    /\ count = [f \in AllFiles(graph) |-> Len(EdgesAt(graph, f))]
    /\ levels = [f \in Leaves |-> 0]
    /\ ready = <<>> /\ node = 0 /\ parents = {} /\ rows = <<>> /\ cells = <<>>

QueueLeaves ==
    /\ phase = "leaves"
    /\ ready' \in Orders(Leaves) /\ phase' = "peel"
    /\ UNCHANGED <<graph, count, levels, node, parents, rows, cells>>

TakeNode ==
    /\ phase = "peel" /\ parents = {} /\ ready # <<>>
    /\ node' = Head(ready) /\ ready' = Tail(ready) /\ parents' = Importers(graph, node')
    /\ UNCHANGED <<graph, phase, count, levels, rows, cells>>

(* An importer is met once for each of its imports of the file.            *)
Imports(p, f) == Cardinality({i \in DOMAIN graph[p] : graph[p][i] = f})

(* Mutant: the level is that of the file met first.                        *)
Raised_First(p, level) == IF p \in DOMAIN levels THEN levels[p] ELSE level

Raised(p, level) == IF p \in DOMAIN levels /\ level <= levels[p] THEN levels[p] ELSE level

VisitParent ==
    /\ phase = "peel"
    /\ \E p \in parents :
        /\ parents' = parents \ {p}
        /\ levels' = [f \in DOMAIN levels \cup {p} |->
                         IF f = p THEN Raised(p, levels[node] + 1) ELSE levels[f]]
        /\ count' = [count EXCEPT ![p] = IF Imports(p, node) < @ THEN @ - Imports(p, node) ELSE 0]
        /\ ready' = IF count'[p] = 0 THEN Append(ready, p) ELSE ready
    /\ UNCHANGED <<graph, phase, node, rows, cells>>

(* Files that never were ready and that nothing raised come above all.     *)
Highest == IF DOMAIN levels = {} THEN 0 ELSE Max(Range(levels))

(* build: rows and columns by level, then by name.                         *)
RowBefore(f, g) == levels'[f] < levels'[g] \/ (levels'[f] = levels'[g] /\ f < g)

EndLevels ==
    /\ phase = "peel" /\ parents = {} /\ ready = <<>>
    /\ levels' = [f \in AllFiles(graph) |-> IF f \in DOMAIN levels THEN levels[f] ELSE Highest + 1]
    /\ \E order \in Orders(DOMAIN graph) :
        /\ \A i, k \in DOMAIN order : i < k => RowBefore(order[i], order[k])
        /\ rows' = order
        /\ cells' = [i \in DOMAIN order |-> [k \in DOMAIN order |-> order[k] \in Targets(graph, order[i])]]
    /\ phase' = "done"
    /\ UNCHANGED <<graph, count, ready, node, parents>>

LevelNext == QueueLeaves \/ TakeNode \/ VisitParent \/ EndLevels

-----------------------------------------------------------------------------
(* The files whose imports, and theirs, end: those in every set that holds *)
(* each file all of whose imports it holds.                                *)
Grounded(g, f) ==
    \A S \in SUBSET AllFiles(g) :
        (\A h \in AllFiles(g) : Targets(g, h) \subseteq S => h \in S) => f \in S

(* deps/dsm.rs: a file that reaches no cycle is at level 0 if it imports   *)
(* nothing, else one above the highest of its imports; the rows are the    *)
(* files of the project, and the row of such a file shows its imports, all *)
(* to the left of the diagonal.                                            *)
LevelsAreHeights ==
    phase = "done" =>
        /\ DOMAIN levels = AllFiles(graph)
        /\ \A f \in AllFiles(graph) : Grounded(graph, f) =>
            LET imports == Targets(graph, f)
            IN  \/ imports = {} /\ levels[f] = 0
                \/ \E t \in imports : levels[f] = levels[t] + 1 /\ \A u \in imports : levels[u] <= levels[t]
        /\ Exactly(rows, DOMAIN graph)
        /\ \A i, k \in DOMAIN rows :
            /\ cells[i][k] <=> rows[k] \in Targets(graph, rows[i])
            /\ cells[i][k] /\ Grounded(graph, rows[i]) => k < i
=============================================================================
