------------------------------- MODULE Tarjan -------------------------------
(***************************************************************************)
(* Tarjan's algorithm as deps/scc.rs runs it: a stack of frames instead of *)
(* recursion.  A frame enters a node or resumes it after its successor     *)
(* `from`; each step takes one frame.  Nodes are the files of the graph    *)
(* numbered in order; an import that leads to no node is passed over.      *)
(***************************************************************************)
EXTENDS DepGraphs

VARIABLES
    work,        \* frames, the next one last
    index,       \* per node: its number, or None
    lowlink,
    stack,
    components   \* in the order they are found

tvars == <<graph, work, index, lowlink, stack, components>>

Unnumbered == -1

Nodes  == DOMAIN graph
Adj(v) == {j \in DOMAIN graph[v] : graph[v][j] \in Nodes}
OnStack(v) == v \in Range(stack)

Enter(v)        == [kind |-> "enter", v |-> v, from |-> v, next |-> 1]
Resume(v, w, i) == [kind |-> "resume", v |-> v, from |-> w, next |-> i]

TarjanInit(graphs) ==
    /\ graph \in graphs
    /\ work = <<>> /\ stack = <<>> /\ components = <<>>
    /\ index = [v \in DOMAIN graph |-> Unnumbered]
    /\ lowlink = [v \in DOMAIN graph |-> 0]

(* detect: the next node that has no number.                               *)
Start ==
    /\ work = <<>>
    /\ \E v \in Nodes :
        /\ index[v] = Unnumbered /\ \A u \in Nodes : u < v => index[u] # Unnumbered
        /\ work' = <<Enter(v)>>
    /\ UNCHANGED <<graph, index, lowlink, stack, components>>

(* advance: over the successors from the i-th on, up to the first without  *)
(* a number; those on the stack lower v.  When none is left v may be the   *)
(* root of a component, which is what lies above it on the stack.          *)
(* Mutant: a successor lowers v whether or not it is on the stack.         *)
Lowered_AnySuccessor(num, low, st, v, seen) ==
    Min({low} \cup {num[w] : w \in seen})

Lowered(num, low, st, v, seen) ==
    Min({low} \cup {num[w] : w \in {u \in seen : u \in Range(st)}})

Place(st, v) == CHOOSE i \in DOMAIN st : st[i] = v
Above(st, v) == {st[i] : i \in Place(st, v)..Len(st)}
Below(st, v) == SubSeq(st, 1, Place(st, v) - 1)

Advance(v, i, num, low, st, frames) ==
    LET fresh == {j \in Adj(v) : j >= i /\ num[graph[v][j]] = Unnumbered}
        stop  == IF fresh = {} THEN Len(graph[v]) + 1 ELSE Min(fresh)
        now   == Lowered(num, low[v], st, v, {graph[v][j] : j \in {k \in Adj(v) : i <= k /\ k < stop}})
        root  == fresh = {} /\ now = num[v]
    IN  /\ index' = num
        /\ lowlink' = [low EXCEPT ![v] = now]
        /\ work' = IF fresh = {} THEN frames
                   ELSE Append(Append(frames, Resume(v, graph[v][stop], stop + 1)), Enter(graph[v][stop]))
        /\ stack' = IF root THEN Below(st, v) ELSE st
        /\ components' = IF root THEN Append(components, Above(st, v)) ELSE components
        /\ UNCHANGED graph

Numbered == Cardinality({v \in Nodes : index[v] # Unnumbered})

EnterNode ==
    /\ work # <<>> /\ Last(work).kind = "enter"
    /\ LET v == Last(work).v
       IN  Advance(v, Last(work).next,
                   [index EXCEPT ![v] = Numbered], [lowlink EXCEPT ![v] = Numbered],
                   Append(stack, v), Front(work))

ResumeNode ==
    /\ work # <<>> /\ Last(work).kind = "resume"
    /\ LET v == Last(work).v
           w == Last(work).from
           low == IF lowlink[w] < lowlink[v] THEN lowlink[w] ELSE lowlink[v]
       IN  Advance(v, Last(work).next, index, [lowlink EXCEPT ![v] = low], stack, Front(work))

TarjanNext == Start \/ EnterNode \/ ResumeNode

Finished == work = <<>> /\ \A v \in Nodes : index[v] # Unnumbered

(* detect: components of minSize files, and single files that import       *)
(* themselves; the largest first.                                          *)
Cycles(minSize) ==
    {c \in Range(components) :
        \/ Cardinality(c) >= minSize
        \/ \E v \in c : c = {v} /\ v \in Range(graph[v])}

TarjanSpec == TarjanInit(Graphs) /\ [][TarjanNext]_tvars

-----------------------------------------------------------------------------
(* A file reaches what is in every set that holds it and the imports of    *)
(* its files.  Two files are on one cycle when each reaches the other.     *)
Succ(v)       == Range(graph[v]) \cap Nodes
Closed(S)     == \A v \in S : Succ(v) \subseteq S
Reaches(u, w) == \A S \in SUBSET Nodes : u \in S /\ Closed(S) => w \in S
Mutual(v)     == {u \in Nodes : Reaches(u, v) /\ Reaches(v, u)}

(* deps/scc.rs: in the end the components are the classes of files that    *)
(* reach each other, each found once; the cycles are the classes of enough *)
(* files and the files that import themselves.                             *)
SccsAreCycles ==
    Finished =>
        LET class == [v \in Nodes |-> Mutual(v)]
        IN  /\ Exactly(components, Range(class))
            /\ Cycles(2) = {class[v] : v \in {u \in Nodes :
                                Cardinality(class[u]) > 1 \/ u \in Range(graph[u])}}
=============================================================================
