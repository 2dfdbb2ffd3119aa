------------------------------ MODULE DepWalks ------------------------------
(***************************************************************************)
(* The walks over the import graph (deps/traverse.rs), one edge at a time: *)
(* forward and reverse share bfs; around is neighbourhood_depths, which    *)
(* goes both ways and takes a shorter way when it finds one later.  A call *)
(* has a kind, a file, a depth and a limit.  The edges of one file are     *)
(* followed in any order.                                                  *)
(***************************************************************************)
EXTENDS DepGraphs

CONSTANT Calls

ASSUME CallsAssumption == \A c \in Calls : c.maxDepth \in Nat /\ c.limit \in Nat

VARIABLES
    call,
    queue,       \* files with their depths
    cur,         \* what was taken from the queue last
    left,        \* where its edges lead that are not followed yet
    seen, out,  \* bfs
    depths,      \* neighbourhood_depths
    returned

walkVars == <<queue, cur, left, seen, out, depths, returned>>

WalkInit(calls) ==
    /\ call \in calls
    /\ cur = [file |-> call.from, depth |-> 0] /\ queue = <<cur>> /\ left = {}
    /\ seen = {call.from} /\ out = <<>>
    /\ depths = [f \in {call.from} |-> 0]
    /\ returned = FALSE

Neighbours(g, kind, f) ==
    CASE kind = "forward" -> Targets(g, f)
      [] kind = "reverse" -> Importers(g, f)
      [] OTHER            -> Targets(g, f) \cup Importers(g, f)

(* Beyond the depth no edge is followed.                                   *)
TakeFile ==
    /\ left = {} /\ queue # <<>>
    /\ cur' = Head(queue) /\ queue' = Tail(queue)
    /\ left' = IF cur'.depth >= call.maxDepth THEN {} ELSE Neighbours(graph, call.kind, cur'.file)
    /\ UNCHANGED <<graph, call, seen, out, depths, returned>>

(* Mutant: a file is seen when it leaves the queue.                      *)
IsSeen_Late(t) == t \in seen /\ \A i \in DOMAIN queue : queue[i].file # t

IsSeen(t) == t \in seen

Hit(t) == [file |-> t, depth |-> cur.depth + 1]

FollowEdge ==
    /\ call.kind \in {"forward", "reverse"}
    /\ \E t \in left :
        /\ left' = left \ {t}
        /\ IF IsSeen(t) THEN UNCHANGED <<seen, out, queue>>
           ELSE /\ seen' = seen \cup {t}
                /\ out' = Append(out, Hit(t)) /\ queue' = Append(queue, Hit(t))
    /\ UNCHANGED <<graph, call, cur, depths, returned>>

FollowEitherWay ==
    /\ call.kind = "around"
    /\ \E t \in left :
        /\ left' = left \ {t}
        /\ IF t \in DOMAIN depths /\ depths[t] <= cur.depth + 1 THEN UNCHANGED <<depths, queue>>
           ELSE /\ depths' = [f \in DOMAIN depths \cup {t} |-> IF f = t THEN cur.depth + 1 ELSE depths[f]]
                /\ queue' = Append(queue, Hit(t))
    /\ UNCHANGED <<graph, call, cur, seen, out, returned>>

(* reverse cuts what is over the limit.                                    *)
EndWalk ==
    /\ left = {} /\ queue = <<>> /\ ~returned
    /\ out' = IF call.kind = "reverse" /\ Len(out) > call.limit THEN SubSeq(out, 1, call.limit) ELSE out
    /\ returned' = TRUE
    /\ UNCHANGED <<graph, call, queue, cur, left, seen, depths>>

WalkNext == TakeFile \/ FollowEdge \/ FollowEitherWay \/ EndWalk

-----------------------------------------------------------------------------
(* A path of n steps, and the least n within the depth.                    *)
IsPath(g, c, path, n) ==
    /\ path[0] = c.from
    /\ \A i \in 0..n - 1 : path[i + 1] \in Neighbours(g, c.kind, path[i])

Leads(g, c, f, n) ==
    \E path \in [0..n -> AllFiles(g) \cup {c.from}] : IsPath(g, c, path, n) /\ path[n] = f

IsDistance(g, c, f, n) == Leads(g, c, f, n) /\ \A m \in 0..n - 1 : ~Leads(g, c, f, m)

(* deps/traverse.rs: a walk finds the files within the depth, each once,   *)
(* each with its distance, and the nearest first, so that what the limit   *)
(* cuts off is no nearer than what it leaves.                              *)
HitsAreNearest ==
    returned /\ call.kind \in {"forward", "reverse"} =>
        /\ \A i, k \in DOMAIN out : i < k => out[i].file # out[k].file /\ out[i].depth <= out[k].depth
        /\ \A i \in DOMAIN out :
            /\ out[i].file # call.from /\ out[i].depth \in 1..call.maxDepth
            /\ IsDistance(graph, call, out[i].file, out[i].depth)
        /\ \A f \in AllFiles(graph) \ {call.from} : \A n \in 0..call.maxDepth :
            Leads(graph, call, f, n) =>
                \/ \E i \in DOMAIN out : out[i].file = f
                \/ call.kind = "reverse" /\ Len(out) = call.limit /\ \A i \in DOMAIN out : out[i].depth <= n

(* So are the depths around a file, in both directions.                    *)
DepthsAreNearest ==
    returned /\ call.kind = "around" =>
        /\ \A f \in DOMAIN depths :
            depths[f] \in 0..call.maxDepth /\ IsDistance(graph, call, f, depths[f])
        /\ \A f \in AllFiles(graph) \cup {call.from} : \A n \in 0..call.maxDepth :
            Leads(graph, call, f, n) => f \in DOMAIN depths
=============================================================================
