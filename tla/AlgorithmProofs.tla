-------------------------- MODULE AlgorithmProofs --------------------------
(***************************************************************************)
(* Three algorithms, on every input.  Tarjan finds the cycles of every     *)
(* finite graph: the invariant is about the path of frames from the root   *)
(* to the file at hand.  Whatever is on the stack reaches the path and is  *)
(* reached from it, and a low link says how far down the stack the files   *)
(* above lead.  The chunks of every source cover it: the invariant is      *)
(* about the piece at hand, between two split points, and what is pushed   *)
(* before it.  And every walk over every graph finds what is near, and     *)
(* every matrix has its levels: the invariants are about the queues.       *)
(***************************************************************************)
EXTENDS Tarjan, DepQueries, Chunker, FiniteSetTheorems, SequenceTheorems, WellFoundedInduction, TLAPS

-----------------------------------------------------------------------------
(* Types.                                                                  *)
Frames == [kind : {"enter", "resume"}, v : Nodes, from : Nodes, next : Nat]

Numberings == [Nodes -> Nat \cup {Unnumbered}]

TarjanTypeOK ==
    /\ graph \in Graphs
    /\ work \in Seq(Frames)
    /\ index \in Numberings
    /\ lowlink \in [Nodes -> Nat]
    /\ stack \in Seq(Nodes)
    /\ components \in Seq(SUBSET Nodes)

(* The frames that wait for a successor, and their files: the path from    *)
(* the root to the file at hand.  On is what is on the stack, done what is *)
(* in a component.                                                         *)
Waiting == IF work # <<>> /\ Last(work).kind = "enter" THEN Front(work) ELSE work
Files(frames) == {frames[k].v : k \in DOMAIN frames}
Done == UNION Range(components)

(* A number stands for one file, and the next one for none; the files that *)
(* have one are those on the stack and those done.                         *)
Numbers(num, on, done) ==
    /\ \A v \in Nodes : num[v] < Cardinality({u \in Nodes : num[u] # Unnumbered})
    /\ \A u, v \in Nodes : num[u] = num[v] /\ num[u] # Unnumbered => u = v
    /\ \A v \in Nodes : num[v] # Unnumbered <=> v \in on \cup done
    /\ on \cap done = {}

(* Numbers grow up the stack.                                              *)
Growing(num, st) == \A a, b \in DOMAIN st : a < b => num[st[a]] < num[st[b]]

(* What has a number and is not on the path leads to numbered files only;  *)
(* what is done leads to what is done.                                     *)
Explored(num, path, done) ==
    /\ \A v \in Nodes \ path : num[v] # Unnumbered => \A w \in Succ(v) : num[w] # Unnumbered
    /\ Closed(done)

(* From the stack the path is reached further down, and from the path what *)
(* is above.                                                               *)
Linked(num, on, path) ==
    /\ path \subseteq on
    /\ \A u \in on : \E p \in path : num[p] <= num[u] /\ Reaches(u, p)
    /\ \A p \in path : \A u \in on : num[p] <= num[u] => Reaches(p, u)

(* A low link is the number of a file on the stack that is reached.        *)
LowIsReached(num, low, on) ==
    \A v \in on : low[v] <= num[v] /\ \E x \in on : num[x] = low[v] /\ Reaches(v, x)

(* No successor of u that is on the stack has a number below n.            *)
NoneBelow(num, on, u, n) == \A x \in Succ(u) \cap on : n <= num[x]

(* The first m imports of v have numbers, on the stack none below n.       *)
Walked(num, on, v, m, n) ==
    \A j \in Adj(v) : j <= m =>
        num[graph[v][j]] # Unnumbered /\ (graph[v][j] \in on => n <= num[graph[v][j]])

FrameOK(num, low, on, f) ==
    /\ f.kind = "resume" /\ f.v \in on
    /\ f.next - 1 \in Adj(f.v) /\ f.from = graph[f.v][f.next - 1]
    /\ Walked(num, on, f.v, f.next - 2, low[f.v])

(* What is above u, and below w, has no successor below the low link of u. *)
Between(num, low, on, u, w) ==
    \A x \in on : num[u] < num[x] /\ num[x] < num[w] => NoneBelow(num, on, x, low[u])

Chain(num, low, on, frames) ==
    /\ \A k \in DOMAIN frames : FrameOK(num, low, on, frames[k])
    /\ \A k, l \in DOMAIN frames : k < l => num[frames[k].v] < num[frames[l].v]
    /\ \A k \in DOMAIN frames : k + 1 \in DOMAIN frames =>
        /\ frames[k].from = frames[k + 1].v
        /\ Between(num, low, on, frames[k].v, frames[k + 1].v)

(* The last frame enters a file; the one before waits for it.              *)
Entering ==
    work # <<>> /\ Last(work).kind = "enter" =>
        /\ Last(work).next = 1 /\ index[Last(work).v] = Unnumbered
        /\ Waiting # <<>> =>
            /\ Last(Waiting).from = Last(work).v
            /\ \A x \in Range(stack) : index[Last(Waiting).v] < index[x] =>
                NoneBelow(index, Range(stack), x, lowlink[Last(Waiting).v])

(* The last frame waits for w, which has been left: done, or on the stack  *)
(* with all that it leads to above its low link.                           *)
Resuming ==
    work # <<>> /\ Last(work).kind = "resume" =>
        LET v == Last(work).v
            w == Last(work).from
        IN  /\ index[v] < index[w] /\ (w \in Range(stack) \/ index[v] < lowlink[w])
            /\ \A x \in Range(stack) : index[v] < index[x] =>
                \/ NoneBelow(index, Range(stack), x, lowlink[v])
                \/ /\ w \in Range(stack) /\ index[w] <= index[x]
                   /\ NoneBelow(index, Range(stack), x, lowlink[w])

(* Components are classes, none found twice.                               *)
Classes ==
    /\ \A C \in Range(components) : C # {} /\ \A u \in C : Mutual(u) = C
    /\ \A i, j \in DOMAIN components : i # j => components[i] \cap components[j] = {}

TarjanInv ==
    /\ TarjanTypeOK
    /\ Numbers(index, Range(stack), Done)
    /\ Growing(index, stack)
    /\ Explored(index, Files(Waiting), Done)
    /\ Linked(index, Range(stack), Files(Waiting))
    /\ LowIsReached(index, lowlink, Range(stack))
    /\ Chain(index, lowlink, Range(stack), Waiting)
    /\ Entering
    /\ Resuming
    /\ Classes

-----------------------------------------------------------------------------
(* Reaching is reflexive and transitive, and goes along imports; what is   *)
(* reached from a closed set is in it.                                     *)
LEMMA ReachesItself == \A u : Reaches(u, u)
  BY DEF Reaches

LEMMA ReachesOn == \A u, v, w : Reaches(u, v) /\ Reaches(v, w) => Reaches(u, w)
  BY DEF Reaches

LEMMA ReachesNext == \A u, w : w \in Succ(u) => Reaches(u, w)
  BY DEF Reaches, Closed

LEMMA ReachesInside ==
  ASSUME NEW S, S \subseteq Nodes, Closed(S), NEW u \in S, NEW w, Reaches(u, w)
  PROVE  w \in S
  BY DEF Reaches

LEMMA SuccIsImport ==
  ASSUME graph \in Graphs, NEW v \in Nodes
  PROVE  /\ \A w \in Succ(v) : \E j \in Adj(v) : graph[v][j] = w
         /\ \A j \in Adj(v) : /\ j \in Nat \ {0} /\ j <= Len(graph[v])
                              /\ graph[v][j] \in Nodes /\ graph[v][j] \in Succ(v)
         /\ Len(graph[v]) \in Nat
<1>1. graph[v] \in Seq(Nat)  BY GraphsAssumption DEF Nodes
<1>2. DOMAIN graph[v] = 1..Len(graph[v]) /\ Len(graph[v]) \in Nat  BY <1>1
<1> QED BY <1>2 DEF Succ, Adj, Range

(* A set of numbers has a least one.                                       *)
LEMMA MinIsLeast ==
  ASSUME NEW T, T \subseteq Nat, T # {}
  PROVE  Min(T) \in T /\ \A t \in T : Min(T) <= t
<1> DEFINE R == {ss \in Nat \X Nat : ss[1] < ss[2]}
<1>1. IsWellFoundedOn(R, Nat)  BY NatLessThanWellFounded DEF OpToRel
<1>2. \A a, b \in Nat : a < b => <<a, b>> \in R  OBVIOUS
<1> HIDE DEF R
<1>3. PICK x \in T : \A y \in T : ~(<<y, x>> \in R)  BY <1>1, WFMin
<1>4. ASSUME NEW y \in T PROVE x <= y
  <2>1. ~(<<y, x>> \in R)  BY <1>3
  <2>2. x \in Nat /\ y \in Nat  OBVIOUS
  <2> QED BY <2>1, <2>2, <1>2
<1> QED BY <1>4 DEF Min

(* The least of the low link and the numbers of those passed on the stack.   *)
LEMMA LoweredIsLeast ==
  ASSUME NEW num, NEW low \in Nat, NEW st, NEW v, NEW passed,
         \A w \in passed \cap Range(st) : num[w] \in Nat,
         NEW now, now = Lowered(num, low, st, v, passed)
  PROVE  /\ now \in Nat /\ now <= low
         /\ \A w \in passed \cap Range(st) : now <= num[w]
         /\ now \in {low} \cup {num[w] : w \in passed \cap Range(st)}
<1> DEFINE T == {low} \cup {num[w] : w \in {u \in passed : u \in Range(st)}}
<1>1. T \subseteq Nat /\ T # {}  OBVIOUS
<1>2. now = Min(T)  BY DEF Lowered
<1>3. Min(T) \in T /\ \A t \in T : Min(T) <= t  BY <1>1, MinIsLeast
<1> QED BY <1>2, <1>3

(* The last of a sequence, and what is before it.                          *)
LEMMA LastAndFront ==
  ASSUME NEW S, NEW s \in Seq(S), s # <<>>
  PROVE  /\ Last(s) \in S /\ Last(s) = s[Len(s)] /\ Len(s) \in DOMAIN s
         /\ Front(s) \in Seq(S) /\ Len(Front(s)) = Len(s) - 1
         /\ DOMAIN Front(s) = 1..Len(s) - 1
         /\ \A k \in 1..Len(s) - 1 : Front(s)[k] = s[k]
<1>1. Len(s) \in Nat \ {0} /\ DOMAIN s = 1..Len(s) /\ \A k \in 1..Len(s) : s[k] \in S
  OBVIOUS
<1>2. /\ Front(s) \in Seq(S) /\ Len(Front(s)) = Len(s) - 1
      /\ \A k \in 1..Len(s) - 1 : Front(s)[k] = s[k]
  BY <1>1, SubSeqProperties DEF Front
<1> QED BY <1>1, <1>2 DEF Last

LEMMA Appended ==
  ASSUME NEW S, NEW s \in Seq(S), NEW e \in S
  PROVE  /\ Append(s, e) \in Seq(S) /\ Append(s, e) # <<>>
         /\ Last(Append(s, e)) = e /\ Front(Append(s, e)) = s
         /\ Len(Append(s, e)) = Len(s) + 1 /\ Len(s) \in Nat
         /\ DOMAIN Append(s, e) = 1..Len(s) + 1 /\ DOMAIN s = 1..Len(s)
         /\ \A k \in 1..Len(s) : Append(s, e)[k] = s[k]
         /\ Append(s, e)[Len(s) + 1] = e
         /\ Range(Append(s, e)) = Range(s) \cup {e}
<1>0. /\ Append(s, e) \in Seq(S) /\ Append(s, e) # <<>>
      /\ Len(Append(s, e)) = Len(s) + 1 /\ Append(s, e)[Len(s) + 1] = e
      /\ \A k \in 1..Len(s) : Append(s, e)[k] = s[k]
      /\ Len(s) \in Nat /\ DOMAIN Append(s, e) = 1..Len(s) + 1 /\ DOMAIN s = 1..Len(s)
  BY AppendProperties
<1>1. Front(Append(s, e)) = s
  <2> DEFINE t == Append(s, e)
  <2>1. t \in Seq(S) /\ t # <<>> /\ Len(t) = Len(s) + 1 /\ \A k \in 1..Len(s) : t[k] = s[k]
    BY <1>0
  <2> HIDE DEF t
  <2>2. Front(t) \in Seq(S) /\ Len(Front(t)) = Len(t) - 1 /\ \A k \in 1..Len(t) - 1 : Front(t)[k] = t[k]
    BY <2>1, LastAndFront
  <2>3. Len(Front(t)) = Len(s) /\ \A k \in 1..Len(s) : Front(t)[k] = s[k]
    BY <1>0, <2>1, <2>2
  <2>4. Front(t) = s  BY <2>2, <2>3, SeqEqual
  <2> QED BY <2>4 DEF t
<1>2. Range(Append(s, e)) = Range(s) \cup {e}  BY <1>0 DEF Range
<1> QED BY <1>0, <1>1, <1>2 DEF Last

(* Where a file is on the stack, what lies above it and what is below.     *)
LEMMA CutsAtPlace ==
  ASSUME NEW num \in Numberings, NEW st \in Seq(Nodes), Growing(num, st), NEW v \in Range(st)
  PROVE  /\ Above(st, v) = {x \in Range(st) : num[v] <= num[x]}
         /\ Below(st, v) \in Seq(Nodes)
         /\ Range(Below(st, v)) = {x \in Range(st) : num[x] < num[v]}
         /\ Growing(num, Below(st, v))
<1> DEFINE at == Place(st, v)
<1>1. at \in 1..Len(st) /\ st[at] = v  BY DEF Place, Range
<1>2. \A i \in 1..Len(st) : st[i] \in Nodes /\ num[st[i]] \in Int
  BY DEF Numberings, Unnumbered
<1>3. \A i \in 1..Len(st) : at <= i <=> num[v] <= num[st[i]]
  BY <1>1, <1>2 DEF Growing
<1> HIDE DEF at
<1>4. Above(st, v) = {x \in Range(st) : num[v] <= num[x]}
  BY <1>1, <1>2, <1>3 DEF Above, Range, at
<1>5. /\ Below(st, v) \in Seq(Nodes) /\ Len(Below(st, v)) = at - 1
      /\ \A i \in 1..at - 1 : Below(st, v)[i] = st[i]
  BY <1>1, <1>2 DEF Below, at
<1>6. \A i \in 1..Len(st) : i < at <=> num[st[i]] < num[v]
  BY <1>1, <1>2, <1>3
<1>7. Range(Below(st, v)) = {x \in Range(st) : num[x] < num[v]}
  BY <1>1, <1>5, <1>6 DEF Range
<1>8. Growing(num, Below(st, v))  BY <1>1, <1>5 DEF Growing
<1> QED BY <1>4, <1>5, <1>7, <1>8

-----------------------------------------------------------------------------
(* The graph stays, and with it what the graph says.                       *)
LEMMA GraphStays ==
  ASSUME UNCHANGED graph
  PROVE  /\ Nodes' = Nodes
         /\ \A v : Succ(v)' = Succ(v) /\ Adj(v)' = Adj(v)
         /\ \A S : Closed(S)' <=> Closed(S)
         /\ \A u, w : Reaches(u, w)' <=> Reaches(u, w)
         /\ \A v : Mutual(v)' = Mutual(v)
<1>1. Nodes' = Nodes /\ \A v : Succ(v)' = Succ(v) /\ Adj(v)' = Adj(v)
  BY DEF Nodes, Succ, Adj
<1>2. \A S : Closed(S)' <=> Closed(S)
  BY <1>1 DEF Closed
<1>3. \A u, w : Reaches(u, w)' <=> Reaches(u, w)
  BY <1>1, <1>2 DEF Reaches
<1>4. \A v : Mutual(v)' = Mutual(v)
  BY <1>1, <1>3 DEF Mutual
<1> QED BY <1>1, <1>2, <1>3, <1>4

(* What holds of the next values holds next.                               *)
LEMMA HoldsNext ==
  ASSUME UNCHANGED graph,
         NEW num, NEW low, NEW st, NEW frames, NEW done,
         index' = num, lowlink' = low, stack' = st, Waiting' = frames, Done' = done,
         Numbers(num, Range(st), done), Growing(num, st),
         Explored(num, Files(frames), done), Linked(num, Range(st), Files(frames)),
         LowIsReached(num, low, Range(st)), Chain(num, low, Range(st), frames)
  PROVE  /\ Numbers(index, Range(stack), Done)'
         /\ Growing(index, stack)'
         /\ Explored(index, Files(Waiting), Done)'
         /\ Linked(index, Range(stack), Files(Waiting))'
         /\ LowIsReached(index, lowlink, Range(stack))'
         /\ Chain(index, lowlink, Range(stack), Waiting)'
<1>1. /\ Nodes' = Nodes
      /\ \A v : Succ(v)' = Succ(v) /\ Adj(v)' = Adj(v)
      /\ \A S : Closed(S)' <=> Closed(S)
      /\ \A u, w : Reaches(u, w)' <=> Reaches(u, w)
  BY GraphStays
<1>2. Range(stack)' = Range(st) /\ Files(Waiting)' = Files(frames)
  BY DEF Range, Files
<1>3. Numbers(index, Range(stack), Done)'
  BY <1>1, <1>2 DEF Numbers
<1>4. Growing(index, stack)'
  BY DEF Growing
<1>5. Explored(index, Files(Waiting), Done)'
  BY <1>1, <1>2 DEF Explored
<1>6. Linked(index, Range(stack), Files(Waiting))'
  BY <1>1, <1>2 DEF Linked
<1>7. LowIsReached(index, lowlink, Range(stack))'
  BY <1>1, <1>2 DEF LowIsReached
<1>8. Chain(index, lowlink, Range(stack), Waiting)'
  BY <1>1, <1>2 DEF Chain, FrameOK, Walked, Between, NoneBelow
<1> QED BY <1>3, <1>4, <1>5, <1>6, <1>7, <1>8

-----------------------------------------------------------------------------
(* Advance begins with v at the end of the path: v has its number, its     *)
(* imports before the i-th are walked, and frames wait below it.           *)
AtHand(v, i, num, low, st, frames) ==
    LET on == Range(st)
    IN  /\ v \in on
        /\ Numbers(num, on, Done) /\ Growing(num, st)
        /\ Explored(num, Files(frames) \cup {v}, Done)
        /\ Linked(num, on, Files(frames) \cup {v})
        /\ LowIsReached(num, low, on)
        /\ Chain(num, low, on, frames)
        /\ \A k \in DOMAIN frames : num[frames[k].v] < num[v]
        /\ frames # <<>> => Last(frames).from = v /\ Between(num, low, on, Last(frames).v, v)
        /\ Walked(num, on, v, i - 1, low[v])
        /\ \A x \in on : num[v] < num[x] => NoneBelow(num, on, x, low[v])
        /\ Classes

(* What is on the stack has a number.                                      *)
LEMMA StackIsNumbered ==
  ASSUME NEW num \in Numberings, NEW on, NEW done, Numbers(num, on, done), on \subseteq Nodes
  PROVE  \A x \in on : x \in Nodes /\ num[x] \in Nat /\ num[x] # Unnumbered
  BY DEF Numbers, Numberings, Unnumbered

LEMMA FramesAreTyped ==
  ASSUME NEW frames \in Seq(Frames)
  PROVE  /\ DOMAIN frames = 1..Len(frames) /\ Len(frames) \in Nat
         /\ \A k \in DOMAIN frames : frames[k] \in Frames /\ frames[k].v \in Nodes
                                  /\ frames[k].from \in Nodes /\ frames[k].next \in Nat
<1>1. \A k \in DOMAIN frames : frames[k] \in Frames  OBVIOUS
<1>2. \A f \in Frames : f.v \in Nodes /\ f.from \in Nodes /\ f.next \in Nat  BY DEF Frames
<1> QED BY <1>1, <1>2

Extends(longer, frames, f) ==
    /\ longer \in Seq(Frames) /\ longer # <<>>
    /\ Last(longer) = f /\ Front(longer) = frames
    /\ DOMAIN longer = 1..Len(frames) + 1 /\ Len(longer) = Len(frames) + 1
    /\ \A k \in 1..Len(frames) : longer[k] = frames[k]
    /\ longer[Len(frames) + 1] = f
    /\ Files(longer) = Files(frames) \cup {f.v}

LEMMA FrameAppended ==
  ASSUME NEW frames \in Seq(Frames), NEW f \in Frames, NEW longer, longer = Append(frames, f)
  PROVE  Extends(longer, frames, f)
<1>1. longer \in Seq(Frames)  BY Appended
<1>2. longer # <<>>  BY Appended
<1>3. Last(longer) = f  BY Appended
<1>4. Front(longer) = frames  BY Appended
<1>5. DOMAIN longer = 1..Len(frames) + 1 /\ Len(longer) = Len(frames) + 1  BY Appended
<1>6. \A k \in 1..Len(frames) : longer[k] = frames[k]  BY Appended
<1>7. longer[Len(frames) + 1] = f  BY Appended
<1>8. Files(longer) = Files(frames) \cup {f.v}
  <2>1. DOMAIN frames = 1..Len(frames) /\ Len(frames) \in Nat  BY FramesAreTyped
  <2> QED BY <2>1, <1>5, <1>6, <1>7 DEF Files
<1> QED BY <1>1, <1>2, <1>3, <1>4, <1>5, <1>6, <1>7, <1>8 DEF Extends

(* A lower low link of v keeps what is said of the frames below v.         *)
LEMMA ChainBelow ==
  ASSUME NEW num \in Numberings, NEW low \in [Nodes -> Nat], NEW on, on \subseteq Nodes,
         NEW frames \in Seq(Frames), NEW v \in Nodes, NEW n \in Nat,
         Chain(num, low, on, frames), \A k \in DOMAIN frames : num[frames[k].v] < num[v],
         NEW low2, low2 = [low EXCEPT ![v] = n]
  PROVE  /\ Chain(num, low2, on, frames)
         /\ \A k \in DOMAIN frames : low2[frames[k].v] = low[frames[k].v] /\ frames[k].v # v
<1>1. \A k \in DOMAIN frames : frames[k] \in Frames /\ frames[k].v \in Nodes
  BY FramesAreTyped
<1>2. \A k \in DOMAIN frames : num[frames[k].v] \in Int /\ num[v] \in Int
  BY <1>1 DEF Numberings, Unnumbered
<1>3. \A k \in DOMAIN frames : low2[frames[k].v] = low[frames[k].v] /\ frames[k].v # v
  BY <1>1, <1>2
<1>4. \A k \in DOMAIN frames : FrameOK(num, low2, on, frames[k])
  BY <1>3 DEF Chain, FrameOK
<1>5. ASSUME NEW k \in DOMAIN frames, k + 1 \in DOMAIN frames
      PROVE  /\ frames[k].from = frames[k + 1].v
             /\ Between(num, low2, on, frames[k].v, frames[k + 1].v)
  BY <1>3, <1>5 DEF Chain, Between
<1>6. Chain(num, low2, on, frames)  BY <1>4, <1>5 DEF Chain
<1> QED BY <1>3, <1>6

(* A file with a lower low link reaches whose number it is.                *)
LEMMA LowersToReached ==
  ASSUME graph \in Graphs, NEW num \in Numberings, NEW low \in [Nodes -> Nat],
         NEW on, on \subseteq Nodes, \A x \in on : num[x] \in Nat,
         NEW v \in on, NEW n \in Nat,
         LowIsReached(num, low, on), n <= low[v],
         n = low[v] \/ \E x \in on : n = num[x] /\ Reaches(v, x)
  PROVE  LowIsReached(num, [low EXCEPT ![v] = n], on)
<1>1. low[v] \in Nat /\ num[v] \in Nat /\ low[v] <= num[v]  BY DEF LowIsReached
<1>2. n <= num[v]  BY <1>1
<1>3. \E x \in on : num[x] = n /\ Reaches(v, x)  BY DEF LowIsReached
<1> QED BY <1>2, <1>3 DEF LowIsReached

(* Fewer files on the stack, no more to check.                             *)
LEMMA FewerOnStack ==
  ASSUME NEW num, NEW low, NEW on, NEW less, less \subseteq on
  PROVE  /\ \A x, n : NoneBelow(num, on, x, n) => NoneBelow(num, less, x, n)
         /\ \A x, m, n : Walked(num, on, x, m, n) => Walked(num, less, x, m, n)
         /\ \A u, w : Between(num, low, on, u, w) => Between(num, low, less, u, w)
  BY DEF NoneBelow, Walked, Between

(* Advance, on the way to a file without a number, or out of v.            *)
LEMMA AdvanceKeeps ==
  ASSUME graph \in Graphs, components \in Seq(SUBSET Nodes),
         NEW v \in Nodes, NEW i \in Nat, NEW num \in Numberings, NEW low \in [Nodes -> Nat],
         NEW st \in Seq(Nodes), NEW frames \in Seq(Frames),
         AtHand(v, i, num, low, st, frames), Advance(v, i, num, low, st, frames)
  PROVE  TarjanInv'
<1> DEFINE on    == Range(st)
           fresh == {j \in Adj(v) : j >= i /\ num[graph[v][j]] = Unnumbered}
           stop  == IF fresh = {} THEN Len(graph[v]) + 1 ELSE Min(fresh)
           passed  == {graph[v][j] : j \in {k \in Adj(v) : i <= k /\ k < stop}}
           now   == Lowered(num, low[v], st, v, passed)
           low2  == [low EXCEPT ![v] = now]
           root  == fresh = {} /\ now = num[v]
<1>1. /\ index' = num /\ lowlink' = low2 /\ UNCHANGED graph
      /\ work' = IF fresh = {} THEN frames
                 ELSE Append(Append(frames, Resume(v, graph[v][stop], stop + 1)), Enter(graph[v][stop]))
      /\ stack' = IF root THEN Below(st, v) ELSE st
      /\ components' = IF root THEN Append(components, Above(st, v)) ELSE components
  BY DEF Advance
<1>2. /\ on \subseteq Nodes /\ v \in on
      /\ \A x \in on : x \in Nodes /\ num[x] \in Nat /\ num[x] # Unnumbered
  <2>1. on \subseteq Nodes  BY DEF Range
  <2> QED BY <2>1, StackIsNumbered DEF AtHand
<1>3. /\ \A w \in Succ(v) : \E j \in Adj(v) : graph[v][j] = w
      /\ \A j \in Adj(v) : /\ j \in Nat \ {0} /\ j <= Len(graph[v])
                           /\ graph[v][j] \in Nodes /\ graph[v][j] \in Succ(v)
      /\ Len(graph[v]) \in Nat
  BY SuccIsImport
<1>4. /\ stop \in Nat
      /\ fresh = {} => stop = Len(graph[v]) + 1
      /\ fresh # {} => stop \in fresh
      /\ \A j \in Adj(v) : i <= j /\ j < stop => num[graph[v][j]] # Unnumbered
  <2>1. CASE fresh = {}  BY <1>3, <2>1
  <2>2. CASE fresh # {}
    <3>1. fresh \subseteq Nat  BY <1>3
    <3>2. Min(fresh) \in fresh /\ \A t \in fresh : Min(fresh) <= t  BY <2>2, <3>1, MinIsLeast
    <3>3. stop = Min(fresh)  BY <2>2
    <3>4. stop \in fresh /\ \A t \in fresh : stop <= t  BY <3>2, <3>3
    <3>5. stop \in Nat  BY <3>1, <3>4
    <3> HIDE DEF stop
    <3>6. ASSUME NEW j \in Adj(v), i <= j, j < stop PROVE num[graph[v][j]] # Unnumbered
      <4>1. j \in Nat  BY <1>3
      <4>2. j \notin fresh  BY <3>4, <3>5, <3>6, <4>1
      <4> QED BY <3>6, <4>1, <4>2
    <3> HIDE DEF fresh
    <3> QED BY <2>2, <3>4, <3>5, <3>6
  <2> QED BY <2>1, <2>2
<1>5. \A j \in Adj(v) : i <= j /\ j < stop => graph[v][j] \in passed
  OBVIOUS
<1>6. \A w \in passed : w \in Succ(v)
  BY <1>3
<1> HIDE DEF fresh, stop, passed
<1>7. /\ now \in Nat /\ now <= low[v]
      /\ \A w \in passed \cap on : now <= num[w]
      /\ now = low[v] \/ \E w \in passed \cap on : now = num[w]
  <2>1. \A w \in passed \cap Range(st) : num[w] \in Nat  BY <1>2
  <2> DEFINE low0 == low[v]
  <2>2. low0 \in Nat /\ now = Lowered(num, low0, st, v, passed)  OBVIOUS
  <2> HIDE DEF now, low0
  <2>3. now \in Nat /\ now <= low0  BY <2>1, <2>2, LoweredIsLeast
  <2>4. \A w \in passed \cap Range(st) : now <= num[w]  BY <2>1, <2>2, LoweredIsLeast
  <2>5. now \in {low0} \cup {num[w] : w \in passed \cap Range(st)}
    BY <2>1, <2>2, LoweredIsLeast
  <2> QED BY <2>3, <2>4, <2>5 DEF low0
<1> HIDE DEF now
<1>8. low[v] <= num[v] /\ now <= num[v]
  <2>1. LowIsReached(num, low, on) /\ v \in on  BY <1>2 DEF AtHand
  <2>2. low[v] <= num[v]  BY <2>1 DEF LowIsReached
  <2>3. low[v] \in Nat /\ num[v] \in Nat /\ now \in Nat /\ now <= low[v]  BY <1>2, <1>7
  <2> QED BY <2>2, <2>3
<1>9. Walked(num, on, v, stop - 1, now)
  <2> SUFFICES ASSUME NEW j \in Adj(v), j <= stop - 1
               PROVE  num[graph[v][j]] # Unnumbered /\ (graph[v][j] \in on => now <= num[graph[v][j]])
    BY DEF Walked
  <2>1. CASE i <= j
    BY <1>3, <1>4, <1>5, <1>7, <2>1
  <2>2. CASE j <= i - 1
    <3>1. num[graph[v][j]] # Unnumbered /\ (graph[v][j] \in on => low[v] <= num[graph[v][j]])
      BY <2>2 DEF AtHand, Walked
    <3> QED BY <1>2, <1>7, <3>1
  <2> QED BY <1>3, <2>1, <2>2
<1>10. LowIsReached(num, low2, on)
  <2>1. now = low[v] \/ \E x \in on : now = num[x] /\ Reaches(v, x)
    BY <1>6, <1>7, ReachesNext
  <2>2. LowIsReached(num, low, on)  BY DEF AtHand
  <2> HIDE DEF on
  <2> QED BY <1>2, <1>7, <2>1, <2>2, LowersToReached
<1>11. /\ Chain(num, low2, on, frames)
       /\ \A k \in DOMAIN frames : low2[frames[k].v] = low[frames[k].v] /\ frames[k].v # v
  <2>1. Chain(num, low, on, frames) /\ \A k \in DOMAIN frames : num[frames[k].v] < num[v]  BY DEF AtHand
  <2>2. low2 = [low EXCEPT ![v] = now] /\ now \in Nat /\ on \subseteq Nodes  BY <1>2, <1>7
  <2> HIDE DEF on, low2
  <2>3. Chain(num, low2, on, frames)  BY <2>1, <2>2, ChainBelow
  <2>4. \A k \in DOMAIN frames : low2[frames[k].v] = low[frames[k].v] /\ frames[k].v # v
    <3>1. \A k \in DOMAIN frames : frames[k].v \in Nodes  BY FramesAreTyped
    <3>2. \A k \in DOMAIN frames : num[frames[k].v] \in Int /\ num[v] \in Int
      BY <3>1 DEF Numberings, Unnumbered
    <3> QED BY <2>1, <2>2, <3>1, <3>2
  <2> QED BY <2>3, <2>4
<1>12. \A x \in on : num[v] < num[x] => NoneBelow(num, on, x, now)
  <2> SUFFICES ASSUME NEW x \in on, num[v] < num[x], NEW y \in Succ(x) \cap on
               PROVE  now <= num[y]
    BY DEF NoneBelow
  <2>1. low[v] <= num[y]  BY DEF AtHand, NoneBelow
  <2> QED BY <1>2, <1>7, <2>1
<1>13. /\ DOMAIN frames = 1..Len(frames) /\ Len(frames) \in Nat
       /\ \A k \in DOMAIN frames : frames[k] \in Frames /\ frames[k].v \in Nodes
                                /\ frames[k].from \in Nodes /\ frames[k].next \in Nat
  BY FramesAreTyped
<1>14. low2 \in [Nodes -> Nat] /\ low2[v] = now
  BY <1>7
<1>15. /\ Nodes' = Nodes /\ Frames' = Frames
       /\ \A x : Succ(x)' = Succ(x) /\ Adj(x)' = Adj(x)
       /\ \A x : Mutual(x)' = Mutual(x)
  BY <1>1, GraphStays DEF Frames
<1>16. ASSUME Done' = Done, components' = components PROVE Classes'
  BY <1>15, <1>16 DEF AtHand, Classes
<1> HIDE DEF on, low2
<1>17. CASE fresh # {}
  <2> DEFINE w == graph[v][stop]
             R == Resume(v, w, stop + 1)
             W == Append(frames, R)
  <2>1. /\ w \in Nodes /\ num[w] = Unnumbered /\ stop \in Adj(v) /\ stop \in Nat \ {0}
    BY <1>3, <1>4, <1>17 DEF fresh
  <2>2. /\ R \in Frames /\ Enter(w) \in Frames
        /\ R.kind = "resume" /\ R.v = v /\ R.from = w /\ R.next = stop + 1
        /\ Enter(w).kind = "enter" /\ Enter(w).v = w /\ Enter(w).next = 1
    <3> HIDE DEF w
    <3> QED BY <2>1 DEF Frames, Resume, Enter
  <2> HIDE DEF w, R
  <2>3. /\ W \in Seq(Frames) /\ W # <<>> /\ Last(W) = R
        /\ DOMAIN W = 1..Len(frames) + 1 /\ Len(W) = Len(frames) + 1
        /\ \A k \in 1..Len(frames) : W[k] = frames[k]
        /\ W[Len(frames) + 1] = R
        /\ Files(W) = Files(frames) \cup {v}
    <3>1. W = Append(frames, R) /\ R \in Frames /\ R.v = v  BY <2>2
    <3> HIDE DEF W
    <3>2. Extends(W, frames, R)  BY <3>1, FrameAppended
    <3> QED BY <3>1, <3>2 DEF Extends
  <2> DEFINE WW == Append(W, Enter(w))
  <2> HIDE DEF W
  <2>4. WW \in Seq(Frames) /\ WW # <<>> /\ Last(WW) = Enter(w) /\ Front(WW) = W
    <3>1. WW = Append(W, Enter(w)) /\ Enter(w) \in Frames  BY <2>2
    <3> HIDE DEF WW
    <3>2. Extends(WW, W, Enter(w))  BY <2>3, <3>1, FrameAppended
    <3> QED BY <3>2 DEF Extends
  <2> HIDE DEF WW
  <2>5. work' = WW
    BY <1>1, <1>17 DEF WW, W, R, w
  <2>6. Last(work') = Enter(w) /\ work' # <<>> /\ Waiting' = W
    BY <2>2, <2>4, <2>5 DEF Waiting
  <2>8. stack' = st /\ components' = components
    BY <1>1, <1>17
  <2>9. Done' = Done  BY <2>8 DEF Done, Range
  <2>10. Chain(num, low2, on, W)
    <3>1. FrameOK(num, low2, on, R)
      BY <1>2, <1>9, <1>14, <2>1, <2>2 DEF FrameOK, w
    <3>2. \A k \in DOMAIN frames : FrameOK(num, low2, on, frames[k])
      BY <1>11 DEF Chain
    <3>3. \A k \in DOMAIN W : FrameOK(num, low2, on, W[k])
      BY <1>13, <2>3, <3>1, <3>2
    <3>4. \A k, l \in DOMAIN W : k < l => num[W[k].v] < num[W[l].v]
      <4> SUFFICES ASSUME NEW k \in DOMAIN W, NEW l \in DOMAIN W, k < l
                   PROVE  num[W[k].v] < num[W[l].v]
        OBVIOUS
      <4>1. k \in DOMAIN frames /\ W[k] = frames[k]  BY <1>13, <2>3
      <4>2. CASE l = Len(frames) + 1
        BY <2>2, <2>3, <4>1, <4>2 DEF AtHand
      <4>3. CASE l # Len(frames) + 1
        <5>1. l \in DOMAIN frames /\ W[l] = frames[l]  BY <1>13, <2>3, <4>3
        <5> QED BY <1>11, <4>1, <5>1 DEF Chain
      <4> QED BY <4>2, <4>3
    <3>5. ASSUME NEW k \in DOMAIN W, k + 1 \in DOMAIN W
          PROVE  W[k].from = W[k + 1].v /\ Between(num, low2, on, W[k].v, W[k + 1].v)
      <4>1. k \in DOMAIN frames /\ W[k] = frames[k]  BY <1>13, <2>3, <3>5
      <4>2. CASE k = Len(frames)
        <5>1. W[k + 1].v = v /\ frames # <<>> /\ Last(frames) = frames[k]
          BY <2>2, <2>3, <4>1, <4>2 DEF Last
        <5>2. frames[k].from = v /\ Between(num, low, on, frames[k].v, v)
          BY <5>1 DEF AtHand, on
        <5>3. Between(num, low2, on, frames[k].v, v)
          BY <1>11, <4>1, <5>2 DEF Between
        <5> QED BY <4>1, <5>1, <5>2, <5>3
      <4>3. CASE k # Len(frames)
        <5>1. k + 1 \in DOMAIN frames /\ W[k + 1] = frames[k + 1]  BY <1>13, <2>3, <3>5, <4>1, <4>3
        <5> QED BY <1>11, <4>1, <5>1 DEF Chain
      <4> QED BY <4>2, <4>3
    <3> QED BY <3>3, <3>4, <3>5 DEF Chain
  <2>11. /\ Numbers(index, Range(stack), Done)'
         /\ Growing(index, stack)'
         /\ Explored(index, Files(Waiting), Done)'
         /\ Linked(index, Range(stack), Files(Waiting))'
         /\ LowIsReached(index, lowlink, Range(stack))'
         /\ Chain(index, lowlink, Range(stack), Waiting)'
    BY <1>1, <1>10, <2>3, <2>6, <2>8, <2>9, <2>10, HoldsNext DEF AtHand, on
  <2>12. TarjanTypeOK'
    BY <1>1, <1>14, <1>15, <2>4, <2>5, <2>8 DEF TarjanTypeOK, Numberings
  <2>13. Entering'
    <3>1. \A x \in on : num[v] < num[x] => NoneBelow(num, on, x, low2[v])  BY <1>12, <1>14
    <3>2. ASSUME NEW x \in Range(stack)', index'[v] < index'[x]
          PROVE  NoneBelow(index, Range(stack), x, lowlink[v])'
      <4>1. Range(stack)' = on  BY <2>8 DEF Range, on
      <4>2. NoneBelow(num, on, x, low2[v])  BY <1>1, <3>1, <3>2, <4>1
      <4> QED BY <1>1, <1>15, <4>1, <4>2 DEF NoneBelow
    <3>3. /\ Last(work)'.next = 1 /\ Last(work)'.v = w /\ index'[w] = Unnumbered
          /\ Last(Waiting)' = R
      BY <1>1, <2>1, <2>2, <2>3, <2>6 DEF Last
    <3> QED BY <2>2, <3>2, <3>3 DEF Entering
  <2>14. Resuming'
    <3>1. Last(work)'.kind = "enter"  BY <2>2, <2>6 DEF Last
    <3> QED BY <3>1 DEF Resuming
  <2>15. Classes'  BY <1>16, <2>8, <2>9
  <2> QED BY <2>11, <2>12, <2>13, <2>14, <2>15 DEF TarjanInv
<1>18. CASE fresh = {}
  <2>1. /\ \A w \in Succ(v) : num[w] # Unnumbered
        /\ NoneBelow(num, on, v, now)
    <3>1. \A w \in Succ(v) : num[w] # Unnumbered /\ (w \in on => now <= num[w])
      BY <1>3, <1>4, <1>9, <1>18 DEF Walked
    <3> QED BY <3>1 DEF NoneBelow
  <2>2. work' = frames  BY <1>1, <1>18
  <2>3. frames # <<>> =>
            /\ Len(frames) \in DOMAIN frames /\ Last(frames) = frames[Len(frames)]
            /\ Last(frames).kind = "resume" /\ Last(frames).v \in on /\ Last(frames).v \in Nodes
            /\ num[Last(frames).v] < num[v] /\ low2[Last(frames).v] = low[Last(frames).v]
            /\ Last(frames).from = v
            /\ Between(num, low, on, Last(frames).v, v)
    <3> SUFFICES ASSUME frames # <<>>
                 PROVE  /\ Len(frames) \in DOMAIN frames /\ Last(frames) = frames[Len(frames)]
                        /\ Last(frames).kind = "resume" /\ Last(frames).v \in on /\ Last(frames).v \in Nodes
                        /\ num[Last(frames).v] < num[v] /\ low2[Last(frames).v] = low[Last(frames).v]
                        /\ Last(frames).from = v
                        /\ Between(num, low, on, Last(frames).v, v)
      OBVIOUS
    <3>1. Len(frames) \in DOMAIN frames /\ Last(frames) = frames[Len(frames)]
      BY <1>13, EmptySeq DEF Last
    <3>2. FrameOK(num, low2, on, Last(frames))  BY <1>11, <3>1 DEF Chain
    <3>3. num[Last(frames).v] < num[v]  BY <3>1 DEF AtHand
    <3>4. Last(frames).from = v /\ Between(num, low, on, Last(frames).v, v)  BY DEF AtHand, on
    <3> QED BY <1>2, <1>11, <3>1, <3>2, <3>3, <3>4 DEF FrameOK
  <2>4. Waiting' = frames  BY <2>2, <2>3 DEF Waiting, Last
  <2>5. Entering'
    <3>1. work' # <<>> => Last(work)'.kind = "resume"  BY <2>2, <2>3 DEF Last
    <3> QED BY <3>1 DEF Entering
  <2>6. \A u \in Files(frames) : u \in on /\ u # v /\ num[u] < num[v]
    <3>1. Files(frames) \subseteq on  BY DEF AtHand, Linked, on
    <3>2. \A u \in Files(frames) : num[u] < num[v]  BY DEF AtHand, Files
    <3> QED BY <1>2, <3>1, <3>2
  (* v stays on the stack: it reaches something further down.              *)
  <2>7. CASE now # num[v]
    <3>1. stack' = st /\ components' = components
      BY <1>1, <2>7
    <3>2. Done' = Done  BY <3>1 DEF Done, Range
    <3>3. Explored(num, Files(frames), Done)
      BY <2>1 DEF AtHand, Explored
    <3>4. Linked(num, on, Files(frames))
      <4>1. Linked(num, on, Files(frames) \cup {v})  BY DEF AtHand, on
      <4>2. PICK x \in on : num[x] = now /\ Reaches(v, x)
        BY <1>2, <1>10, <1>14 DEF LowIsReached
      <4>3. PICK q \in Files(frames) \cup {v} : num[q] <= num[x] /\ Reaches(x, q)
        BY <4>1 DEF Linked
      <4>4. q \in Files(frames) /\ Reaches(v, q) /\ num[q] <= num[v]
        BY <1>2, <1>8, <2>6, <2>7, <4>2, <4>3, ReachesOn
      <4>5. ASSUME NEW u \in on PROVE \E p \in Files(frames) : num[p] <= num[u] /\ Reaches(u, p)
        <5>1. PICK p \in Files(frames) \cup {v} : num[p] <= num[u] /\ Reaches(u, p)
          BY <4>1 DEF Linked
        <5>2. CASE p = v
          <6>1. num[q] <= num[u]  BY <1>2, <2>6, <4>4, <5>1, <5>2
          <6>2. Reaches(u, q)  BY <4>4, <5>1, <5>2, ReachesOn
          <6> QED BY <4>4, <6>1, <6>2
        <5> QED BY <5>1, <5>2
      <4> QED BY <4>1, <4>5 DEF Linked
    <3>5. /\ Numbers(index, Range(stack), Done)'
          /\ Growing(index, stack)'
          /\ Explored(index, Files(Waiting), Done)'
          /\ Linked(index, Range(stack), Files(Waiting))'
          /\ LowIsReached(index, lowlink, Range(stack))'
          /\ Chain(index, lowlink, Range(stack), Waiting)'
      BY <1>1, <1>10, <1>11, <2>4, <3>1, <3>2, <3>3, <3>4, HoldsNext DEF AtHand, on
    <3>6. TarjanTypeOK'
      BY <1>1, <1>14, <1>15, <2>2, <3>1 DEF TarjanTypeOK, Numberings
    <3>7. Resuming'
      <4> SUFFICES ASSUME frames # <<>>
                   PROVE  LET u == Last(frames).v
                          IN  /\ num[u] < num[v] /\ v \in on
                              /\ \A x \in on : num[u] < num[x] =>
                                  \/ NoneBelow(num, on, x, low2[u])
                                  \/ num[v] <= num[x] /\ NoneBelow(num, on, x, low2[v])
        <5>1. Range(stack)' = on  BY <3>1 DEF Range, on
        <5>2. \A x, n : NoneBelow(index, Range(stack), x, n)' <=> NoneBelow(num, on, x, n)
          BY <1>1, <1>15, <5>1 DEF NoneBelow
        <5> QED BY <1>1, <2>2, <2>3, <5>1, <5>2 DEF Resuming, Last
      <4> DEFINE u == Last(frames).v
      <4>1. num[u] < num[v] /\ low2[u] = low[u] /\ Between(num, low, on, u, v)  BY <2>3
      <4>2. ASSUME NEW x \in on, num[u] < num[x]
            PROVE  NoneBelow(num, on, x, low2[u]) \/ (num[v] <= num[x] /\ NoneBelow(num, on, x, low2[v]))
        <5>1. CASE num[x] < num[v]  BY <4>1, <4>2, <5>1 DEF Between
        <5>2. CASE num[x] = num[v]
          <6>1. x = v  BY <1>2, <5>2 DEF AtHand, Numbers
          <6> QED BY <1>2, <1>14, <2>1, <6>1
        <5>3. CASE num[v] < num[x]  BY <1>2, <1>12, <1>14, <5>3
        <5> QED BY <1>2, <5>1, <5>2, <5>3
      <4> QED BY <1>2, <4>1, <4>2
    <3>8. Classes'  BY <1>16, <3>1, <3>2
    <3> QED BY <2>5, <3>5, <3>6, <3>7, <3>8 DEF TarjanInv
  (* v is the root of a component: nothing from v up leads below it.       *)
  <2>8. CASE now = num[v]
    <3> DEFINE C    == Above(st, v)
               kept == Below(st, v)
               less == Range(kept)
               all  == Done \cup C
    <3>1. stack' = kept /\ components' = Append(components, C)
      BY <1>1, <1>18, <2>8
    <3>2. /\ C = {x \in on : num[v] <= num[x]}
          /\ kept \in Seq(Nodes)
          /\ less = {x \in on : num[x] < num[v]}
          /\ Growing(num, kept)
      <4>1. Growing(num, st) /\ v \in Range(st)  BY <1>2 DEF AtHand, on
      <4> QED BY <4>1, CutsAtPlace DEF on
    <3> HIDE DEF C, kept, less
    <3>3. /\ less \subseteq on /\ C \subseteq on /\ less \cup C = on /\ less \cap C = {} /\ v \in C
          /\ \A x \in on : x \in less <=> num[x] < num[v]
      BY <1>2, <3>2
    <3>4. Numbers(num, on, Done)  BY DEF AtHand, on
    <3>5. Done' = Done \cup C /\ components' \in Seq(SUBSET Nodes)
      <4>1. C \in SUBSET Nodes  BY <1>2, <3>3
      <4>2. components' \in Seq(SUBSET Nodes)  BY <3>1, <4>1, Appended
      <4>3. Range(components') = Range(components) \cup {C}  BY <3>1, <4>1, Appended
      <4> QED BY <4>2, <4>3 DEF Done
    <3>6. Numbers(num, less, all)
      BY <3>3, <3>4 DEF Numbers
    <3>7. ASSUME NEW u \in C, NEW x \in Succ(u) PROVE x \in all
      <4>1. num[x] # Unnumbered
        <5>1. CASE u = v  BY <2>1, <5>1, <3>7
        <5>2. CASE u # v
          <6>1. u \in Nodes /\ u \notin Files(frames) \cup {v} /\ num[u] # Unnumbered
            BY <1>2, <2>6, <3>2, <3>3, <5>2
          <6> QED BY <6>1 DEF AtHand, Explored
        <5> QED BY <5>1, <5>2
      <4>2. x \in Nodes  BY DEF Succ
      <4>3. x \in on \cup Done  BY <3>4, <4>1, <4>2 DEF Numbers
      <4>4. ASSUME x \in on PROVE num[v] <= num[x]
        <5>1. CASE num[u] = num[v]
          <6>1. u = v  BY <1>2, <3>3, <3>4, <5>1 DEF Numbers
          <6> QED BY <2>1, <2>8, <4>4, <6>1 DEF NoneBelow
        <5>2. CASE num[v] < num[u]
          <6>1. NoneBelow(num, on, u, now)  BY <1>12, <3>3, <5>2
          <6> QED BY <2>8, <4>4, <6>1 DEF NoneBelow
        <5> QED BY <1>2, <3>2, <3>3, <5>1, <5>2
      <4> QED BY <3>2, <4>3, <4>4
    <3>8. Closed(Done) /\ Closed(all)
      <4>1. Closed(Done)  BY DEF AtHand, Explored
      <4> QED BY <3>7, <4>1 DEF Closed
    <3>9. Explored(num, Files(frames), all)
      BY <2>1, <3>8 DEF AtHand, Explored
    <3>10. Linked(num, on, Files(frames) \cup {v})  BY DEF AtHand, on
    <3>11. Linked(num, less, Files(frames))
      <4>1. Files(frames) \subseteq less  BY <2>6, <3>3
      <4>2. ASSUME NEW u \in less PROVE \E p \in Files(frames) : num[p] <= num[u] /\ Reaches(u, p)
        <5>1. PICK p \in Files(frames) \cup {v} : num[p] <= num[u] /\ Reaches(u, p)
          BY <3>3, <3>10 DEF Linked
        <5>2. p # v  BY <1>2, <3>3, <5>1
        <5> QED BY <5>1, <5>2
      <4>3. \A p \in Files(frames) : \A u \in less : num[p] <= num[u] => Reaches(p, u)
        BY <3>3, <3>10 DEF Linked
      <4> QED BY <4>1, <4>2, <4>3 DEF Linked
    <3>12. LowIsReached(num, low2, less)
      <4> SUFFICES ASSUME NEW u \in less
                   PROVE  low2[u] <= num[u] /\ \E x \in less : num[x] = low2[u] /\ Reaches(u, x)
        BY DEF LowIsReached
      <4>1. u \in on /\ num[u] < num[v]  BY <3>3
      <4>2. low2[u] <= num[u]  BY <1>10, <4>1 DEF LowIsReached
      <4>3. PICK x \in on : num[x] = low2[u] /\ Reaches(u, x)  BY <1>10, <4>1 DEF LowIsReached
      <4>4. x \in less  BY <1>2, <3>3, <4>1, <4>2, <4>3
      <4> QED BY <4>2, <4>3, <4>4
    <3>13. Chain(num, low2, less, frames)
      <4>1. \A k \in DOMAIN frames : FrameOK(num, low2, less, frames[k])
        <5> SUFFICES ASSUME NEW k \in DOMAIN frames PROVE FrameOK(num, low2, less, frames[k])
          OBVIOUS
        <5>1. FrameOK(num, low2, on, frames[k])  BY <1>11 DEF Chain
        <5>2. frames[k].v \in less  BY <2>6, <3>3 DEF Files
        <5> QED BY <3>3, <5>1, <5>2, FewerOnStack DEF FrameOK
      <4>2. \A u, w : Between(num, low2, on, u, w) => Between(num, low2, less, u, w)
        BY <3>3, FewerOnStack
      <4> QED BY <1>11, <4>1, <4>2 DEF Chain
    <3>14. /\ Numbers(index, Range(stack), Done)'
           /\ Growing(index, stack)'
           /\ Explored(index, Files(Waiting), Done)'
           /\ Linked(index, Range(stack), Files(Waiting))'
           /\ LowIsReached(index, lowlink, Range(stack))'
           /\ Chain(index, lowlink, Range(stack), Waiting)'
      <4>1. Done' = all  BY <3>5
      <4> HIDE DEF all
      <4> QED BY <1>1, <2>4, <3>1, <3>2, <3>6, <3>9, <3>11, <3>12, <3>13, <4>1, HoldsNext DEF less
    <3>15. TarjanTypeOK'
      BY <1>1, <1>14, <1>15, <2>2, <3>1, <3>2, <3>5 DEF TarjanTypeOK, Numberings
    <3>16. Resuming'
      <4> SUFFICES ASSUME frames # <<>>
                   PROVE  LET u == Last(frames).v
                          IN  /\ num[u] < num[v] /\ num[u] < low2[v]
                              /\ \A x \in less : num[u] < num[x] => NoneBelow(num, less, x, low2[u])
        <5>1. Range(stack)' = less  BY <3>1 DEF Range, less
        <5>2. \A x, n : NoneBelow(index, Range(stack), x, n)' <=> NoneBelow(num, less, x, n)
          BY <1>1, <1>15, <5>1 DEF NoneBelow
        <5> QED BY <1>1, <2>2, <2>3, <5>1, <5>2 DEF Resuming, Last
      <4> DEFINE u == Last(frames).v
      <4>1. num[u] < num[v] /\ low2[u] = low[u] /\ Between(num, low, on, u, v)  BY <2>3
      <4>2. ASSUME NEW x \in less, num[u] < num[x] PROVE NoneBelow(num, less, x, low2[u])
        <5>1. NoneBelow(num, on, x, low[u])  BY <3>3, <4>1, <4>2 DEF Between
        <5> QED BY <3>3, <4>1, <5>1, FewerOnStack
      <4> QED BY <1>14, <2>8, <4>1, <4>2
    <3>17. \A u \in C : Reaches(u, v) /\ Reaches(v, u)
      <4> SUFFICES ASSUME NEW u \in C PROVE Reaches(u, v) /\ Reaches(v, u)
        OBVIOUS
      <4>1. u \in on /\ num[v] <= num[u]  BY <3>2
      <4>2. Reaches(v, u)  BY <3>10, <4>1 DEF Linked
      <4>3. PICK p \in Files(frames) \cup {v} : Reaches(u, p)  BY <3>10, <4>1 DEF Linked
      <4>4. num[p] <= num[v]  BY <1>2, <2>6
      <4>5. Reaches(p, v)  BY <1>2, <3>10, <4>4 DEF Linked
      <4> QED BY <4>2, <4>3, <4>5, ReachesOn
    <3>18. ASSUME NEW u \in C PROVE Mutual(u) = C
      <4>1. Done \subseteq Nodes /\ all \subseteq Nodes /\ u \notin Done
        <5>1. Done \subseteq Nodes  BY DEF Done, Range
        <5> QED BY <1>2, <3>3, <3>4, <5>1 DEF Numbers
      <4>2. C \subseteq Mutual(u)
        BY <1>2, <3>3, <3>17, ReachesOn DEF Mutual
      <4>3. ASSUME NEW y \in Mutual(u) PROVE y \in C
        <5>1. y \in Nodes /\ Reaches(y, u) /\ Reaches(u, y)  BY DEF Mutual
        <5>2. y \in all  BY <3>8, <4>1, <5>1, ReachesInside
        <5>3. y \notin Done  BY <3>8, <4>1, <5>1, ReachesInside
        <5> QED BY <5>2, <5>3
      <4> QED BY <4>2, <4>3
    <3>19. Classes'
      <4>1. Classes  BY DEF AtHand
      <4>2. Done \cap C = {}  BY <3>3, <3>4 DEF Numbers
      <4>3. C # {}  BY <3>3
      <4>4. C \in SUBSET Nodes  BY <1>2, <3>3
      <4>5. /\ Range(components') = Range(components) \cup {C}
            /\ DOMAIN components' = 1..Len(components) + 1 /\ DOMAIN components = 1..Len(components)
            /\ Len(components) \in Nat
        BY <3>1, <4>4, Appended
      <4>6. /\ \A k \in 1..Len(components) : components'[k] = components[k]
            /\ components'[Len(components) + 1] = C
        BY <3>1, <4>4, Appended
      <4>7. \A D \in Range(components') : D # {} /\ \A u \in D : Mutual(u) = D
        BY <3>18, <4>1, <4>3, <4>5 DEF Classes
      <4>8. \A k \in DOMAIN components : components[k] \subseteq Done
        BY DEF Done, Range
      <4>9. ASSUME NEW k \in DOMAIN components', NEW l \in DOMAIN components', k # l
            PROVE  components'[k] \cap components'[l] = {}
        <5>1. CASE k \in DOMAIN components /\ l \in DOMAIN components
          BY <4>1, <4>5, <4>6, <4>9, <5>1 DEF Classes
        <5>2. CASE k = Len(components) + 1
          <6>1. l \in DOMAIN components  BY <4>5, <4>9, <5>2
          <6> QED BY <4>2, <4>5, <4>6, <4>8, <5>2, <6>1
        <5>3. CASE l = Len(components) + 1
          <6>1. k \in DOMAIN components  BY <4>5, <4>9, <5>3
          <6> QED BY <4>2, <4>5, <4>6, <4>8, <5>3, <6>1
        <5> QED BY <4>5, <5>1, <5>2, <5>3
      <4> QED BY <1>15, <4>7, <4>9 DEF Classes, Range
    <3> QED BY <2>5, <3>14, <3>15, <3>16, <3>19 DEF TarjanInv
  <2> QED BY <2>7, <2>8
<1> QED BY <1>17, <1>18

-----------------------------------------------------------------------------
(* Before the first root nothing has a number.                             *)
LEMMA InvStarts == TarjanInit(Graphs) => TarjanInv
<1> SUFFICES ASSUME TarjanInit(Graphs) PROVE TarjanInv
  OBVIOUS
<1>1. /\ graph \in Graphs /\ work = <<>> /\ stack = <<>> /\ components = <<>>
      /\ index = [v \in Nodes |-> Unnumbered] /\ lowlink = [v \in Nodes |-> 0]
  BY DEF TarjanInit, Nodes
<1>2. TarjanTypeOK
  BY <1>1 DEF TarjanTypeOK, Numberings
<1>3. /\ Range(stack) = {} /\ Range(components) = {} /\ Done = {} /\ Waiting = <<>> /\ Files(Waiting) = {}
  BY <1>1 DEF Range, Done, Waiting, Files
<1>4. IsFiniteSet(Nodes)  BY <1>1, GraphsAssumption DEF Nodes
<1>5. Numbers(index, Range(stack), Done)
  <2>1. Cardinality({u \in Nodes : index[u] # Unnumbered}) \in Nat
    BY <1>4, FS_Subset, FS_CardinalityType
  <2>2. \A v \in Nodes : index[v] = -1  BY <1>1 DEF Unnumbered
  <2>3. \A v \in Nodes : index[v] < Cardinality({u \in Nodes : index[u] # Unnumbered})
    BY <2>1, <2>2
  <2> QED BY <1>3, <2>2, <2>3 DEF Numbers, Unnumbered
<1>6. Growing(index, stack)  BY <1>1 DEF Growing
<1>7. Explored(index, Files(Waiting), Done)  BY <1>1, <1>3 DEF Explored, Closed
<1>8. Linked(index, Range(stack), Files(Waiting))  BY <1>3 DEF Linked
<1>9. LowIsReached(index, lowlink, Range(stack))  BY <1>3 DEF LowIsReached
<1>10. Chain(index, lowlink, Range(stack), Waiting)  BY <1>3 DEF Chain
<1>11. Entering /\ Resuming  BY <1>1 DEF Entering, Resuming
<1>12. Classes  BY <1>1, <1>3 DEF Classes
<1> QED BY <1>2, <1>5, <1>6, <1>7, <1>8, <1>9, <1>10, <1>11, <1>12 DEF TarjanInv

LEMMA StartKeeps == ASSUME TarjanInv, Start PROVE TarjanInv'
<1>1. PICK v \in Nodes : index[v] = Unnumbered /\ work' = <<Enter(v)>>
  BY DEF Start
<1>2. /\ work = <<>> /\ UNCHANGED <<graph, index, lowlink, stack, components>>
  BY DEF Start
<1>3. /\ Nodes' = Nodes /\ Frames' = Frames
      /\ \A x : Mutual(x)' = Mutual(x)
  BY <1>2, GraphStays DEF Frames
<1>4. /\ Enter(v) \in Frames /\ Enter(v).kind = "enter" /\ Enter(v).v = v /\ Enter(v).next = 1
  BY DEF Enter, Frames
<1>5. Waiting = <<>> /\ Waiting' = <<>> /\ Last(work') = Enter(v) /\ work' # <<>>
  BY <1>1, <1>2, <1>4 DEF Waiting, Last, Front
<1>6. Done' = Done  BY <1>2 DEF Done, Range
<1>7. TarjanTypeOK'
  BY <1>1, <1>2, <1>3, <1>4 DEF TarjanInv, TarjanTypeOK, Numberings
<1>8. /\ Numbers(index, Range(stack), Done)'
      /\ Growing(index, stack)'
      /\ Explored(index, Files(Waiting), Done)'
      /\ Linked(index, Range(stack), Files(Waiting))'
      /\ LowIsReached(index, lowlink, Range(stack))'
      /\ Chain(index, lowlink, Range(stack), Waiting)'
  BY <1>2, <1>5, <1>6, HoldsNext DEF TarjanInv
<1>9. Entering'  BY <1>1, <1>2, <1>4, <1>5 DEF Entering, Last
<1>10. Resuming'  BY <1>4, <1>5 DEF Resuming, Last
<1>11. Classes'  BY <1>2, <1>3 DEF TarjanInv, Classes
<1> QED BY <1>7, <1>8, <1>9, <1>10, <1>11 DEF TarjanInv

(* A file is entered: it is put on the stack with the next number.         *)
LEMMA EnterKeeps == ASSUME TarjanInv, EnterNode PROVE TarjanInv'
<1> DEFINE v      == Last(work).v
           frames == Front(work)
           num    == [index EXCEPT ![v] = Numbered]
           low    == [lowlink EXCEPT ![v] = Numbered]
           st     == Append(stack, v)
           on     == Range(stack)
<1>1. /\ work # <<>> /\ Last(work).kind = "enter"
      /\ Advance(v, Last(work).next, num, low, st, frames)
  BY DEF EnterNode
<1>2. TarjanTypeOK  BY DEF TarjanInv
<1>3. /\ Last(work) \in Frames /\ v \in Nodes /\ Last(work).next \in Nat
      /\ frames \in Seq(Frames)
  <2>1. Last(work) \in Frames /\ Front(work) \in Seq(Frames)
    BY <1>1, <1>2, LastAndFront DEF TarjanTypeOK
  <2> QED BY <2>1 DEF Frames
<1>4. Waiting = frames  BY <1>1 DEF Waiting
<1>5. Last(work).next = 1 /\ index[v] = Unnumbered
  BY <1>1 DEF TarjanInv, Entering
<1>6. Numbered \in Nat /\ \A u \in Nodes : index[u] < Numbered
  <2>1. IsFiniteSet(Nodes)  BY <1>2, GraphsAssumption DEF TarjanTypeOK, Nodes
  <2>2. Numbered \in Nat  BY <2>1, FS_Subset, FS_CardinalityType DEF Numbered
  <2> QED BY <2>2 DEF TarjanInv, Numbers, Numbered
<1>7. num \in Numberings /\ low \in [Nodes -> Nat] /\ st \in Seq(Nodes)
  BY <1>2, <1>3, <1>6 DEF TarjanTypeOK, Numberings
<1>8. Range(st) = on \cup {v} /\ on \subseteq Nodes
  <2>1. Range(st) = on \cup {v}  BY <1>2, <1>3, Appended DEF TarjanTypeOK
  <2>2. on \subseteq Nodes  BY <1>2 DEF TarjanTypeOK, Range
  <2> QED BY <2>1, <2>2
<1>9. /\ \A u \in Nodes \ {v} : num[u] = index[u] /\ low[u] = lowlink[u]
      /\ num[v] = Numbered /\ low[v] = Numbered /\ Numbered # Unnumbered
      /\ \A u \in Nodes : index[u] \in Int
  BY <1>2, <1>3, <1>6 DEF TarjanTypeOK, Numberings, Unnumbered
<1>10. v \notin on /\ v \notin Done
  BY <1>3, <1>5 DEF TarjanInv, Numbers
<1>11. \A u \in on : num[u] = index[u] /\ low[u] = lowlink[u] /\ num[u] < num[v]
  BY <1>6, <1>8, <1>9, <1>10
<1> HIDE DEF num, low, st
<1>12. Numbers(num, Range(st), Done)
  <2>1. Cardinality({u \in Nodes : num[u] # Unnumbered}) = Numbered + 1
    <3>1. {u \in Nodes : num[u] # Unnumbered} = {u \in Nodes : index[u] # Unnumbered} \cup {v}
      BY <1>3, <1>9
    <3>2. IsFiniteSet({u \in Nodes : index[u] # Unnumbered}) /\ v \notin {u \in Nodes : index[u] # Unnumbered}
      <4>1. IsFiniteSet(Nodes)  BY <1>2, GraphsAssumption DEF TarjanTypeOK, Nodes
      <4> QED BY <1>5, <4>1, FS_Subset
    <3> QED BY <3>1, <3>2, FS_AddElement DEF Numbered
  <2>2. Numbers(index, on, Done)  BY DEF TarjanInv
  <2>3. \A u \in Nodes : num[u] < Numbered + 1
    BY <1>6, <1>9
  <2>4. \A u, w \in Nodes : num[u] = num[w] /\ num[u] # Unnumbered => u = w
    BY <1>6, <1>9, <2>2 DEF Numbers
  <2>5. \A u \in Nodes : num[u] # Unnumbered <=> u \in Range(st) \cup Done
    BY <1>8, <1>9, <1>10, <2>2 DEF Numbers
  <2>6. Range(st) \cap Done = {}
    BY <1>8, <1>10, <2>2 DEF Numbers
  <2> QED BY <2>1, <2>3, <2>4, <2>5, <2>6 DEF Numbers
<1>13. Growing(num, st)
  <2>1. /\ DOMAIN stack = 1..Len(stack) /\ DOMAIN st = 1..Len(stack) + 1 /\ Len(stack) \in Nat
        /\ \A k \in 1..Len(stack) : st[k] = stack[k]
    BY <1>2, <1>3, Appended DEF TarjanTypeOK, st
  <2>2. st[Len(stack) + 1] = v
    BY <1>2, <1>3, Appended DEF TarjanTypeOK, st
  <2>3. \A k \in 1..Len(stack) : stack[k] \in on  BY <2>1 DEF Range
  <2>4. Growing(index, stack)  BY DEF TarjanInv
  <2> SUFFICES ASSUME NEW a \in 1..Len(stack) + 1, NEW b \in 1..Len(stack) + 1, a < b
               PROVE  num[st[a]] < num[st[b]]
    BY <2>1 DEF Growing
  <2>5. a \in 1..Len(stack)  BY <2>1
  <2>6. CASE b = Len(stack) + 1  BY <1>11, <2>1, <2>2, <2>3, <2>5, <2>6
  <2>7. CASE b # Len(stack) + 1
    <3>1. b \in 1..Len(stack)  BY <2>1, <2>7
    <3> QED BY <1>11, <2>1, <2>3, <2>4, <2>5, <3>1 DEF Growing
  <2> QED BY <2>6, <2>7
<1>14. Files(frames) \subseteq on  BY <1>4 DEF TarjanInv, Linked
<1>15. Explored(num, Files(frames) \cup {v}, Done)
  <2>1. Explored(index, Files(frames), Done)  BY <1>4 DEF TarjanInv
  <2>2. \A w : w \in Nodes /\ index[w] # Unnumbered => num[w] # Unnumbered  BY <1>9
  <2> QED BY <1>9, <2>1, <2>2 DEF Explored, Succ
<1>16. Linked(num, Range(st), Files(frames) \cup {v})
  <2>1. Linked(index, on, Files(frames))  BY <1>4 DEF TarjanInv
  <2>2. \A p \in Files(frames) : Reaches(p, v)
    <3>1. CASE frames = <<>>  BY <3>1 DEF Files
    <3>2. CASE frames # <<>>
      <4>1. Last(frames) \in Frames /\ Last(frames) = frames[Len(frames)] /\ Len(frames) \in DOMAIN frames
        BY <1>3, <3>2, LastAndFront
      <4>2. Last(frames).from = v  BY <1>1, <1>4, <3>2 DEF TarjanInv, Entering
      <4>3. FrameOK(index, lowlink, on, Last(frames))  BY <1>4, <4>1 DEF TarjanInv, Chain
      <4>4. v \in Succ(Last(frames).v)
        <5>1. Last(frames).v \in Nodes  BY <4>1 DEF Frames
        <5> QED BY <1>2, <4>2, <4>3, <5>1, SuccIsImport DEF FrameOK, TarjanTypeOK
      <4>5. Last(frames).v \in on /\ Last(frames).v \in Files(frames)
        BY <4>1, <4>3 DEF FrameOK, Files
      <4>6. \A p \in Files(frames) : index[p] <= index[Last(frames).v]
        <5>1. \A k \in DOMAIN frames : k < Len(frames) => index[frames[k].v] < index[Last(frames).v]
          BY <1>4, <4>1 DEF TarjanInv, Chain
        <5>2. \A k \in DOMAIN frames : k <= Len(frames) /\ k \in Nat  BY <1>3, FramesAreTyped
        <5>3. Len(frames) \in Nat  BY <1>3, FramesAreTyped
        <5>4. \A k \in DOMAIN frames : frames[k].v \in Nodes  BY <1>3, FramesAreTyped
        <5> QED BY <1>9, <4>1, <5>1, <5>2, <5>3, <5>4 DEF Files
      <4>7. \A p \in Files(frames) : Reaches(p, Last(frames).v)
        BY <2>1, <4>5, <4>6 DEF Linked
      <4> QED BY <4>4, <4>7, ReachesNext, ReachesOn
    <3> QED BY <3>1, <3>2
  <2>3. Files(frames) \cup {v} \subseteq Range(st)  BY <1>8, <1>14
  <2>4. ASSUME NEW u \in Range(st)
        PROVE  \E p \in Files(frames) \cup {v} : num[p] <= num[u] /\ Reaches(u, p)
    <3>1. CASE u = v  BY <1>6, <1>9, <3>1, ReachesItself
    <3>2. CASE u \in on
      <4>1. PICK p \in Files(frames) : index[p] <= index[u] /\ Reaches(u, p)
        BY <2>1, <3>2 DEF Linked
      <4> QED BY <1>11, <1>14, <3>2, <4>1
    <3> QED BY <1>8, <3>1, <3>2
  <2>5. ASSUME NEW p \in Files(frames) \cup {v}, NEW u \in Range(st), num[p] <= num[u]
        PROVE  Reaches(p, u)
    <3>1. CASE u = v  BY <2>2, <3>1, ReachesItself
    <3>2. CASE u \in on
      <4>1. p # v
        <5>1. num[u] \in Int /\ num[v] \in Int  BY <1>6, <1>8, <1>9, <1>11, <3>2
        <5> QED BY <1>11, <2>5, <3>2, <5>1
      <4> QED BY <1>11, <1>14, <2>1, <2>5, <3>2, <4>1 DEF Linked
    <3> QED BY <1>8, <3>1, <3>2
  <2> QED BY <2>3, <2>4, <2>5 DEF Linked
<1>17. LowIsReached(num, low, Range(st))
  <2>1. LowIsReached(index, lowlink, on)  BY DEF TarjanInv
  <2> SUFFICES ASSUME NEW u \in Range(st)
               PROVE  low[u] <= num[u] /\ \E x \in Range(st) : num[x] = low[u] /\ Reaches(u, x)
    BY DEF LowIsReached
  <2>2. CASE u = v  BY <1>6, <1>8, <1>9, <2>2, ReachesItself
  <2>3. CASE u \in on  BY <1>8, <1>11, <2>1, <2>3 DEF LowIsReached
  <2> QED BY <1>8, <2>2, <2>3
(* What was said of the stack is said of it with v on top, as v's number   *)
(* is above every low link.                                                *)
<1>18. \A u \in on : lowlink[u] <= num[v] /\ lowlink[u] \in Nat
  <2>1. \A u \in on : lowlink[u] <= index[u] /\ lowlink[u] \in Nat
    BY <1>2, <1>8 DEF TarjanInv, LowIsReached, TarjanTypeOK
  <2> QED BY <1>6, <1>8, <1>9, <1>11, <2>1
<1>19. ASSUME NEW x \in on, NEW u \in on, NoneBelow(index, on, x, lowlink[u])
       PROVE  NoneBelow(num, Range(st), x, low[u])
  BY <1>8, <1>11, <1>18, <1>19 DEF NoneBelow
<1>20. ASSUME NEW u \in on, NEW w \in on, Between(index, lowlink, on, u, w)
       PROVE  Between(num, low, Range(st), u, w)
  <2> SUFFICES ASSUME NEW x \in Range(st), num[u] < num[x], num[x] < num[w]
               PROVE  NoneBelow(num, Range(st), x, low[u])
    BY DEF Between
  <2>1. x \in on
    <3>1. num[w] \in Int /\ num[v] \in Int  BY <1>6, <1>8, <1>9, <1>11
    <3> QED BY <1>8, <1>11, <3>1
  <2>2. NoneBelow(index, on, x, lowlink[u])  BY <1>11, <1>20, <2>1 DEF Between
  <2> QED BY <1>19, <2>1, <2>2
<1>21. Chain(num, low, Range(st), frames)
  <2>1. Chain(index, lowlink, on, frames)  BY <1>4 DEF TarjanInv
  <2>2. \A k \in DOMAIN frames : frames[k].v \in on  BY <1>14 DEF Files
  <2>3. ASSUME NEW k \in DOMAIN frames PROVE FrameOK(num, low, Range(st), frames[k])
    <3> DEFINE f == frames[k]
    <3>1. FrameOK(index, lowlink, on, f) /\ f.v \in on  BY <2>1, <2>2 DEF Chain
    <3> HIDE DEF f
    <3>2. Walked(num, Range(st), f.v, f.next - 2, low[f.v])
      <4> SUFFICES ASSUME NEW j \in Adj(f.v), j <= f.next - 2
                   PROVE  /\ num[graph[f.v][j]] # Unnumbered
                          /\ graph[f.v][j] \in Range(st) => low[f.v] <= num[graph[f.v][j]]
        BY DEF Walked
      <4>1. graph[f.v][j] \in Nodes  BY DEF Adj
      <4>2. /\ index[graph[f.v][j]] # Unnumbered
            /\ graph[f.v][j] \in on => lowlink[f.v] <= index[graph[f.v][j]]
        BY <3>1 DEF FrameOK, Walked
      <4> QED BY <1>5, <1>8, <1>9, <1>11, <3>1, <4>1, <4>2
    <3>3. FrameOK(num, low, Range(st), f)  BY <1>8, <3>1, <3>2 DEF FrameOK
    <3> QED BY <3>3 DEF f
  <2>4. \A k, l \in DOMAIN frames : k < l => num[frames[k].v] < num[frames[l].v]
    BY <1>11, <2>1, <2>2 DEF Chain
  <2>5. \A k \in DOMAIN frames : k + 1 \in DOMAIN frames =>
            /\ frames[k].from = frames[k + 1].v
            /\ Between(num, low, Range(st), frames[k].v, frames[k + 1].v)
    BY <1>20, <2>1, <2>2 DEF Chain
  <2> QED BY <2>3, <2>4, <2>5 DEF Chain
<1>22. AtHand(v, 1, num, low, st, frames)
  <2>1. v \in Range(st)  BY <1>8
  <2>2. \A k \in DOMAIN frames : num[frames[k].v] < num[v]
    BY <1>11, <1>14 DEF Files
  <2>3. ASSUME frames # <<>>
        PROVE  Last(frames).from = v /\ Between(num, low, Range(st), Last(frames).v, v)
    <3>1. /\ Last(frames).from = v
          /\ \A x \in on : index[Last(frames).v] < index[x] => NoneBelow(index, on, x, lowlink[Last(frames).v])
      BY <1>1, <1>4, <2>3 DEF TarjanInv, Entering
    <3>2. Last(frames).v \in on
      <4>1. Last(frames) = frames[Len(frames)] /\ Len(frames) \in DOMAIN frames
        BY <1>3, <2>3, LastAndFront
      <4> QED BY <1>14, <4>1 DEF Files
    <3>3. ASSUME NEW x \in Range(st), num[Last(frames).v] < num[x], num[x] < num[v]
          PROVE  NoneBelow(num, Range(st), x, low[Last(frames).v])
      <4>1. x \in on
        <5>1. num[v] \in Int  BY <1>6, <1>9
        <5> QED BY <1>8, <3>3, <5>1
      <4> QED BY <1>11, <1>19, <3>1, <3>2, <3>3, <4>1
    <3> QED BY <3>1, <3>3 DEF Between
  <2>4. Walked(num, Range(st), v, 0, low[v])
    <3>1. \A j \in Adj(v) : ~(j <= 0)  BY <1>2, <1>3, SuccIsImport DEF TarjanTypeOK
    <3> QED BY <3>1 DEF Walked
  <2>5. \A x \in Range(st) : ~(num[v] < num[x])
    <3>1. \A x \in Range(st) : num[x] \in Int  BY <1>6, <1>8, <1>9, <1>11
    <3> QED BY <1>8, <1>11, <3>1
  <2>6. Classes  BY DEF TarjanInv
  <2> QED BY <1>12, <1>13, <1>15, <1>16, <1>17, <1>21, <2>1, <2>2, <2>3, <2>4, <2>5, <2>6 DEF AtHand
<1>23. Advance(v, 1, num, low, st, frames)  BY <1>1, <1>5
<1> HIDE DEF v, frames
<1> QED BY <1>2, <1>3, <1>7, <1>22, <1>23, AdvanceKeeps DEF TarjanTypeOK

(* A file is resumed: it takes the low link of the file it waited for.     *)
LEMMA ResumeKeeps == ASSUME TarjanInv, ResumeNode PROVE TarjanInv'
<1> DEFINE v      == Last(work).v
           w      == Last(work).from
           i      == Last(work).next
           frames == Front(work)
           n      == IF lowlink[w] < lowlink[v] THEN lowlink[w] ELSE lowlink[v]
           low    == [lowlink EXCEPT ![v] = n]
           on     == Range(stack)
<1>1. /\ work # <<>> /\ Last(work).kind = "resume"
      /\ Advance(v, i, index, low, stack, frames)
  BY DEF ResumeNode
<1>2. TarjanTypeOK  BY DEF TarjanInv
<1>3. /\ Last(work) \in Frames /\ v \in Nodes /\ w \in Nodes /\ i \in Nat
      /\ frames \in Seq(Frames)
  <2>1. Last(work) \in Frames /\ Front(work) \in Seq(Frames)
    BY <1>1, <1>2, LastAndFront DEF TarjanTypeOK
  <2> QED BY <2>1 DEF Frames
<1>4. Waiting = work  BY <1>1 DEF Waiting
<1>5. /\ Len(work) \in DOMAIN work /\ Last(work) = work[Len(work)]
      /\ DOMAIN work = 1..Len(work) /\ Len(work) \in Nat
      /\ DOMAIN frames = 1..Len(work) - 1 /\ Len(frames) = Len(work) - 1
      /\ \A k \in DOMAIN frames : frames[k] = work[k] /\ k \in DOMAIN work /\ k < Len(work)
  <2>1. DOMAIN work = 1..Len(work) /\ Len(work) \in Nat  BY <1>2, FramesAreTyped DEF TarjanTypeOK
  <2>2. Len(work) \in DOMAIN work /\ Last(work) = work[Len(work)]
    BY <1>1, <1>2, LastAndFront DEF TarjanTypeOK
  <2>3. DOMAIN frames = 1..Len(work) - 1 /\ Len(frames) = Len(work) - 1
    BY <1>1, <1>2, LastAndFront DEF TarjanTypeOK
  <2>4. \A k \in 1..Len(work) - 1 : frames[k] = work[k]
    BY <1>1, <1>2, LastAndFront DEF TarjanTypeOK
  <2> QED BY <2>1, <2>2, <2>3, <2>4
<1>6. Chain(index, lowlink, on, work)  BY <1>4 DEF TarjanInv
<1>7. /\ v \in on /\ i - 1 \in Adj(v) /\ w = graph[v][i - 1]
      /\ Walked(index, on, v, i - 2, lowlink[v])
  <2>1. FrameOK(index, lowlink, on, Last(work))  BY <1>5, <1>6 DEF Chain
  <2> QED BY <2>1 DEF FrameOK
<1>8. /\ index[v] < index[w] /\ (w \in on \/ index[v] < lowlink[w])
      /\ \A x \in on : index[v] < index[x] =>
            NoneBelow(index, on, x, lowlink[v]) \/ (w \in on /\ NoneBelow(index, on, x, lowlink[w]))
  BY <1>1 DEF TarjanInv, Resuming
<1>9. /\ on \subseteq Nodes
      /\ \A x \in on : x \in Nodes /\ index[x] \in Nat /\ index[x] # Unnumbered
  <2>1. on \subseteq Nodes  BY <1>2 DEF TarjanTypeOK, Range
  <2>2. Numbers(index, on, Done) /\ index \in Numberings  BY <1>2 DEF TarjanInv, TarjanTypeOK
  <2> HIDE DEF on
  <2> QED BY <2>1, <2>2, StackIsNumbered
<1>10. LowIsReached(index, lowlink, on)  BY DEF TarjanInv
<1>11. /\ n \in Nat /\ n <= lowlink[v] /\ n <= lowlink[w] /\ lowlink[v] <= index[v] /\ n <= index[v]
       /\ lowlink[v] \in Nat /\ lowlink[w] \in Nat
  <2>1. lowlink \in [Nodes -> Nat]  BY <1>2 DEF TarjanTypeOK
  <2>2. lowlink[v] \in Nat /\ lowlink[w] \in Nat
    <3> HIDE DEF v, w
    <3> QED BY <1>3, <2>1
  <2>3. v \in on /\ index[v] \in Nat  BY <1>7, <1>9
  <2>4. lowlink[v] <= index[v]
    <3> HIDE DEF v, on
    <3> QED BY <1>10, <2>3 DEF LowIsReached
  <2> HIDE DEF v, w, on
  <2> QED BY <2>2, <2>3, <2>4
<1>12. w \in Succ(v)  BY <1>2, <1>3, <1>7, SuccIsImport DEF TarjanTypeOK
<1>13. n = lowlink[v] \/ \E x \in on : n = index[x] /\ Reaches(v, x)
  <2> SUFFICES ASSUME n # lowlink[v] PROVE \E x \in on : n = index[x] /\ Reaches(v, x)
    OBVIOUS
  <2>1. n = lowlink[w] /\ lowlink[w] < lowlink[v]  OBVIOUS
  <2>2. w \in on  BY <1>8, <1>9, <1>7, <1>11, <2>1
  <2>3. PICK x \in on : index[x] = lowlink[w] /\ Reaches(w, x)  BY <1>10, <2>2 DEF LowIsReached
  <2> QED BY <1>12, <2>1, <2>3, ReachesNext, ReachesOn
<1> HIDE DEF n
<1>14. low \in [Nodes -> Nat] /\ low[v] = n
  BY <1>2, <1>3, <1>11 DEF TarjanTypeOK
<1>15. LowIsReached(index, low, on)
  <2>1. index \in Numberings /\ lowlink \in [Nodes -> Nat] /\ graph \in Graphs
    BY <1>2 DEF TarjanTypeOK
  <2> HIDE DEF on, v
  <2> QED BY <1>7, <1>9, <1>10, <1>11, <1>13, <2>1, LowersToReached
<1>16. \A k \in DOMAIN frames : index[frames[k].v] < index[v]
  BY <1>5, <1>6 DEF Chain
<1>17. Chain(index, lowlink, on, frames)
  <2>1. \A k \in DOMAIN frames : k + 1 \in DOMAIN frames => k + 1 \in DOMAIN work
    BY <1>5
  <2> QED BY <1>5, <1>6, <2>1 DEF Chain
<1>18. Chain(index, low, on, frames)
  <2>1. index \in Numberings /\ lowlink \in [Nodes -> Nat]  BY <1>2 DEF TarjanTypeOK
  <2>2. low = [lowlink EXCEPT ![v] = n]  OBVIOUS
  <2> HIDE DEF on, v, low, frames
  <2> QED BY <1>3, <1>9, <1>11, <1>16, <1>17, <2>1, <2>2, ChainBelow
<1>19. Files(work) = Files(frames) \cup {v}
  BY <1>5 DEF Files
<1>20. /\ Explored(index, Files(frames) \cup {v}, Done)
       /\ Linked(index, on, Files(frames) \cup {v})
       /\ Numbers(index, on, Done) /\ Growing(index, stack) /\ Classes
  BY <1>4, <1>19 DEF TarjanInv
<1>21. ASSUME frames # <<>>
       PROVE  Last(frames).from = v /\ Between(index, low, on, Last(frames).v, v)
  <2>1. /\ Len(frames) \in DOMAIN frames /\ Last(frames) = frames[Len(frames)]
        /\ Len(frames) + 1 = Len(work)
    <3>1. Len(frames) \in DOMAIN frames
      BY <1>3, <1>21, LastAndFront
    <3>2. Last(frames) = frames[Len(frames)]
      BY <1>3, <1>21, LastAndFront
    <3> HIDE DEF frames
    <3> QED BY <1>5, <3>1, <3>2
  <2>2. Last(frames) = work[Len(frames)] /\ Len(frames) \in DOMAIN work /\ work[Len(frames) + 1] = Last(work)
    BY <1>5, <2>1
  <2>3. Last(frames).from = v /\ Between(index, lowlink, on, Last(frames).v, v)
    BY <1>5, <1>6, <2>1, <2>2 DEF Chain
  <2>4. low[Last(frames).v] = lowlink[Last(frames).v]
    <3>1. Last(frames).v # v
      BY <1>7, <1>9, <1>16, <2>1
    <3> QED BY <1>2, <1>3, <3>1 DEF TarjanTypeOK
  <2> QED BY <2>3, <2>4 DEF Between
<1>22. Walked(index, on, v, i - 1, low[v])
  <2> SUFFICES ASSUME NEW j \in Adj(v), j <= i - 1
               PROVE  index[graph[v][j]] # Unnumbered /\ (graph[v][j] \in on => n <= index[graph[v][j]])
    BY <1>14 DEF Walked
  <2>1. j \in Nat /\ graph[v][j] \in Nodes  BY <1>2, <1>3, SuccIsImport DEF TarjanTypeOK
  <2>2. CASE j = i - 1
    <3>1. graph[v][j] = w /\ index[v] \in Nat  BY <1>7, <1>9, <2>2
    <3>2. index[w] # Unnumbered  BY <1>8, <3>1 DEF Unnumbered
    <3>3. w \in on => n <= index[w]  BY <1>8, <1>9, <1>11, <3>1
    <3> QED BY <3>1, <3>2, <3>3
  <2>3. CASE j <= i - 2
    <3>1. index[graph[v][j]] # Unnumbered /\ (graph[v][j] \in on => lowlink[v] <= index[graph[v][j]])
      BY <1>7, <2>3 DEF Walked
    <3> QED BY <1>9, <1>11, <3>1
  <2> QED BY <1>3, <2>1, <2>2, <2>3
<1>23. ASSUME NEW x \in on, index[v] < index[x] PROVE NoneBelow(index, on, x, low[v])
  <2>1. NoneBelow(index, on, x, lowlink[v]) \/ NoneBelow(index, on, x, lowlink[w])
    BY <1>8, <1>23
  <2>2. \A y \in on : lowlink[v] <= index[y] \/ lowlink[w] <= index[y] => n <= index[y]
    BY <1>9, <1>11
  <2> QED BY <1>14, <2>1, <2>2 DEF NoneBelow
<1>24. AtHand(v, i, index, low, stack, frames)
  BY <1>7, <1>15, <1>16, <1>18, <1>20, <1>21, <1>22, <1>23 DEF AtHand
<1>25. /\ graph \in Graphs /\ components \in Seq(SUBSET Nodes) /\ index \in Numberings
       /\ stack \in Seq(Nodes)
  BY <1>2 DEF TarjanTypeOK
<1> HIDE DEF v, i, low, frames
<1> QED BY <1>1, <1>3, <1>14, <1>24, <1>25, AdvanceKeeps

-----------------------------------------------------------------------------
(* Between any two frames: what is on the stack reaches the path and is    *)
(* reached from it, low links are numbers of files reached, and what has   *)
(* left the stack is in the component of its class (deps/scc.rs).          *)
THEOREM TarjanInvariant == TarjanSpec => []TarjanInv
<1>1. TarjanInit(Graphs) => TarjanInv  BY InvStarts
<1>2. TarjanInv /\ [TarjanNext]_tvars => TarjanInv'
  <2> SUFFICES ASSUME TarjanInv, [TarjanNext]_tvars PROVE TarjanInv'
    OBVIOUS
  <2>1. CASE Start  BY <2>1, StartKeeps
  <2>2. CASE EnterNode  BY <2>2, EnterKeeps
  <2>3. CASE ResumeNode  BY <2>3, ResumeKeeps
  <2>4. CASE UNCHANGED tvars
    <3>1. /\ UNCHANGED <<graph, work, index, lowlink, stack, components>>
      BY <2>4 DEF tvars
    <3>2. /\ Nodes' = Nodes /\ Frames' = Frames
          /\ \A x : Succ(x)' = Succ(x)
          /\ \A x : Mutual(x)' = Mutual(x)
      BY <3>1, GraphStays DEF Frames
    <3>3. Waiting' = Waiting /\ Done' = Done  BY <3>1 DEF Waiting, Done, Range
    <3>4. /\ Numbers(index, Range(stack), Done)'
          /\ Growing(index, stack)'
          /\ Explored(index, Files(Waiting), Done)'
          /\ Linked(index, Range(stack), Files(Waiting))'
          /\ LowIsReached(index, lowlink, Range(stack))'
          /\ Chain(index, lowlink, Range(stack), Waiting)'
      BY <3>1, <3>3, HoldsNext DEF TarjanInv
    <3>5. \A x, n : NoneBelow(index, Range(stack), x, n)' <=> NoneBelow(index, Range(stack), x, n)
      BY <3>1, <3>2 DEF NoneBelow, Range
    <3>6. Entering'  BY <3>1, <3>3, <3>5 DEF TarjanInv, Entering, Range
    <3>7. Resuming'  BY <3>1, <3>5 DEF TarjanInv, Resuming, Range
    <3>8. TarjanTypeOK' /\ Classes'
      BY <3>1, <3>2 DEF TarjanInv, TarjanTypeOK, Numberings, Classes
    <3> QED BY <3>4, <3>6, <3>7, <3>8 DEF TarjanInv
  <2> QED BY <2>1, <2>2, <2>3, <2>4 DEF TarjanNext
<1> QED BY <1>1, <1>2, PTL DEF TarjanSpec


-----------------------------------------------------------------------------
(* At the end nothing is on the stack, so every file is in a component.    *)
LEMMA AllDone ==
  ASSUME TarjanInv, Finished
  PROVE  Range(components) = {Mutual(v) : v \in Nodes}
<1>1. Files(Waiting) = {}
  <2>1. Waiting = <<>>  BY DEF Waiting, Finished
  <2> QED BY <2>1 DEF Files
<1>2. Range(stack) = {}
  <2>1. Linked(index, Range(stack), Files(Waiting))  BY DEF TarjanInv
  <2> QED BY <1>1, <2>1 DEF Linked
<1>3. Nodes \subseteq Done
  <2>1. Numbers(index, Range(stack), Done)  BY DEF TarjanInv
  <2> QED BY <1>2, <2>1 DEF Numbers, Finished
<1>4. \A C \in Range(components) : C # {} /\ C \subseteq Nodes /\ \A u \in C : Mutual(u) = C
  <2>1. \A C \in Range(components) : C # {} /\ \A u \in C : Mutual(u) = C
    BY DEF TarjanInv, Classes
  <2>2. \A C \in Range(components) : C \subseteq Nodes
    BY DEF TarjanInv, TarjanTypeOK, Range
  <2> QED BY <2>1, <2>2
<1>5. ASSUME NEW C \in Range(components) PROVE C \in {Mutual(v) : v \in Nodes}
  <2>1. PICK u \in C : TRUE  BY <1>4
  <2> QED BY <1>4, <2>1
<1>6. ASSUME NEW v \in Nodes PROVE Mutual(v) \in Range(components)
  <2>1. PICK C \in Range(components) : v \in C  BY <1>3 DEF Done
  <2> QED BY <1>4, <2>1
<1> QED BY <1>5, <1>6

(* No component is found twice.                                            *)
LEMMA NoneTwice ==
  ASSUME TarjanInv
  PROVE  Exactly(components, Range(components))
<1> DEFINE m == Len(components)
<1>1. m \in Nat /\ DOMAIN components = 1..m
  BY DEF TarjanInv, TarjanTypeOK
<1>2. components \in [1..m -> Range(components)]
  BY <1>1 DEF TarjanInv, TarjanTypeOK, Range
<1>3. ASSUME NEW a \in 1..m, NEW b \in 1..m, components[a] = components[b] PROVE a = b
  <2>1. components[a] # {}  BY <1>1 DEF TarjanInv, Classes, Range
  <2>2. a # b => components[a] \cap components[b] = {}  BY <1>1 DEF TarjanInv, Classes
  <2> QED BY <1>3, <2>1, <2>2
<1>4. components \in Bijection(1..m, Range(components))
  <2>1. components \in Injection(1..m, Range(components))  BY <1>2, <1>3 DEF Injection, IsInjective
  <2>2. components \in Surjection(1..m, Range(components))
    BY <1>1, <1>2 DEF Surjection, Range
  <2> QED BY <2>1, <2>2 DEF Bijection
<1>5. IsFiniteSet(1..m) /\ Cardinality(1..m) = m
  <2>1. m \in Int /\ 1 \in Int  BY <1>1
  <2>2. IsFiniteSet(1..m) /\ Cardinality(1..m) = IF 1 > m THEN 0 ELSE m - 1 + 1
    <3> HIDE DEF m
    <3> QED BY <2>1, FS_Interval
  <2> HIDE DEF m
  <2> QED BY <1>1, <2>2
<1>6. Cardinality(Range(components)) = m
  BY <1>4, <1>5, FS_Bijection DEF ExistsBijection
<1> QED BY <1>6 DEF Exactly

(* A class holds its file, and is that file alone when it holds one.       *)
LEMMA SizeOfClass ==
  ASSUME graph \in Graphs, NEW v \in Nodes
  PROVE  /\ v \in Mutual(v) /\ Cardinality(Mutual(v)) \in Nat
         /\ Cardinality(Mutual(v)) >= 2 \/ Mutual(v) = {v}
         /\ Cardinality(Mutual(v)) >= 2 <=> Cardinality(Mutual(v)) > 1
<1>1. v \in Mutual(v)  BY ReachesItself DEF Mutual
<1>2. IsFiniteSet(Nodes) /\ Mutual(v) \in SUBSET Nodes
  BY GraphsAssumption DEF Nodes, Mutual
<1>3. IsFiniteSet(Mutual(v))  BY <1>2, FS_Subset
<1>4. Cardinality(Mutual(v)) \in Nat  BY <1>3, FS_CardinalityType
<1>5. Cardinality(Mutual(v)) # 0  BY <1>1, <1>3, FS_EmptySet
<1>6. Cardinality(Mutual(v)) = 1 => Mutual(v) = {v}
  <2>1. Cardinality(Mutual(v)) = 1 => \E x : Mutual(v) = {x}  BY <1>3, FS_Singleton
  <2> QED BY <1>1, <2>1
<1> QED BY <1>1, <1>4, <1>5, <1>6

(* The cycles reported are the classes of several files, and the files     *)
(* that import themselves.                                                 *)
LEMMA CyclesAreClasses ==
  ASSUME TarjanInv, Finished
  PROVE  Cycles(2) = {Mutual(v) : v \in {u \in Nodes :
                        Cardinality(Mutual(u)) > 1 \/ u \in Range(graph[u])}}
<1> DEFINE wanted == {u \in Nodes : Cardinality(Mutual(u)) > 1 \/ u \in Range(graph[u])}
<1>1. graph \in Graphs  BY DEF TarjanInv, TarjanTypeOK
<1>2. Range(components) = {Mutual(v) : v \in Nodes}  BY AllDone
<1>3. ASSUME NEW C \in Cycles(2) PROVE C \in {Mutual(v) : v \in wanted}
  <2>1. PICK v \in Nodes : C = Mutual(v)  BY <1>2, <1>3 DEF Cycles
  <2>2. CASE Cardinality(C) >= 2
    BY <1>1, <2>1, <2>2, SizeOfClass
  <2>3. CASE \E u \in C : C = {u} /\ u \in Range(graph[u])
    <3>1. v \in C  BY <1>1, <2>1, SizeOfClass
    <3>2. v \in Range(graph[v])  BY <2>3, <3>1
    <3> QED BY <2>1, <3>2
  <2> QED BY <2>2, <2>3 DEF Cycles
<1>4. ASSUME NEW v \in wanted PROVE Mutual(v) \in Cycles(2)
  <2>1. Mutual(v) \in Range(components)  BY <1>2
  <2>2. v \in Mutual(v) /\ (Cardinality(Mutual(v)) >= 2 \/ Mutual(v) = {v})
    BY <1>1, SizeOfClass
  <2>3. Cardinality(Mutual(v)) > 1 => Cardinality(Mutual(v)) >= 2
    BY <1>1, SizeOfClass
  <2> QED BY <2>1, <2>2, <2>3 DEF Cycles
<1> QED BY <1>3, <1>4

(* When the search has ended, whatever the graph, the components are the   *)
(* classes of files that reach each other, each found once, and the cycles *)
(* reported are those of two files or more and the files that import       *)
(* themselves (deps/scc.rs).                                               *)
THEOREM ComponentsAreClasses == TarjanSpec => []SccsAreCycles
<1>1. TarjanInv => SccsAreCycles
  <2> SUFFICES ASSUME TarjanInv, Finished PROVE SccsAreCycles
    BY DEF SccsAreCycles
  <2> DEFINE class == [v \in Nodes |-> Mutual(v)]
  <2>1. Range(class) = {Mutual(v) : v \in Nodes}  BY DEF Range
  <2>2. Range(components) = Range(class)  BY <2>1, AllDone
  <2>3. Exactly(components, Range(class))  BY <2>2, NoneTwice
  <2>4. Cycles(2) = {class[v] : v \in {u \in Nodes :
                        Cardinality(class[u]) > 1 \/ u \in Range(graph[u])}}
    BY CyclesAreClasses
  <2> QED BY <2>3, <2>4 DEF SccsAreCycles
<1> QED BY <1>1, TarjanInvariant, PTL

-----------------------------------------------------------------------------
(* Chunks.                                                                 *)

Pieces == [start : Nat, end : Nat]
Chunks == [start : Nat, end : Nat, startLine : Nat, endLine : Nat]

ChunkTypeOK ==
    /\ source \in Sources
    /\ stage \in {"split", "pack", "done"}
    /\ scanned \in 0..Len(source.ends)
    /\ points \in Seq(Nat)
    /\ packed \in Nat
    /\ piece \in Pieces
    /\ pushed \in Seq(Chunks)

(* Split points grow, and lie where a declaration or the source ends.      *)
Ascending(ps) == \A a, b \in DOMAIN ps : a < b => ps[a] < ps[b]

SplitsFit ==
    /\ points # <<>> /\ points[1] = 0 /\ Ascending(points)
    /\ \A a \in DOMAIN points : points[a] \in Cuts \cup {0, source.size}

(* The ends looked at are among them, the last point is one of those; and  *)
(* in the end all places to cut are.                                       *)
SplitsSoFar ==
    /\ \A i \in 1..scanned : source.ends[i] < source.size =>
            \E a \in DOMAIN points : points[a] = source.ends[i]
    /\ Last(points) = 0 \/ \E i \in 1..scanned : Last(points) = source.ends[i]

AllSplit ==
    /\ \A c \in Cuts : \E a \in DOMAIN points : points[a] = c
    /\ Last(points) = source.size

(* A piece goes from one split point to another, and over the limit only   *)
(* to the next.                                                            *)
Spans(ps, c, a, b) ==
    /\ c.start = ps[a] /\ c.end = ps[b]
    /\ c.end - c.start > MaxChars => b = a + 1

IsPiece(ps, c) == \E a, b \in DOMAIN ps : a < b /\ Spans(ps, c, a, b)

(* What begins at a byte does not fit into a chunk that ends there.        *)
NoRoom(ps, c, start) ==
    c.end = start => \A a \in DOMAIN ps : a + 1 \in DOMAIN ps /\ ps[a] = start =>
                        ps[a + 1] - c.start > MaxChars

(* Chunks that cover what is before a byte.                                *)
CoverUpTo(s, ps, cs, end) ==
    /\ \A i \in DOMAIN cs : IsPiece(ps, cs[i]) /\ cs[i].end <= end
    /\ \A i \in DOMAIN cs : cs[i].startLine = LineOf(s, cs[i].start) /\ cs[i].endLine = LineOf(s, cs[i].end - 1)
    /\ \A i, k \in DOMAIN cs : i < k => cs[i].end <= cs[k].start
    /\ \A b \in 0..end - 1 \ s.blank : \E i \in DOMAIN cs : cs[i].start <= b /\ b < cs[i].end
    /\ \A i \in DOMAIN cs \ {1} : NoRoom(ps, cs[i - 1], cs[i].start)

Packing ==
    /\ packed \in 0..Len(points) - 1
    /\ packed = 0 => piece.start = 0 /\ piece.end = 0 /\ pushed = <<>>
    /\ packed > 0 => \E a \in 1..packed : Spans(points, piece, a, packed + 1)
    /\ CoverUpTo(source, points, pushed, piece.start)
    /\ pushed # <<>> => NoRoom(points, Last(pushed), piece.start)

ChunkInv ==
    /\ ChunkTypeOK
    /\ IF Blank(0, source.size) THEN stage = "done" /\ pushed = <<>>
       ELSE /\ SplitsFit
            /\ stage = "split" => SplitsSoFar /\ packed = 0 /\ piece = [start |-> 0, end |-> 0] /\ pushed = <<>>
            /\ stage # "split" => AllSplit
            /\ stage = "pack" => Packing
            /\ stage = "done" => CoverUpTo(source, points, pushed, source.size)

(* Sequences.                                                              *)
LEMMA LastOf ==
    ASSUME NEW S, NEW s \in Seq(S), s # <<>>
    PROVE  Last(s) = s[Len(s)] /\ Len(s) \in DOMAIN s /\ Len(s) \in Nat \ {0} /\ Last(s) \in S
BY DEF Last

LEMMA PointAppended ==
    ASSUME NEW S, NEW s \in Seq(S), NEW x \in S
    PROVE  /\ Append(s, x) \in Seq(S) /\ Append(s, x) # <<>> /\ Last(Append(s, x)) = x
           /\ Len(Append(s, x)) = Len(s) + 1 /\ DOMAIN Append(s, x) = DOMAIN s \cup {Len(s) + 1}
           /\ \A i \in DOMAIN s : Append(s, x)[i] = s[i]
           /\ Append(s, x)[Len(s) + 1] = x
BY DEF Last

LEMMA SourceFacts ==
    ASSUME source \in Sources
    PROVE  /\ MaxChars \in Nat /\ source.size \in Nat /\ source.ends \in Seq(Nat)
           /\ \A i \in DOMAIN source.ends : source.ends[i] \in Nat
           /\ \A i, k \in DOMAIN source.ends : i < k => source.ends[i] <= source.ends[k]
           /\ source.newlines \subseteq Nat /\ IsFiniteSet(source.newlines)
           /\ Cuts \subseteq Nat /\ \A c \in Cuts : c < source.size
BY SourcesAssumption DEF Cuts, Range

LEMMA LineOfIsNat ==
    ASSUME source \in Sources, NEW b \in Int
    PROVE  LineOf(source, b) \in Nat
<1>1. IsFiniteSet({n \in source.newlines : n < b})
  BY SourceFacts, FS_Subset
<1> QED BY <1>1, FS_CardinalityType DEF LineOf

LEMMA ChunkInvInit == ChunkInit(Sources) => ChunkInv
<1> SUFFICES ASSUME ChunkInit(Sources) PROVE ChunkInv
  OBVIOUS
<1>1. source \in Sources /\ points = <<0>> /\ scanned = 0 /\ packed = 0
      /\ piece = [start |-> 0, end |-> 0] /\ pushed = <<>>
      /\ stage = IF Blank(0, source.size) THEN "done" ELSE "split"
  BY DEF ChunkInit
<1>2. ChunkTypeOK
  BY <1>1, SourceFacts DEF ChunkTypeOK, Pieces
<1>3. SplitsFit /\ SplitsSoFar
  BY <1>1 DEF SplitsFit, SplitsSoFar, Ascending, Last
<1> QED BY <1>1, <1>2, <1>3 DEF ChunkInv

-----------------------------------------------------------------------------
(* Split points.                                                           *)
LEMMA AscendingAppend ==
    ASSUME NEW ps \in Seq(Nat), ps # <<>>, Ascending(ps), NEW e \in Nat, e > Last(ps)
    PROVE  Ascending(Append(ps, e))
<1> DEFINE qs == Append(ps, e)
<1>1. \A a \in DOMAIN ps : ps[a] <= Last(ps)
  BY LastOf DEF Ascending
<1>2. DOMAIN qs = DOMAIN ps \cup {Len(ps) + 1} /\ (\A i \in DOMAIN ps : qs[i] = ps[i]) /\ qs[Len(ps) + 1] = e
  BY PointAppended
<1>3. Last(ps) \in Nat /\ \A a \in DOMAIN ps : ps[a] \in Nat /\ a \in Nat /\ a <= Len(ps)
  BY LastOf
<1> HIDE DEF qs
<1>4. Ascending(qs)
  <2> SUFFICES ASSUME NEW a \in DOMAIN qs, NEW b \in DOMAIN qs, a < b PROVE qs[a] < qs[b]
    BY DEF Ascending
  <2>1. a \in DOMAIN ps
    BY <1>2, <1>3
  <2>2. CASE b \in DOMAIN ps
    BY <1>2, <2>1, <2>2 DEF Ascending
  <2>3. CASE b = Len(ps) + 1
    BY <1>1, <1>2, <1>3, <2>1, <2>3
  <2> QED BY <1>2, <2>2, <2>3
<1> QED BY <1>4 DEF qs

LEMMA SplitsFitAppend ==
    ASSUME ChunkTypeOK, SplitsFit, NEW e \in Nat, e > Last(points), e \in Cuts \cup {source.size},
           points' = Append(points, e), UNCHANGED source
    PROVE  SplitsFit'
<1>1. points # <<>> /\ points \in Seq(Nat)
  BY DEF SplitsFit, ChunkTypeOK
<1>2. /\ points' # <<>> /\ DOMAIN points' = DOMAIN points \cup {Len(points) + 1}
      /\ (\A i \in DOMAIN points : points'[i] = points[i]) /\ points'[Len(points) + 1] = e
  BY <1>1, PointAppended
<1>3. Ascending(points')
  BY <1>1, AscendingAppend DEF SplitsFit
<1>4. 1 \in DOMAIN points
  BY <1>1
<1>5. Cuts' = Cuts /\ source' = source
  BY DEF Cuts
<1>6. \A a \in DOMAIN points' : points'[a] \in Cuts \cup {0, source.size}
  BY <1>2 DEF SplitsFit
<1>7. points'[1] = 0
  BY <1>2, <1>4 DEF SplitsFit
<1> QED BY <1>2, <1>3, <1>5, <1>6, <1>7 DEF SplitsFit

LEMMA SplitAfterStep ==
    ASSUME ChunkInv, SplitAfter
    PROVE  ChunkInv'
<1> DEFINE e == source.ends[scanned + 1]
<1>1. /\ stage = "split" /\ stage' = "split" /\ scanned < Len(source.ends) /\ scanned' = scanned + 1
      /\ source' = source /\ packed' = packed /\ piece' = piece /\ pushed' = pushed
      /\ points' = IF e > Last(points) /\ e <= source.size THEN Append(points, e) ELSE points
  BY DEF SplitAfter
<1>2. ChunkTypeOK /\ ~Blank(0, source.size) /\ SplitsFit /\ SplitsSoFar
  BY <1>1 DEF ChunkInv
<1>3. scanned \in Nat /\ scanned + 1 \in DOMAIN source.ends /\ e \in Nat /\ points \in Seq(Nat) /\ points # <<>>
      /\ \A i \in 1..scanned : i \in DOMAIN source.ends /\ source.ends[i] <= e /\ source.ends[i] \in Nat
  <2>1. scanned \in Nat /\ points \in Seq(Nat) /\ points # <<>> /\ source \in Sources
    BY <1>2 DEF ChunkTypeOK, SplitsFit
  <2>2. source.ends \in Seq(Nat) /\ \A i, k \in DOMAIN source.ends : i < k => source.ends[i] <= source.ends[k]
    BY <2>1, SourceFacts
  <2>3. scanned + 1 \in DOMAIN source.ends /\ \A i \in 1..scanned : i \in DOMAIN source.ends /\ i < scanned + 1
    BY <1>1, <2>1, <2>2
  <2>4. e \in Nat
    BY <2>2, <2>3
  <2>5. ASSUME NEW i \in 1..scanned
        PROVE  i \in DOMAIN source.ends /\ source.ends[i] <= e /\ source.ends[i] \in Nat
    <3>1. i \in DOMAIN source.ends /\ i < scanned + 1
      BY <2>3
    <3> QED BY <3>1, <2>2, <2>3
  <2> QED BY <2>1, <2>3, <2>4, <2>5
<1>4. e < source.size => e \in Cuts
  BY <1>3 DEF Cuts, Range
<1> HIDE DEF e
<1>5. source.size \in Nat /\ Last(points) \in Nat /\ Len(points) \in DOMAIN points /\ Last(points) = points[Len(points)]
  BY <1>2, <1>3, SourceFacts, LastOf DEF ChunkTypeOK
<1>6. ChunkTypeOK'
  BY <1>1, <1>2, <1>3, PointAppended DEF ChunkTypeOK
<1>7. 1..scanned' = 1..scanned \cup {scanned + 1}
  BY <1>1, <1>3
<1>8. CASE e > Last(points) /\ e <= source.size
  <2>1. points' = Append(points, e)
    BY <1>1, <1>8
  <2>2. SplitsFit'
    BY <1>1, <1>2, <1>3, <1>4, <1>5, <1>8, <2>1, SplitsFitAppend
  <2>3. /\ DOMAIN points' = DOMAIN points \cup {Len(points) + 1} /\ Last(points') = e
        /\ (\A i \in DOMAIN points : points'[i] = points[i]) /\ points'[Len(points) + 1] = e
    BY <1>3, <2>1, PointAppended
  <2>4. \A i \in 1..scanned' : source.ends[i] < source.size => \E a \in DOMAIN points' : points'[a] = source.ends[i]
    BY <1>2, <1>7, <2>3 DEF SplitsSoFar, e
  <2>5. SplitsSoFar'
    BY <1>1, <1>7, <2>3, <2>4 DEF SplitsSoFar, e
  <2> QED BY <1>1, <1>2, <1>6, <2>2, <2>5 DEF ChunkInv, Blank
<1>9. CASE ~(e > Last(points) /\ e <= source.size)
  <2>1. points' = points
    BY <1>1, <1>9
  <2>2. SplitsFit'
    BY <1>1, <1>2, <2>1 DEF SplitsFit, Cuts
  <2>3. e < source.size => points[Len(points)] = e
    <3> SUFFICES ASSUME e < source.size PROVE Last(points) = e
      BY <1>5
    <3>1. e <= Last(points)
      BY <1>3, <1>5, <1>9
    <3>2. CASE Last(points) = 0
      BY <1>3, <3>1, <3>2
    <3>3. CASE \E i \in 1..scanned : Last(points) = source.ends[i]
      <4>1. Last(points) <= e
        BY <1>3, <3>3
      <4> QED BY <1>3, <1>5, <3>1, <4>1
    <3> QED BY <1>2, <3>2, <3>3 DEF SplitsSoFar
  <2>4. \A i \in 1..scanned' : source.ends[i] < source.size => \E a \in DOMAIN points : points[a] = source.ends[i]
    <3> SUFFICES ASSUME NEW i \in 1..scanned', source.ends[i] < source.size
                 PROVE  \E a \in DOMAIN points : points[a] = source.ends[i]
      OBVIOUS
    <3>1. CASE i \in 1..scanned
      BY <1>2, <3>1 DEF SplitsSoFar
    <3>2. CASE i = scanned + 1
      BY <1>5, <2>3, <3>2 DEF e
    <3> QED BY <1>7, <3>1, <3>2
  <2>5. SplitsSoFar'
    BY <1>1, <1>2, <1>7, <2>1, <2>4 DEF SplitsSoFar
  <2> QED BY <1>1, <1>2, <1>6, <2>2, <2>5 DEF ChunkInv, Blank
<1> QED BY <1>8, <1>9

LEMMA SplitAtEndStep ==
    ASSUME ChunkInv, SplitAtEnd
    PROVE  ChunkInv'
<1>1. /\ stage = "split" /\ stage' = "pack" /\ scanned = Len(source.ends) /\ scanned' = scanned
      /\ source' = source /\ packed' = packed /\ piece' = piece /\ pushed' = pushed
      /\ points' = IF Last(points) < source.size THEN Append(points, source.size) ELSE points
  BY DEF SplitAtEnd
<1>2. ChunkTypeOK /\ ~Blank(0, source.size) /\ SplitsFit /\ SplitsSoFar
      /\ packed = 0 /\ piece = [start |-> 0, end |-> 0] /\ pushed = <<>>
  BY <1>1 DEF ChunkInv
<1>3. points \in Seq(Nat) /\ points # <<>> /\ source.size \in Nat
      /\ Last(points) \in Nat /\ Len(points) \in DOMAIN points /\ Last(points) = points[Len(points)]
  BY <1>2, SourceFacts, LastOf DEF ChunkTypeOK, SplitsFit
<1>4. ChunkTypeOK'
  BY <1>1, <1>2, <1>3, PointAppended DEF ChunkTypeOK
<1>5. \A c \in Cuts : \E a \in DOMAIN points : points[a] = c
  <2> SUFFICES ASSUME NEW c \in Cuts PROVE \E a \in DOMAIN points : points[a] = c
    OBVIOUS
  <2>1. PICK i \in DOMAIN source.ends : c = source.ends[i] /\ c < source.size
    BY DEF Cuts, Range
  <2>2. i \in 1..scanned
    BY <1>1, <1>2, SourceFacts DEF ChunkTypeOK
  <2> QED BY <1>2, <2>1, <2>2 DEF SplitsSoFar
<1>6. Last(points) <= source.size
  <2>1. Last(points) \in Cuts \cup {0, source.size}
    BY <1>2, <1>3 DEF SplitsFit
  <2>2. \A c \in Cuts : c <= source.size
    BY <1>2, <1>3, SourceFacts DEF ChunkTypeOK
  <2> QED BY <1>3, <2>1, <2>2
<1>7. SplitsFit' /\ AllSplit'
  <2>1. CASE Last(points) < source.size
    <3>1. points' = Append(points, source.size)
      BY <1>1, <2>1
    <3>2. SplitsFit'
      BY <1>1, <1>2, <1>3, <2>1, <3>1, SplitsFitAppend
    <3>3. /\ DOMAIN points' = DOMAIN points \cup {Len(points) + 1} /\ Last(points') = source.size
          /\ \A i \in DOMAIN points : points'[i] = points[i]
      BY <1>3, <3>1, PointAppended
    <3>4. AllSplit'
      BY <1>1, <1>5, <3>3 DEF AllSplit, Cuts
    <3> QED BY <3>2, <3>4
  <2>2. CASE Last(points) = source.size
    <3>1. points' = points
      BY <1>1, <1>3, <2>2
    <3> QED BY <1>1, <1>2, <1>5, <2>2, <3>1 DEF SplitsFit, AllSplit, Cuts
  <2> QED BY <1>3, <1>6, <2>1, <2>2
<1>8. Packing'
  <2>1. packed' = 0 /\ piece'.start = 0 /\ piece'.end = 0 /\ pushed' = <<>>
    BY <1>1, <1>2
  <2>2. Len(points') \in Nat /\ Len(points') # 0
    BY <1>4, <1>7 DEF ChunkTypeOK, SplitsFit
  <2>3. 0..0 - 1 = {}
    OBVIOUS
  <2>4. CoverUpTo(source, points, pushed, piece.start)'
    BY <2>1, <2>3 DEF CoverUpTo
  <2> QED BY <2>1, <2>2, <2>4 DEF Packing
<1> QED BY <1>1, <1>2, <1>4, <1>7, <1>8 DEF ChunkInv, Blank

-----------------------------------------------------------------------------
(* Packing.                                                                *)

(* A piece that is not empty is pushed, or it is blank: what came before   *)
(* it is covered, and so is it.                                            *)
LEMMA PushCovers ==
    ASSUME ChunkTypeOK, CoverUpTo(source, points, pushed, piece.start), IsPiece(points, piece), piece.start < piece.end,
           pushed # <<>> => NoRoom(points, Last(pushed), piece.start)
    PROVE  /\ PushChunk \in Seq(Chunks) /\ CoverUpTo(source, points, PushChunk, piece.end)
           /\ PushChunk # <<>> /\ Last(PushChunk).end = piece.end => Last(PushChunk).start = piece.start
<1> DEFINE c == [start |-> piece.start, end |-> piece.end,
                 startLine |-> LineOf(source, piece.start), endLine |-> LineOf(source, piece.end - 1)]
           s == piece.start
           e == piece.end
           n == Len(pushed)
<1>1. s \in Nat /\ e \in Nat /\ pushed \in Seq(Chunks) /\ s < e
  BY DEF ChunkTypeOK, Pieces
<1>2. c.start = s /\ c.end = e /\ c.startLine = LineOf(source, s) /\ c.endLine = LineOf(source, e - 1) /\ c \in Chunks
  <2>1. source \in Sources /\ s \in Int /\ e - 1 \in Int
    BY <1>1 DEF ChunkTypeOK
  <2> HIDE DEF s, e
  <2>2. LineOf(source, s) \in Nat /\ LineOf(source, e - 1) \in Nat
    BY <2>1, LineOfIsNat
  <2>3. c = [start |-> s, end |-> e, startLine |-> LineOf(source, s), endLine |-> LineOf(source, e - 1)]
    BY DEF s, e
  <2> QED BY <1>1, <2>2, <2>3 DEF Chunks
<1>3. PushChunk = IF Blank(s, e) THEN pushed ELSE Append(pushed, c)
  BY DEF PushChunk
<1>4. \A i \in DOMAIN pushed : IsPiece(points, pushed[i]) /\ pushed[i].end <= s /\ pushed[i].end \in Nat
  <2>1. \A i \in DOMAIN pushed : IsPiece(points, pushed[i]) /\ pushed[i].end <= piece.start
    BY DEF CoverUpTo
  <2>2. \A i \in DOMAIN pushed : pushed[i] \in Chunks
    BY <1>1
  <2> QED BY <2>1, <2>2 DEF Chunks
<1>5. n \in Nat /\ DOMAIN pushed = 1..n
  BY <1>1
<1>6. IsPiece(points, c)
  BY <1>2 DEF IsPiece, Spans
<1> HIDE DEF s, e, c, n
<1>7. CASE Blank(s, e)
  <2>1. PushChunk = pushed
    BY <1>3, <1>7
  <2>2. \A b \in 0..e - 1 \ source.blank : b \in 0..s - 1
    BY <1>1, <1>7 DEF Blank
  <2>3. \A i \in DOMAIN pushed : pushed[i].end <= e
    BY <1>1, <1>4
  <2>4. CoverUpTo(source, points, pushed, e)
    BY <2>2, <2>3 DEF CoverUpTo, s
  <2>5. pushed # <<>> => Last(pushed).end # e
    BY <1>1, <1>4, LastOf
  <2> QED BY <1>1, <2>1, <2>4, <2>5 DEF e
<1>8. CASE ~Blank(s, e)
  <2> DEFINE cs == Append(pushed, c)
  <2>1. PushChunk = cs
    BY <1>3, <1>8
  <2>2. /\ cs \in Seq(Chunks) /\ cs # <<>> /\ Last(cs) = c /\ DOMAIN cs = 1..n \cup {n + 1}
        /\ (\A i \in 1..n : cs[i] = pushed[i]) /\ cs[n + 1] = c
    BY <1>1, <1>2, <1>5, PointAppended DEF n
  <2> HIDE DEF cs
  <2>3. \A i \in DOMAIN cs : IsPiece(points, cs[i]) /\ cs[i].end <= e
    BY <1>1, <1>2, <1>4, <1>5, <1>6, <2>2
  <2>4. \A i \in DOMAIN cs : cs[i].startLine = LineOf(source, cs[i].start) /\ cs[i].endLine = LineOf(source, cs[i].end - 1)
    BY <1>2, <1>5, <2>2 DEF CoverUpTo
  <2>5. ASSUME NEW i \in DOMAIN cs, NEW k \in DOMAIN cs, i < k PROVE cs[i].end <= cs[k].start
    <3>1. i \in 1..n
      BY <1>5, <2>2, <2>5
    <3>2. CASE k = n + 1
      BY <1>2, <1>4, <1>5, <2>2, <3>1, <3>2
    <3>3. CASE k \in 1..n
      BY <1>5, <2>2, <2>5, <3>1, <3>3 DEF CoverUpTo
    <3> QED BY <2>2, <3>2, <3>3
  <2>6. ASSUME NEW b \in 0..e - 1 \ source.blank PROVE \E i \in DOMAIN cs : cs[i].start <= b /\ b < cs[i].end
    <3>1. CASE b < s
      <4>1. b \in 0..s - 1 \ source.blank
        BY <1>1, <3>1
      <4>2. PICK i \in DOMAIN pushed : pushed[i].start <= b /\ b < pushed[i].end
        BY <4>1 DEF CoverUpTo, s
      <4> QED BY <1>5, <2>2, <4>2
    <3>2. CASE s <= b
      BY <1>1, <1>2, <2>2, <3>2
    <3> QED BY <1>1, <3>1, <3>2
  <2>7. ASSUME NEW i \in DOMAIN cs \ {1} PROVE NoRoom(points, cs[i - 1], cs[i].start)
    <3>1. CASE i = n + 1
      <4>1. n # 0 /\ i - 1 = n
        BY <1>5, <2>7, <3>1
      <4>2. pushed # <<>> /\ Last(pushed) = pushed[n]
        BY <1>1, <1>5, <4>1 DEF Last, n
      <4>3. cs[i - 1] = Last(pushed) /\ cs[i].start = s
        BY <1>2, <1>5, <2>2, <3>1, <4>1, <4>2
      <4> QED BY <4>2, <4>3 DEF s
    <3>2. CASE i \in 1..n
      <4>1. i - 1 \in 1..n /\ i \in DOMAIN pushed \ {1}
        BY <1>5, <2>7, <3>2
      <4>2. cs[i - 1] = pushed[i - 1] /\ cs[i] = pushed[i]
        BY <2>2, <3>2, <4>1
      <4> QED BY <4>1, <4>2 DEF CoverUpTo
    <3> QED BY <2>2, <3>1, <3>2
  <2>8. CoverUpTo(source, points, cs, e)
    BY <2>3, <2>4, <2>5, <2>6, <2>7 DEF CoverUpTo
  <2> QED BY <1>2, <2>1, <2>2, <2>8 DEF e, s
<1> QED BY <1>7, <1>8

LEMMA PackRegionStep ==
    ASSUME ChunkInv, PackRegion
    PROVE  ChunkInv'
<1> DEFINE region == [start |-> points[packed + 1], end |-> points[packed + 2]]
           empty == piece.end = piece.start
<1>1. /\ stage = "pack" /\ stage' = "pack" /\ packed + 1 < Len(points) /\ packed' = packed + 1
      /\ source' = source /\ scanned' = scanned /\ points' = points
      /\ IF ~empty /\ Fits(region)
         THEN piece' = [piece EXCEPT !.end = region.end] /\ pushed' = pushed
         ELSE piece' = region /\ pushed' = IF empty THEN pushed ELSE PushChunk
  BY DEF PackRegion
<1>2. ChunkTypeOK /\ ~Blank(0, source.size) /\ SplitsFit /\ AllSplit /\ Packing
  BY <1>1 DEF ChunkInv
<1>3. /\ packed \in Nat /\ points \in Seq(Nat) /\ MaxChars \in Nat
      /\ piece = [start |-> piece.start, end |-> piece.end] /\ piece.start \in Nat /\ piece.end \in Nat
  BY <1>2, SourceFacts DEF ChunkTypeOK, Pieces
<1>4. /\ packed + 1 \in DOMAIN points /\ packed + 2 \in DOMAIN points
      /\ points[packed + 1] \in Nat /\ points[packed + 2] \in Nat
      /\ points[packed + 1] < points[packed + 2]
  BY <1>1, <1>2, <1>3 DEF SplitsFit, Ascending
<1>5. region.start = points[packed + 1] /\ region.end = points[packed + 2] /\ region \in Pieces
  BY <1>4 DEF Pieces
<1>6. packed > 0 => piece.start < piece.end /\ piece.end = region.start /\ IsPiece(points, piece)
                    /\ \E a \in 1..packed : piece.start = points[a]
  <2> SUFFICES ASSUME packed > 0
               PROVE  piece.start < piece.end /\ piece.end = region.start /\ IsPiece(points, piece)
                      /\ \E a \in 1..packed : piece.start = points[a]
    OBVIOUS
  <2>1. PICK a \in 1..packed : Spans(points, piece, a, packed + 1)
    BY <1>2 DEF Packing
  <2>2. a \in DOMAIN points /\ a < packed + 1
    BY <1>3, <1>4
  <2>3. piece.start = points[a] /\ piece.end = points[packed + 1]
    BY <2>1 DEF Spans
  <2>4. points[a] < points[packed + 1]
    BY <1>2, <1>4, <2>2 DEF SplitsFit, Ascending
  <2> QED BY <1>4, <1>5, <2>1, <2>2, <2>3, <2>4 DEF IsPiece
<1>7. packed = 0 => empty /\ piece.start = 0 /\ piece.end = 0 /\ pushed = <<>> /\ region.start = 0
  BY <1>2, <1>5 DEF Packing, SplitsFit
<1>8. packed' \in 0..Len(points') - 1 /\ packed' > 0
  BY <1>1, <1>3
<1> HIDE DEF region
<1>9. CASE ~empty /\ Fits(region)
  <2>1. piece' = [start |-> piece.start, end |-> region.end] /\ pushed' = pushed /\ packed > 0
    BY <1>1, <1>3, <1>7, <1>9
  <2>2. PICK a \in 1..packed : piece.start = points[a]
    BY <1>6, <2>1
  <2>3. piece'.start = piece.start /\ piece'.end = points[packed + 2] /\ piece' \in Pieces
    BY <1>3, <1>4, <1>5, <2>1 DEF Pieces
  <2>4. ~(piece'.end - piece'.start > MaxChars)
    BY <1>3, <1>4, <1>5, <1>6, <1>9, <2>1, <2>3 DEF Fits
  <2>5. Spans(points, piece, a, packed + 1)'
    BY <1>1, <1>3, <2>2, <2>3, <2>4 DEF Spans
  <2>6. a \in 1..packed'
    BY <1>1, <1>3
  <2>7. CoverUpTo(source, points, pushed, piece.start)' /\ (pushed # <<>> => NoRoom(points, Last(pushed), piece.start))'
    BY <1>1, <1>2, <2>1, <2>3 DEF Packing
  <2>8. Packing'
    BY <1>8, <2>5, <2>6, <2>7 DEF Packing
  <2>9. ChunkTypeOK'
    BY <1>1, <1>2, <1>3, <2>1, <2>3 DEF ChunkTypeOK
  <2> QED BY <1>1, <1>2, <2>8, <2>9 DEF ChunkInv, SplitsFit, AllSplit, Cuts, Blank
<1>10. CASE ~(~empty /\ Fits(region))
  <2>1. piece' = region /\ pushed' = IF empty THEN pushed ELSE PushChunk
    BY <1>1, <1>10
  <2>2. Spans(points', piece', packed + 1, packed + 2)
    BY <1>1, <1>3, <1>5, <2>1 DEF Spans
  <2>3. packed + 1 \in 1..packed' /\ packed' + 1 = packed + 2
    BY <1>1, <1>3
  <2>4. ASSUME packed = 0
        PROVE  pushed' \in Seq(Chunks) /\ CoverUpTo(source, points, pushed, piece.start)'
               /\ (pushed # <<>> => NoRoom(points, Last(pushed), piece.start))'
    <3>1. pushed' = <<>> /\ piece'.start = 0
      BY <1>7, <2>1, <2>4
    <3>2. 0..0 - 1 = {}
      OBVIOUS
    <3>3. CoverUpTo(source, points, pushed, piece.start)' /\ (pushed # <<>> => NoRoom(points, Last(pushed), piece.start))'
      BY <3>1, <3>2 DEF CoverUpTo
    <3>4. pushed' \in Seq(Chunks)
      BY <3>1
    <3> QED BY <3>3, <3>4
  <2>5. ASSUME packed # 0
        PROVE  pushed' \in Seq(Chunks) /\ CoverUpTo(source, points, pushed, piece.start)'
               /\ (pushed # <<>> => NoRoom(points, Last(pushed), piece.start))'
    <3>1. pushed' = PushChunk /\ packed > 0 /\ ~Fits(region)
      BY <1>3, <1>6, <1>10, <2>1, <2>5
    <3>2. /\ pushed' \in Seq(Chunks) /\ CoverUpTo(source, points, PushChunk, piece.end)
          /\ pushed' # <<>> /\ Last(pushed').end = piece.end => Last(pushed').start = piece.start
      BY <1>2, <1>6, <3>1, PushCovers DEF Packing
    <3>3. CoverUpTo(source, points, pushed, piece.start)'
      <4>1. source' = source /\ points' = points /\ piece'.start = piece.end
        BY <1>1, <1>6, <2>1, <3>1
      <4> QED BY <3>1, <3>2, <4>1
    <3>4. (pushed # <<>> => NoRoom(points, Last(pushed), piece.start))'
      <4> SUFFICES ASSUME pushed' # <<>>, Last(pushed').end = region.start, NEW a \in DOMAIN points,
                          a + 1 \in DOMAIN points, points[a] = region.start
                   PROVE  points[a + 1] - Last(pushed').start > MaxChars
        BY <1>1, <2>1 DEF NoRoom
      <4>1. Last(pushed').start = piece.start
        BY <1>6, <3>1, <3>2
      <4>2. a = packed + 1
        <5>1. ~(points[a] < points[packed + 1]) /\ ~(points[packed + 1] < points[a])
          BY <1>4, <1>5
        <5>2. Ascending(points)
          BY <1>2 DEF SplitsFit
        <5>3. ~(a < packed + 1) /\ ~(packed + 1 < a)
          BY <1>4, <5>1, <5>2 DEF Ascending
        <5>4. a \in Nat
          BY <1>3
        <5> QED BY <1>3, <5>3, <5>4
      <4>3. piece.end - piece.start + region.end - region.start > MaxChars
        BY <1>3, <1>4, <1>5, <3>1 DEF Fits
      <4>4. points[a + 1] = region.end
        BY <1>3, <1>5, <4>2
      <4> QED BY <1>3, <1>4, <1>5, <1>6, <3>1, <4>1, <4>3, <4>4
    <3> QED BY <3>2, <3>3, <3>4
  <2>6. Packing'
    <3>1. CoverUpTo(source, points, pushed, piece.start)' /\ (pushed # <<>> => NoRoom(points, Last(pushed), piece.start))'
      BY <2>4, <2>5
    <3> QED BY <1>8, <2>2, <2>3, <3>1 DEF Packing
  <2>7. ChunkTypeOK'
    <3>1. pushed' \in Seq(Chunks)
      BY <2>4, <2>5
    <3> QED BY <1>1, <1>2, <1>3, <1>5, <2>1, <3>1 DEF ChunkTypeOK
  <2> QED BY <1>1, <1>2, <2>6, <2>7 DEF ChunkInv, SplitsFit, AllSplit, Cuts, Blank
<1> QED BY <1>9, <1>10

LEMMA PushLastStep ==
    ASSUME ChunkInv, PushLast
    PROVE  ChunkInv'
<1>1. /\ stage = "pack" /\ stage' = "done" /\ packed + 1 = Len(points) /\ packed' = packed
      /\ source' = source /\ scanned' = scanned /\ points' = points /\ piece' = piece
      /\ pushed' = IF piece.end > piece.start THEN PushChunk ELSE pushed
  BY DEF PushLast
<1>2. ChunkTypeOK /\ ~Blank(0, source.size) /\ SplitsFit /\ AllSplit /\ Packing
  BY <1>1 DEF ChunkInv
<1>3. packed \in Nat /\ points \in Seq(Nat) /\ points # <<>> /\ source.size \in Nat /\ source.size # 0
  <2>1. packed \in Nat /\ points \in Seq(Nat) /\ points # <<>> /\ source.size \in Nat
    BY <1>2, SourceFacts DEF ChunkTypeOK, SplitsFit
  <2> QED BY <1>2, <2>1 DEF Blank
<1>4. Last(points) = points[packed + 1] /\ points[packed + 1] = source.size /\ packed + 1 \in DOMAIN points
  BY <1>1, <1>2, <1>3, LastOf DEF AllSplit
<1>5. packed > 0
  BY <1>2, <1>3, <1>4 DEF SplitsFit
<1>6. PICK a \in 1..packed : Spans(points, piece, a, packed + 1)
  BY <1>2, <1>5 DEF Packing
<1>7. a \in DOMAIN points /\ a < packed + 1
  BY <1>3, <1>4
<1>8. piece.start = points[a] /\ piece.end = source.size /\ piece.start < piece.end /\ IsPiece(points, piece)
  BY <1>2, <1>4, <1>6, <1>7 DEF Spans, IsPiece, SplitsFit, Ascending
<1>9. pushed' = PushChunk
  BY <1>1, <1>2, <1>8 DEF ChunkTypeOK, Pieces
<1>10. PushChunk \in Seq(Chunks) /\ CoverUpTo(source, points, PushChunk, piece.end)
  BY <1>2, <1>8, PushCovers DEF Packing
<1>11. ChunkTypeOK'
  BY <1>1, <1>2, <1>9, <1>10 DEF ChunkTypeOK
<1>12. CoverUpTo(source, points, pushed, source.size)'
  BY <1>1, <1>8, <1>9, <1>10
<1> QED BY <1>1, <1>2, <1>11, <1>12 DEF ChunkInv, SplitsFit, AllSplit, Cuts, Blank

LEMMA ChunkInvNext == ChunkInv /\ [ChunkNext]_chunkVars => ChunkInv'
<1>1. ChunkInv /\ UNCHANGED chunkVars => ChunkInv'
  BY DEF ChunkInv, chunkVars, ChunkTypeOK, Blank, SplitsFit, SplitsSoFar, AllSplit, Packing, Cuts
<1> QED BY <1>1, SplitAfterStep, SplitAtEndStep, PackRegionStep, PushLastStep DEF ChunkNext

-----------------------------------------------------------------------------
(* What it means in the end.                                               *)

LEMMA LinesOfChunk ==
    ASSUME source \in Sources, NEW a \in Nat, NEW b \in Nat, a < b
    PROVE  /\ LineOf(source, b - 1) - LineOf(source, a) = Cardinality(source.newlines \cap a..(b - 2))
           /\ LineOf(source, a) = Cardinality(source.newlines \cap 0..(a - 1)) + 1
<1> DEFINE N == source.newlines
           A == {n \in N : n < a}
           B == {n \in N : n < b - 1}
           C == N \cap a..(b - 2)
<1>1. N \subseteq Nat /\ IsFiniteSet(N)
  BY SourceFacts
<1>2. A \subseteq N /\ B \subseteq N /\ C \subseteq N
  OBVIOUS
<1>3. IsFiniteSet(A) /\ IsFiniteSet(B) /\ IsFiniteSet(C)
  BY <1>1, <1>2, FS_Subset
<1>4. A \cup C = B /\ A \cap C = {}
  BY <1>1
<1>5. A = N \cap 0..(a - 1)
  BY <1>1
<1> HIDE DEF A, B, C, N
<1>6. Cardinality(A) \in Nat /\ Cardinality(B) \in Nat /\ Cardinality(C) \in Nat /\ Cardinality(A \cap C) = 0
  BY <1>3, <1>4, FS_CardinalityType, FS_EmptySet
<1>7. Cardinality(B) = Cardinality(A) + Cardinality(C)
  <2>1. Cardinality(A \cup C) = Cardinality(A) + Cardinality(C) - Cardinality(A \cap C)
    BY <1>3, FS_Union
  <2>2. Cardinality(A \cup C) = Cardinality(B) /\ Cardinality(A \cap C) = 0
    BY <1>4, <1>6
  <2>3. \A m, n \in Nat : m + n - 0 = m + n
    OBVIOUS
  <2> QED BY <1>6, <2>1, <2>2, <2>3
<1>8. LineOf(source, b - 1) = Cardinality(B) + 1 /\ LineOf(source, a) = Cardinality(A) + 1
  BY DEF LineOf, A, B, N
<1> QED BY <1>5, <1>6, <1>7, <1>8 DEF C, N

LEMMA ChunkInvCovers == ChunkInv => ChunksCover
<1> SUFFICES ASSUME ChunkInv, stage = "done" PROVE ChunksCover
  BY DEF ChunksCover
<1>1. CASE Blank(0, source.size)
  <2>1. pushed = <<>> /\ 0..source.size - 1 \ source.blank = {}
    BY <1>1 DEF ChunkInv, Blank
  <2> QED BY <2>1 DEF ChunksCover
<1>2. CASE ~Blank(0, source.size)
  <2>1. ChunkTypeOK /\ SplitsFit /\ AllSplit /\ CoverUpTo(source, points, pushed, source.size)
    BY <1>2 DEF ChunkInv
  <2>2. source \in Sources /\ points \in Seq(Nat) /\ MaxChars \in Nat /\ pushed \in Seq(Chunks) /\ source.size \in Nat
    BY <2>1, SourceFacts DEF ChunkTypeOK
  <2>3. \A a \in DOMAIN points : a \in Nat /\ points[a] \in Nat
    BY <2>2
  <2>4. \A a, b \in DOMAIN points : points[a] < points[b] <=> a < b
    BY <2>1, <2>3 DEF SplitsFit, Ascending
  <2>5. ASSUME NEW i \in DOMAIN pushed, NEW c, c = pushed[i]
        PROVE  \E a, b \in DOMAIN points : /\ a < b /\ c.start = points[a] /\ c.end = points[b]
                                           /\ c.end - c.start > MaxChars => b = a + 1
    BY <2>1, <2>5 DEF CoverUpTo, IsPiece, Spans
  <2>6. ASSUME NEW i \in DOMAIN pushed, NEW c, c = pushed[i]
        PROVE  /\ {c.start, c.end} \subseteq Cuts \cup {0, source.size} /\ c.start < c.end
               /\ c.end - c.start > MaxChars => Cuts \cap (c.start + 1)..(c.end - 1) = {}
               /\ c.endLine - c.startLine = Cardinality(source.newlines \cap c.start..(c.end - 2))
               /\ c.startLine = Cardinality(source.newlines \cap 0..(c.start - 1)) + 1
    <3>1. PICK a \in DOMAIN points, b \in DOMAIN points :
               /\ a < b /\ c.start = points[a] /\ c.end = points[b]
               /\ c.end - c.start > MaxChars => b = a + 1
      BY <2>5, <2>6
    <3>2. c.start \in Nat /\ c.end \in Nat /\ c.start < c.end
      BY <2>3, <2>4, <3>1
    <3>3. {c.start, c.end} \subseteq Cuts \cup {0, source.size}
      BY <2>1, <3>1 DEF SplitsFit
    <3>4. c.startLine = LineOf(source, c.start) /\ c.endLine = LineOf(source, c.end - 1)
      BY <2>1, <2>6 DEF CoverUpTo
    <3>5. ASSUME b = a + 1, NEW e \in Cuts \cap (c.start + 1)..(c.end - 1) PROVE FALSE
      <4>1. PICK d \in DOMAIN points : points[d] = e
        BY <2>1 DEF AllSplit
      <4>2. points[a] < points[d] /\ points[d] < points[b]
        BY <3>1, <3>2, <4>1
      <4>3. a < d /\ d < b
        BY <2>4, <4>2
      <4> QED BY <2>3, <3>5, <4>3
    <3> QED BY <2>2, <3>1, <3>2, <3>3, <3>4, <3>5, LinesOfChunk
  <2>7. ASSUME NEW i \in DOMAIN pushed \ {1}, pushed[i].start = pushed[i - 1].end,
               NEW e \in Cuts \cup {source.size}, e > pushed[i].start
        PROVE  e - pushed[i - 1].start > MaxChars
    <3>1. PICK a \in DOMAIN points, b \in DOMAIN points : a < b /\ pushed[i].start = points[a]
      BY <2>5
    <3>2. PICK d \in DOMAIN points : points[d] = e
      <4>1. Last(points) = points[Len(points)] /\ Len(points) \in DOMAIN points
        BY <2>1, <2>2, LastOf DEF SplitsFit
      <4> QED BY <2>1, <4>1 DEF AllSplit
    <3>3. a < d /\ a + 1 \in DOMAIN points /\ a + 1 <= d
      BY <2>2, <2>3, <2>4, <2>7, <3>1, <3>2
    <3>4. points[a + 1] <= e
      BY <2>3, <2>4, <3>2, <3>3
    <3>5. points[a + 1] - pushed[i - 1].start > MaxChars
      BY <2>1, <2>7, <3>1, <3>3 DEF CoverUpTo, NoRoom
    <3>6. i - 1 \in DOMAIN pushed
      BY <2>2
    <3>7. pushed[i - 1] \in Chunks
      BY <2>2, <3>6
    <3>8. pushed[i - 1].start \in Nat
      BY <3>7 DEF Chunks
    <3>9. points[a + 1] \in Nat /\ e \in Nat
      BY <2>3, <3>2, <3>3
    <3>10. \A x, y, z, m \in Nat : y <= z /\ y - x > m => z - x > m
      OBVIOUS
    <3> QED BY <2>2, <3>4, <3>5, <3>8, <3>9, <3>10
  <2>8. \A b \in 0..source.size - 1 \ source.blank : \E i \in DOMAIN pushed : pushed[i].start <= b /\ b < pushed[i].end
    BY <2>1 DEF CoverUpTo
  <2>9. \A i, k \in DOMAIN pushed : i < k => pushed[i].end <= pushed[k].start
    BY <2>1 DEF CoverUpTo
  <2> QED BY <2>6, <2>7, <2>8, <2>9 DEF ChunksCover
<1> QED BY <1>1, <1>2

(***************************************************************************)
(* For every source whose declarations lie one behind the other, and every *)
(* limit: each byte that is no white space is in exactly one chunk, chunks *)
(* are cut where declarations end, only one that cannot be cut is over the *)
(* limit, none has room for what the next begins with, and the lines are   *)
(* those of the bytes (chunk_source, pack, push_chunk).                    *)
(***************************************************************************)
THEOREM ChunksCoverSources == ChunkSpec => []ChunksCover
BY ChunkInvInit, ChunkInvNext, ChunkInvCovers, PTL DEF ChunkSpec

-----------------------------------------------------------------------------
(* Walks.                                                                  *)

Places(g, c) == [file : AllFiles(g) \cup {c.from}, depth : 0..c.maxDepth]

(* What a walk has found: files with their depths.                         *)
FoundBy(kind, from, hits, near) ==
    IF kind = "around" THEN {[file |-> f, depth |-> near[f]] : f \in DOMAIN near}
    ELSE {[file |-> from, depth |-> 0]} \cup Range(hits)

Finds(found, f, n) == \E e \in found : e.file = f /\ e.depth <= n

(* Depths grow along the queue, by one at most.                            *)
InOrder(q, u) ==
    /\ \A a, b \in DOMAIN q : a < b => q[a].depth <= q[b].depth
    /\ \A a \in DOMAIN q : u.depth <= q[a].depth /\ q[a].depth <= u.depth + 1

(* What is found and no longer in the queue has its neighbours found, but  *)
(* for those left of the file at hand.                                     *)
Followed(g, c, found, q, u, rest) ==
    \A e \in found : e \notin Range(q) /\ e.depth < c.maxDepth =>
        \A t \in Neighbours(g, c.kind, e.file) :
            (e = u /\ t \in rest) \/ Finds(found, t, e.depth + 1)

(* Every file no further than the one at hand is found.                    *)
Complete(g, c, found, n) ==
    \A m \in 0..n : \A f \in AllFiles(g) \cup {c.from} : Leads(g, c, f, m) => Finds(found, f, m)

BfsInv(g, c, found, q, u, rest) ==
    /\ found \subseteq Places(g, c) /\ q \in Seq(Places(g, c))
    /\ u \in found /\ Range(q) \subseteq found
    /\ \A e \in found : IsDistance(g, c, e.file, e.depth)
    /\ InOrder(q, u)
    /\ rest \subseteq Neighbours(g, c.kind, u.file) /\ (rest # {} => u.depth < c.maxDepth)
    /\ Followed(g, c, found, q, u, rest)
    /\ Complete(g, c, found, u.depth)

(* The hits: each file once, the nearest first.                            *)
HitsInv(g, c, hits, marks, u) ==
    /\ hits \in Seq(Places(g, c))
    /\ marks = {c.from} \cup {e.file : e \in Range(hits)}
    /\ \A i \in DOMAIN hits : hits[i].file # c.from /\ hits[i].depth \in 1..u.depth + 1
    /\ \A i, k \in DOMAIN hits : i < k => hits[i].file # hits[k].file /\ hits[i].depth <= hits[k].depth

WalkInv ==
    IF returned THEN queue = <<>> /\ left = {} /\ HitsAreNearest /\ DepthsAreNearest
    ELSE /\ BfsInv(graph, call, FoundBy(call.kind, call.from, out, depths), queue, cur, left)
         /\ call.kind # "around" => HitsInv(graph, call, out, seen, cur)

-----------------------------------------------------------------------------

(* Graphs.                                                                 *)
LEMMA NeighboursAreFiles ==
    ASSUME NEW g, NEW kind, NEW f
    PROVE  Neighbours(g, kind, f) \subseteq AllFiles(g)
<1>1. \A h : Targets(g, h) \subseteq AllFiles(g)
    <2> SUFFICES ASSUME NEW h PROVE Targets(g, h) \subseteq AllFiles(g)
        OBVIOUS
    <2>1. CASE h \in DOMAIN g  BY <2>1 DEF AllFiles
    <2>2. CASE h \notin DOMAIN g  BY <2>2 DEF Targets, EdgesAt, Range
    <2> QED BY <2>1, <2>2
<1>2. Importers(g, f) \subseteq AllFiles(g)  BY DEF Importers, AllFiles
<1> QED BY <1>1, <1>2 DEF Neighbours

(* A path of one step more, and of one step less.                          *)
LEMMA NoSteps ==
    ASSUME NEW g, NEW c
    PROVE  \A f : Leads(g, c, f, 0) <=> f = c.from
<1>1. ASSUME NEW f, Leads(g, c, f, 0) PROVE f = c.from
    BY <1>1 DEF Leads, IsPath
<1>2. Leads(g, c, c.from, 0)
    <2> DEFINE path == [i \in 0..0 |-> c.from]
    <2>1. path \in [0..0 -> AllFiles(g) \cup {c.from}] /\ path[0] = c.from  OBVIOUS
    <2>2. IsPath(g, c, path, 0)  BY <2>1 DEF IsPath
    <2> QED BY <2>1, <2>2 DEF Leads
<1> QED BY <1>1, <1>2

LEMMA StepMore ==
    ASSUME NEW g, NEW c, NEW f, NEW n \in Nat, Leads(g, c, f, n), NEW t \in Neighbours(g, c.kind, f)
    PROVE  Leads(g, c, t, n + 1)
<1> DEFINE F == AllFiles(g) \cup {c.from}
<1>1. PICK path \in [0..n -> F] : IsPath(g, c, path, n) /\ path[n] = f
    BY DEF Leads
<1> DEFINE longer == [i \in 0..n + 1 |-> IF i = n + 1 THEN t ELSE path[i]]
<1>2. t \in F  BY NeighboursAreFiles
<1> HIDE DEF F
<1>3. longer \in [0..n + 1 -> F]  BY <1>1, <1>2
<1>4. longer[n + 1] = t /\ \A i \in 0..n : longer[i] = path[i]  OBVIOUS
<1> HIDE DEF longer
<1>5. longer[0] = c.from  BY <1>1, <1>4 DEF IsPath
<1>6. ASSUME NEW i \in 0..(n + 1) - 1 PROVE longer[i + 1] \in Neighbours(g, c.kind, longer[i])
    <2>1. i \in 0..n /\ longer[i] = path[i]  BY <1>4
    <2>2. CASE i = n  BY <1>1, <1>4, <2>1, <2>2
    <2>3. CASE i # n
        <3>1. i \in 0..n - 1 /\ i + 1 \in 0..n  BY <2>1, <2>3
        <3>2. path[i + 1] \in Neighbours(g, c.kind, path[i])  BY <1>1, <3>1 DEF IsPath
        <3> QED BY <1>4, <2>1, <3>1, <3>2
    <2> QED BY <2>2, <2>3
<1>7. IsPath(g, c, longer, n + 1)  BY <1>5, <1>6 DEF IsPath
<1> QED BY <1>3, <1>4, <1>7 DEF Leads, F

LEMMA StepLess ==
    ASSUME NEW g, NEW c, NEW t, NEW n \in Nat, Leads(g, c, t, n + 1)
    PROVE  \E f \in AllFiles(g) \cup {c.from} : Leads(g, c, f, n) /\ t \in Neighbours(g, c.kind, f)
<1> DEFINE F == AllFiles(g) \cup {c.from}
<1>1. PICK path \in [0..n + 1 -> F] : IsPath(g, c, path, n + 1) /\ path[n + 1] = t
    BY DEF Leads
<1> DEFINE shorter == [i \in 0..n |-> path[i]]
<1> HIDE DEF F
<1>2. shorter \in [0..n -> F] /\ path[n] \in F
    <2>1. \A i \in 0..n : i \in 0..n + 1  OBVIOUS
    <2> QED BY <1>1, <2>1
<1>3. \A i \in 0..n : shorter[i] = path[i]  OBVIOUS
<1> HIDE DEF shorter
<1>4. shorter[0] = c.from /\ shorter[n] = path[n]  BY <1>1, <1>3 DEF IsPath
<1>5. ASSUME NEW i \in 0..n - 1 PROVE shorter[i + 1] \in Neighbours(g, c.kind, shorter[i])
    <2>1. i \in 0..n /\ i + 1 \in 0..n /\ i \in 0..(n + 1) - 1  OBVIOUS
    <2>2. path[i + 1] \in Neighbours(g, c.kind, path[i])  BY <1>1, <2>1 DEF IsPath
    <2> QED BY <1>3, <2>1, <2>2
<1>6. IsPath(g, c, shorter, n)  BY <1>4, <1>5 DEF IsPath
<1>7. Leads(g, c, path[n], n)  BY <1>2, <1>4, <1>6 DEF Leads, F
<1>8. t \in Neighbours(g, c.kind, path[n])
    <2>1. n \in 0..(n + 1) - 1  OBVIOUS
    <2> QED BY <1>1, <2>1 DEF IsPath
<1> QED BY <1>2, <1>7, <1>8 DEF F

LEMMA DistanceIsLeast ==
    ASSUME NEW g, NEW c, NEW f, NEW n \in Nat, NEW m \in Nat, IsDistance(g, c, f, n), Leads(g, c, f, m)
    PROVE  n <= m
<1> SUFFICES ASSUME m < n PROVE FALSE
    OBVIOUS
<1>1. m \in 0..n - 1  OBVIOUS
<1> QED BY <1>1 DEF IsDistance

(* The parts of the queue.                                                 *)
LEMMA HeadAndTail ==
    ASSUME NEW S, NEW q \in Seq(S), q # <<>>
    PROVE  /\ Head(q) = q[1] /\ 1 \in DOMAIN q /\ Tail(q) \in Seq(S) /\ Head(q) \in Range(q)
           /\ \A k \in DOMAIN Tail(q) : k + 1 \in DOMAIN q /\ Tail(q)[k] = q[k + 1] /\ k \in Nat \ {0}
           /\ Range(q) = {Head(q)} \cup Range(Tail(q))
<1>1. Head(q) = q[1] /\ 1 \in DOMAIN q /\ Tail(q) \in Seq(S) /\ Len(q) \in Nat \ {0}
      /\ Len(Tail(q)) = Len(q) - 1 /\ DOMAIN q = 1..Len(q) /\ DOMAIN Tail(q) = 1..Len(q) - 1
  OBVIOUS
<1>2. \A k \in DOMAIN Tail(q) : k + 1 \in DOMAIN q /\ Tail(q)[k] = q[k + 1] /\ k \in Nat \ {0}
  BY <1>1
<1>3. ASSUME NEW x \in Range(q), x # Head(q) PROVE x \in Range(Tail(q))
  <2>1. PICK k \in DOMAIN q : q[k] = x  BY <1>3 DEF Range
  <2>2. k - 1 \in DOMAIN Tail(q) /\ (k - 1) + 1 = k  BY <1>1, <1>3, <2>1
  <2> QED BY <1>2, <2>1, <2>2 DEF Range
<1>4. Range(Tail(q)) \subseteq Range(q) /\ Head(q) \in Range(q)  BY <1>1, <1>2 DEF Range
<1> QED BY <1>1, <1>2, <1>3, <1>4

LEMMA TakeKeepsOrder ==
    ASSUME NEW g, NEW c, c.maxDepth \in Nat, NEW q \in Seq(Places(g, c)), q # <<>>,
           NEW u \in Places(g, c), InOrder(q, u)
    PROVE  InOrder(Tail(q), Head(q)) /\ (Head(q).depth = u.depth \/ Head(q).depth = u.depth + 1)
           /\ \A e \in Range(q) : Head(q).depth <= e.depth
<1>1. \A a \in DOMAIN q : q[a] \in Places(g, c) /\ q[a].depth \in Nat
  <2>1. \A e \in Places(g, c) : e.depth \in Nat  BY DEF Places
  <2>2. \A a \in DOMAIN q : q[a] \in Places(g, c)  OBVIOUS
  <2> QED BY <2>1, <2>2
<1>2. u.depth \in Nat  BY DEF Places
<1>3. /\ Head(q) = q[1] /\ 1 \in DOMAIN q
      /\ \A k \in DOMAIN Tail(q) : k + 1 \in DOMAIN q /\ Tail(q)[k] = q[k + 1] /\ k \in Nat \ {0}
  BY HeadAndTail
<1>4. Head(q).depth = u.depth \/ Head(q).depth = u.depth + 1
  BY <1>1, <1>2, <1>3 DEF InOrder
<1>5. ASSUME NEW a \in DOMAIN q PROVE Head(q).depth <= q[a].depth
  <2>1. a \in Nat \ {0} /\ (a = 1 \/ 1 < a)  OBVIOUS
  <2>2. CASE a = 1  BY <1>1, <1>3, <2>2
  <2>3. CASE 1 < a  BY <1>3, <2>3 DEF InOrder
  <2> QED BY <2>1, <2>2, <2>3
<1>6. ASSUME NEW a \in DOMAIN Tail(q)
      PROVE  Head(q).depth <= Tail(q)[a].depth /\ Tail(q)[a].depth <= Head(q).depth + 1
  <2>1. a + 1 \in DOMAIN q /\ Tail(q)[a] = q[a + 1]  BY <1>3
  <2>2. q[a + 1].depth <= u.depth + 1 /\ Head(q).depth <= q[a + 1].depth  BY <1>5, <2>1 DEF InOrder
  <2>3. q[a + 1].depth \in Nat  BY <1>1, <2>1
  <2> QED BY <1>2, <1>4, <2>1, <2>2, <2>3
<1>7. ASSUME NEW a \in DOMAIN Tail(q), NEW b \in DOMAIN Tail(q), a < b
      PROVE  Tail(q)[a].depth <= Tail(q)[b].depth
  <2>1. a + 1 \in DOMAIN q /\ b + 1 \in DOMAIN q /\ a + 1 < b + 1  BY <1>3, <1>7
  <2> QED BY <1>3, <2>1 DEF InOrder
<1>8. \A e \in Range(q) : Head(q).depth <= e.depth  BY <1>5 DEF Range
<1> QED BY <1>4, <1>6, <1>7, <1>8 DEF InOrder

LEMMA TakeKeepsBfs ==
    ASSUME NEW g, NEW c, c.maxDepth \in Nat, NEW found, NEW q, NEW u, BfsInv(g, c, found, q, u, {}), q # <<>>,
           NEW rest, rest = IF Head(q).depth >= c.maxDepth THEN {} ELSE Neighbours(g, c.kind, Head(q).file)
    PROVE  BfsInv(g, c, found, Tail(q), Head(q), rest)
<1> DEFINE v == Head(q)
<1> DEFINE r == Tail(q)
<1> HIDE DEF v, r
<1>1. /\ found \subseteq Places(g, c) /\ q \in Seq(Places(g, c))
      /\ u \in found /\ Range(q) \subseteq found
      /\ \A e \in found : IsDistance(g, c, e.file, e.depth)
      /\ InOrder(q, u) /\ Followed(g, c, found, q, u, {}) /\ Complete(g, c, found, u.depth)
  BY DEF BfsInv
<1>2. /\ r \in Seq(Places(g, c)) /\ v \in Range(q) /\ Range(q) = {v} \cup Range(r)
  BY <1>1, HeadAndTail DEF v, r
<1>3. /\ InOrder(r, v) /\ (v.depth = u.depth \/ v.depth = u.depth + 1)
      /\ \A e \in Range(q) : v.depth <= e.depth
  BY <1>1, TakeKeepsOrder DEF v, r
<1>4. v \in found /\ Range(r) \subseteq found  BY <1>1, <1>2
<1>5. \A e \in found : e.depth \in Nat /\ e.depth <= c.maxDepth /\ e.file \in AllFiles(g) \cup {c.from}
  BY <1>1 DEF Places
<1>6. rest \subseteq Neighbours(g, c.kind, v.file) /\ (rest # {} => v.depth < c.maxDepth)
  BY <1>4, <1>5 DEF v
<1>7. Followed(g, c, found, r, v, rest)
  <2> SUFFICES ASSUME NEW e \in found, e \notin Range(r), e.depth < c.maxDepth,
                      NEW t \in Neighbours(g, c.kind, e.file)
               PROVE  (e = v /\ t \in rest) \/ Finds(found, t, e.depth + 1)
    BY DEF Followed
  <2>1. CASE e = v  BY <2>1, <1>5 DEF v
  <2>2. CASE e # v
    <3>1. e \notin Range(q)  BY <1>2, <2>2
    <3> QED BY <1>1, <3>1 DEF Followed
  <2> QED BY <2>1, <2>2
<1>8. Complete(g, c, found, v.depth)
  <2>1. CASE v.depth = u.depth  BY <1>1, <2>1
  <2>2. CASE v.depth = u.depth + 1
    <3> SUFFICES ASSUME NEW m \in 0..v.depth, NEW f \in AllFiles(g) \cup {c.from}, Leads(g, c, f, m)
                 PROVE  Finds(found, f, m)
      BY DEF Complete
    <3>1. u.depth \in Nat /\ v.depth \in Nat /\ m \in Nat  BY <1>1, <1>4, <1>5
    <3>2. CASE m <= u.depth
      <4>1. m \in 0..u.depth  BY <3>1, <3>2
      <4> QED BY <1>1, <4>1 DEF Complete
    <3>3. CASE m > u.depth
      <4>1. m = u.depth + 1  BY <2>2, <3>1, <3>3
      <4>2. PICK y \in AllFiles(g) \cup {c.from} : Leads(g, c, y, u.depth) /\ f \in Neighbours(g, c.kind, y)
        BY <3>1, <4>1, StepLess
      <4>3. u.depth \in 0..u.depth  BY <3>1
      <4>4. PICK e \in found : e.file = y /\ e.depth <= u.depth  BY <1>1, <4>2, <4>3 DEF Complete, Finds
      <4>5. e.depth \in Nat /\ v.depth <= c.maxDepth  BY <1>4, <1>5
      <4>6. e \notin Range(q) /\ e.depth < c.maxDepth  BY <1>3, <2>2, <3>1, <4>4, <4>5
      <4>7. Finds(found, f, e.depth + 1)  BY <1>1, <4>2, <4>4, <4>6 DEF Followed
      <4>8. PICK e2 \in found : e2.file = f /\ e2.depth <= e.depth + 1  BY <4>7 DEF Finds
      <4>9. e2.depth \in Nat  BY <1>5
      <4>10. e2.depth <= m  BY <3>1, <4>1, <4>4, <4>5, <4>8, <4>9
      <4> QED BY <4>8, <4>10 DEF Finds
    <3> QED BY <3>1, <3>2, <3>3
  <2> QED BY <1>3, <2>1, <2>2
<1> QED BY <1>1, <1>2, <1>3, <1>4, <1>6, <1>7, <1>8 DEF BfsInv, v, r

LEMMA SkipKeepsBfs ==
    ASSUME NEW g, NEW c, NEW found, NEW q, NEW u, NEW rest, BfsInv(g, c, found, q, u, rest),
           NEW t \in rest, Finds(found, t, u.depth + 1)
    PROVE  BfsInv(g, c, found, q, u, rest \ {t})
<1>1. Followed(g, c, found, q, u, rest)  BY DEF BfsInv
<1>2. Followed(g, c, found, q, u, rest \ {t})
  <2> SUFFICES ASSUME NEW e \in found, e \notin Range(q), e.depth < c.maxDepth,
                      NEW x \in Neighbours(g, c.kind, e.file)
               PROVE  (e = u /\ x \in rest \ {t}) \/ Finds(found, x, e.depth + 1)
    BY DEF Followed
  <2>1. (e = u /\ x \in rest) \/ Finds(found, x, e.depth + 1)  BY <1>1 DEF Followed
  <2> QED BY <2>1
<1> QED BY <1>2 DEF BfsInv

LEMMA LeftIsNear ==
    ASSUME NEW g, NEW c, c.maxDepth \in Nat, NEW found, NEW q, NEW u, NEW rest, BfsInv(g, c, found, q, u, rest),
           NEW t \in rest
    PROVE  Leads(g, c, t, u.depth + 1)
<1>1. /\ u \in found /\ found \subseteq Places(g, c) /\ IsDistance(g, c, u.file, u.depth)
      /\ t \in Neighbours(g, c.kind, u.file)
  BY DEF BfsInv
<1>2. u.depth \in Nat  BY <1>1 DEF Places
<1>3. Leads(g, c, u.file, u.depth)  BY <1>1 DEF IsDistance
<1> QED BY <1>1, <1>2, <1>3, StepMore

(* The first way to a file is a shortest one.                              *)
LEMMA FindIsNew ==
    ASSUME NEW g, NEW c, c.maxDepth \in Nat, NEW found, NEW q, NEW u, NEW rest, BfsInv(g, c, found, q, u, rest),
           NEW t \in rest, \A e \in found : e.file = t => e.depth > u.depth + 1
    PROVE  \A e \in found : e.file # t
<1> SUFFICES ASSUME NEW e \in found, e.file = t PROVE FALSE
  OBVIOUS
<1>1. u \in found /\ found \subseteq Places(g, c) /\ IsDistance(g, c, t, e.depth)  BY DEF BfsInv
<1>2. u.depth \in Nat /\ e.depth \in Nat  BY <1>1 DEF Places
<1>3. Leads(g, c, t, u.depth + 1)  BY LeftIsNear
<1>4. e.depth <= u.depth + 1  BY <1>1, <1>2, <1>3, DistanceIsLeast
<1> QED BY <1>2, <1>4

LEMMA FindKeepsBfs ==
    ASSUME NEW g, NEW c, c.maxDepth \in Nat, NEW found, NEW q, NEW u, NEW rest, BfsInv(g, c, found, q, u, rest),
           NEW t \in rest, \A e \in found : e.file = t => e.depth > u.depth + 1,
           NEW h, h = [file |-> t, depth |-> u.depth + 1]
    PROVE  BfsInv(g, c, found \cup {h}, Append(q, h), u, rest \ {t})
<1>1. /\ found \subseteq Places(g, c) /\ q \in Seq(Places(g, c))
      /\ u \in found /\ Range(q) \subseteq found
      /\ \A e \in found : IsDistance(g, c, e.file, e.depth)
      /\ InOrder(q, u) /\ Followed(g, c, found, q, u, rest) /\ Complete(g, c, found, u.depth)
      /\ rest \subseteq Neighbours(g, c.kind, u.file) /\ u.depth < c.maxDepth
  BY DEF BfsInv
<1>2. \A e \in found : e.depth \in Nat /\ e.depth <= c.maxDepth /\ e.file \in AllFiles(g) \cup {c.from}
  BY <1>1 DEF Places
<1>3. u.depth \in Nat /\ t \in AllFiles(g) /\ h.file = t /\ h.depth = u.depth + 1 /\ h.depth \in Nat
  BY <1>1, <1>2, NeighboursAreFiles
<1>4. h \in Places(g, c)
  <2>1. u.depth + 1 \in 0..c.maxDepth  BY <1>1, <1>3
  <2> QED BY <1>3, <2>1 DEF Places
<1>5. Leads(g, c, t, u.depth + 1)
  <2>1. Leads(g, c, u.file, u.depth)  BY <1>1 DEF IsDistance
  <2> QED BY <1>1, <1>3, <2>1, StepMore
<1>6. \A e \in found : e.file # t
  BY FindIsNew
<1>7. IsDistance(g, c, h.file, h.depth)
  <2> SUFFICES ASSUME NEW m \in 0..u.depth, Leads(g, c, t, m) PROVE FALSE
    BY <1>3, <1>5 DEF IsDistance
  <2>1. Finds(found, t, m)  BY <1>1, <1>3 DEF Complete
  <2> QED BY <1>6, <2>1 DEF Finds
<1> DEFINE more == found \cup {h}
<1> DEFINE longer == Append(q, h)
<1>8. /\ longer \in Seq(Places(g, c)) /\ Len(q) \in Nat /\ DOMAIN q = 1..Len(q) /\ DOMAIN longer = 1..Len(q) + 1
      /\ longer[Len(q) + 1] = h /\ \A k \in DOMAIN q : longer[k] = q[k] /\ k \in DOMAIN longer
  BY <1>1, <1>4
<1>9. Range(longer) = Range(q) \cup {h}
  <2>1. \A k \in DOMAIN longer : k \in DOMAIN q \/ k = Len(q) + 1  BY <1>8
  <2>2. Len(q) + 1 \in DOMAIN longer  BY <1>8
  <2> HIDE DEF longer
  <2> QED BY <1>8, <2>1, <2>2 DEF Range
<1> HIDE DEF longer, more
<1>10. InOrder(longer, u)
  <2>1. \A a \in DOMAIN q : q[a].depth \in Nat /\ u.depth <= q[a].depth /\ q[a].depth <= u.depth + 1
    <3>1. \A a \in DOMAIN q : q[a] \in found  BY <1>1 DEF Range
    <3> QED BY <1>1, <1>2, <3>1 DEF InOrder
  <2>2. ASSUME NEW a \in DOMAIN longer
        PROVE  u.depth <= longer[a].depth /\ longer[a].depth <= u.depth + 1
    <3>1. CASE a \in DOMAIN q  BY <1>8, <2>1, <3>1
    <3>2. CASE a = Len(q) + 1  BY <1>3, <1>8, <3>2
    <3> QED BY <1>8, <3>1, <3>2
  <2>3. ASSUME NEW a \in DOMAIN longer, NEW b \in DOMAIN longer, a < b
        PROVE  longer[a].depth <= longer[b].depth
    <3>1. a \in DOMAIN q  BY <1>8, <2>3
    <3>2. CASE b \in DOMAIN q  BY <1>1, <1>8, <2>3, <3>1, <3>2 DEF InOrder
    <3>3. CASE b = Len(q) + 1  BY <1>3, <1>8, <2>1, <3>1, <3>3
    <3> QED BY <1>8, <3>2, <3>3
  <2> QED BY <2>2, <2>3 DEF InOrder
<1>11. \A f, n : Finds(found, f, n) => Finds(more, f, n)  BY DEF Finds, more
<1>12. Followed(g, c, more, longer, u, rest \ {t})
  <2> SUFFICES ASSUME NEW e \in more, e \notin Range(longer), e.depth < c.maxDepth,
                      NEW x \in Neighbours(g, c.kind, e.file)
               PROVE  (e = u /\ x \in rest \ {t}) \/ Finds(more, x, e.depth + 1)
    BY DEF Followed
  <2>1. e \in found /\ e \notin Range(q)  BY <1>9 DEF more
  <2>2. (e = u /\ x \in rest) \/ Finds(found, x, e.depth + 1)  BY <1>1, <2>1 DEF Followed
  <2>3. CASE e = u /\ x = t
    <3>1. h \in more /\ h.file = x /\ h.depth <= e.depth + 1  BY <1>3, <2>3 DEF more
    <3> QED BY <3>1 DEF Finds
  <2> QED BY <1>11, <2>2, <2>3
<1>13. Complete(g, c, more, u.depth)  BY <1>1, <1>11 DEF Complete
<1>14. more \subseteq Places(g, c) /\ u \in more /\ Range(longer) \subseteq more
       /\ \A e \in more : IsDistance(g, c, e.file, e.depth)
  BY <1>1, <1>4, <1>7, <1>9 DEF more
<1>15. BfsInv(g, c, more, longer, u, rest \ {t})
  BY <1>1, <1>8, <1>10, <1>12, <1>13, <1>14 DEF BfsInv
<1> QED BY <1>15 DEF more, longer

LEMMA BfsStarts ==
    ASSUME NEW g, NEW c, c.maxDepth \in Nat, NEW u, u = [file |-> c.from, depth |-> 0]
    PROVE  BfsInv(g, c, {u}, <<u>>, u, {})
<1>1. u \in Places(g, c) /\ u.file = c.from /\ u.depth = 0  BY DEF Places
<1>2. <<u>> \in Seq(Places(g, c)) /\ DOMAIN <<u>> = {1} /\ <<u>>[1] = u  BY <1>1
<1>3. Range(<<u>>) = {u}  BY <1>2 DEF Range
<1>4. IsDistance(g, c, u.file, u.depth)
  <2>1. 0..0 - 1 = {}  OBVIOUS
  <2> QED BY <1>1, <2>1, NoSteps DEF IsDistance
<1>5. InOrder(<<u>>, u)  BY <1>1, <1>2 DEF InOrder
<1>6. Complete(g, c, {u}, 0)
  <2> SUFFICES ASSUME NEW m \in 0..0, NEW f, Leads(g, c, f, m) PROVE Finds({u}, f, m)
    BY DEF Complete
  <2>1. m = 0  OBVIOUS
  <2>2. f = c.from  BY <2>1, NoSteps
  <2> QED BY <1>1, <2>1, <2>2 DEF Finds
<1>7. Followed(g, c, {u}, <<u>>, u, {})  BY <1>3 DEF Followed
<1> QED BY <1>1, <1>2, <1>3, <1>4, <1>5, <1>6, <1>7 DEF BfsInv

(* In the end everything within the depth is found.                        *)
LEMMA BfsEnds ==
    ASSUME NEW g, NEW c, c.maxDepth \in Nat, NEW found, NEW u, BfsInv(g, c, found, <<>>, u, {})
    PROVE  \A n \in 0..c.maxDepth : \A f \in AllFiles(g) \cup {c.from} : Leads(g, c, f, n) => Finds(found, f, n)
<1> DEFINE F == AllFiles(g) \cup {c.from}
<1> DEFINE Misses == {n \in 0..c.maxDepth : \E f \in F : Leads(g, c, f, n) /\ ~Finds(found, f, n)}
<1> SUFFICES ASSUME Misses # {} PROVE FALSE
  OBVIOUS
<1>1. /\ found \subseteq Places(g, c) /\ Followed(g, c, found, <<>>, u, {}) /\ Complete(g, c, found, u.depth)
      /\ u \in found
  BY DEF BfsInv
<1>2. \A e \in found : e.depth \in Nat  BY <1>1 DEF Places
<1>3. PICK n \in Misses : \A m \in Misses : n <= m
  <2>1. Misses \subseteq Nat  OBVIOUS
  <2> HIDE DEF Misses
  <2>2. Min(Misses) \in Misses /\ \A m \in Misses : Min(Misses) <= m  BY <2>1, MinIsLeast
  <2> QED BY <2>2
<1>4. PICK f \in F : Leads(g, c, f, n) /\ ~Finds(found, f, n)  OBVIOUS
<1>5. n \in Nat /\ n <= c.maxDepth  OBVIOUS
<1>6. n # 0
  <2> SUFFICES ASSUME n = 0 PROVE FALSE
    OBVIOUS
  <2>1. 0 \in 0..u.depth  BY <1>1, <1>2
  <2> QED BY <1>1, <1>4, <2>1 DEF Complete
<1>7. n - 1 \in Nat /\ (n - 1) + 1 = n /\ n - 1 < n /\ n - 1 \in 0..c.maxDepth  BY <1>5, <1>6
<1>8. PICK y \in F : Leads(g, c, y, n - 1) /\ f \in Neighbours(g, c.kind, y)  BY <1>4, <1>7, StepLess
<1>9. n - 1 \notin Misses  BY <1>3, <1>7
<1>10. PICK e \in found : e.file = y /\ e.depth <= n - 1  BY <1>7, <1>8, <1>9 DEF Finds
<1>11. e \notin Range(<<>>) /\ e.depth < c.maxDepth /\ e.depth \in Nat  BY <1>2, <1>5, <1>10 DEF Range
<1>12. Finds(found, f, e.depth + 1)  BY <1>1, <1>8, <1>10, <1>11 DEF Followed
<1>13. PICK e2 \in found : e2.file = f /\ e2.depth <= e.depth + 1  BY <1>12 DEF Finds
<1>14. e2.depth <= n  BY <1>2, <1>5, <1>10, <1>11, <1>13
<1> QED BY <1>4, <1>13, <1>14 DEF Finds

LEMMA HitsStay ==
    ASSUME NEW g, NEW c, NEW hits, NEW marks, NEW u, NEW v, HitsInv(g, c, hits, marks, u),
           u.depth \in Nat, v.depth \in Nat, u.depth <= v.depth
    PROVE  HitsInv(g, c, hits, marks, v)
<1>1. \A n : n \in 1..u.depth + 1 => n \in 1..v.depth + 1  OBVIOUS
<1> QED BY <1>1 DEF HitsInv

LEMMA HitAdded ==
    ASSUME NEW g, NEW c, NEW hits, NEW marks, NEW u, HitsInv(g, c, hits, marks, u), u.depth \in Nat,
           NEW t, t \notin marks, NEW h \in Places(g, c), h = [file |-> t, depth |-> u.depth + 1]
    PROVE  HitsInv(g, c, Append(hits, h), marks \cup {t}, u) /\ Range(Append(hits, h)) = Range(hits) \cup {h}
<1> DEFINE more == Append(hits, h)
<1>1. /\ hits \in Seq(Places(g, c)) /\ marks = {c.from} \cup {e.file : e \in Range(hits)}
      /\ \A i \in DOMAIN hits : hits[i].file # c.from /\ hits[i].depth \in 1..u.depth + 1
      /\ \A i, k \in DOMAIN hits : i < k => hits[i].file # hits[k].file /\ hits[i].depth <= hits[k].depth
  BY DEF HitsInv
<1>2. /\ more \in Seq(Places(g, c)) /\ Len(hits) \in Nat /\ DOMAIN hits = 1..Len(hits)
      /\ DOMAIN more = 1..Len(hits) + 1 /\ more[Len(hits) + 1] = h
      /\ \A k \in DOMAIN hits : more[k] = hits[k] /\ k \in DOMAIN more
  BY <1>1
<1>3. \A k \in DOMAIN more : k \in DOMAIN hits \/ k = Len(hits) + 1  BY <1>2
<1>4. Len(hits) + 1 \in DOMAIN more  BY <1>2
<1> HIDE DEF more
<1>5. Range(more) = Range(hits) \cup {h}  BY <1>2, <1>3, <1>4 DEF Range
<1>6. h.file = t /\ h.depth = u.depth + 1  OBVIOUS
<1>7. marks \cup {t} = {c.from} \cup {e.file : e \in Range(more)}  BY <1>1, <1>5, <1>6
<1>8. \A i \in DOMAIN hits : hits[i].file # t  BY <1>1 DEF Range
<1>9. t # c.from  BY <1>1
<1>10. ASSUME NEW i \in DOMAIN more PROVE more[i].file # c.from /\ more[i].depth \in 1..u.depth + 1
  <2>1. CASE i \in DOMAIN hits  BY <1>1, <1>2, <2>1
  <2>2. CASE i = Len(hits) + 1  BY <1>2, <1>6, <1>9, <2>2
  <2> QED BY <1>3, <2>1, <2>2
<1>11. ASSUME NEW i \in DOMAIN more, NEW k \in DOMAIN more, i < k
       PROVE  more[i].file # more[k].file /\ more[i].depth <= more[k].depth
  <2>1. i \in DOMAIN hits  BY <1>2, <1>11
  <2>2. CASE k \in DOMAIN hits  BY <1>1, <1>2, <1>11, <2>1, <2>2
  <2>3. CASE k = Len(hits) + 1
    <3>1. more[k] = h /\ more[i] = hits[i]  BY <1>2, <2>1, <2>3
    <3>2. hits[i].depth \in 1..u.depth + 1  BY <1>1, <2>1
    <3>3. hits[i].depth <= u.depth + 1  BY <3>2
    <3> QED BY <1>6, <1>8, <2>1, <3>1, <3>3
  <2> QED BY <1>3, <2>2, <2>3
<1>12. HitsInv(g, c, more, marks \cup {t}, u)  BY <1>2, <1>7, <1>10, <1>11 DEF HitsInv
<1> QED BY <1>5, <1>12 DEF more

-----------------------------------------------------------------------------
(* The steps of a walk.                                                    *)
LEMMA WalkStarts == ASSUME call \in Calls, WalkInit(Calls) PROVE WalkInv
<1>1. call.maxDepth \in Nat /\ cur = [file |-> call.from, depth |-> 0] /\ queue = <<cur>> /\ left = {}
      /\ seen = {call.from} /\ out = <<>> /\ depths = [f \in {call.from} |-> 0] /\ ~returned
  BY CallsAssumption DEF WalkInit
<1> DEFINE found == FoundBy(call.kind, call.from, out, depths)
<1>2. found = {cur}
  <2>1. CASE call.kind = "around"
    <3>1. DOMAIN depths = {call.from} /\ depths[call.from] = 0  BY <1>1
    <3> QED BY <1>1, <2>1, <3>1 DEF FoundBy
  <2>2. CASE call.kind # "around"
    <3>1. Range(out) = {}  BY <1>1 DEF Range
    <3> QED BY <1>1, <2>2, <3>1 DEF FoundBy
  <2> QED BY <2>1, <2>2
<1> HIDE DEF found
<1>3. BfsInv(graph, call, found, queue, cur, left)  BY <1>1, <1>2, BfsStarts
<1>4. HitsInv(graph, call, out, seen, cur)
  <2>1. out \in Seq(Places(graph, call)) /\ DOMAIN out = {} /\ Range(out) = {}  BY <1>1 DEF Range
  <2>2. seen = {call.from} \cup {e.file : e \in Range(out)}  BY <1>1, <2>1
  <2> QED BY <2>1, <2>2 DEF HitsInv
<1> QED BY <1>1, <1>3, <1>4 DEF WalkInv, found

LEMMA TakeFileKeeps == ASSUME call \in Calls, WalkInv, TakeFile PROVE WalkInv'
<1> DEFINE found == FoundBy(call.kind, call.from, out, depths)
<1>1. /\ left = {} /\ queue # <<>> /\ cur' = Head(queue) /\ queue' = Tail(queue)
      /\ left' = IF Head(queue).depth >= call.maxDepth THEN {} ELSE Neighbours(graph, call.kind, Head(queue).file)
      /\ UNCHANGED <<graph, call, seen, out, depths, returned>>
  BY DEF TakeFile
<1>2. ~returned /\ BfsInv(graph, call, found, queue, cur, {})
      /\ (call.kind # "around" => HitsInv(graph, call, out, seen, cur))
  BY <1>1 DEF WalkInv
<1>3. call.maxDepth \in Nat  BY CallsAssumption
<1>4. found' = found  BY <1>1 DEF FoundBy
<1>5. BfsInv(graph, call, found, Tail(queue), Head(queue), left')
  BY <1>1, <1>2, <1>3, TakeKeepsBfs
<1>6. BfsInv(graph', call', found', queue', cur', left')
  BY <1>1, <1>4, <1>5
<1>7. cur.depth \in Nat /\ cur'.depth \in Nat /\ cur.depth <= cur'.depth
  <2>1. cur \in found /\ cur' \in found /\ found \subseteq Places(graph, call) /\ InOrder(queue, cur)
        /\ queue \in Seq(Places(graph, call))
    BY <1>1, <1>2, <1>5 DEF BfsInv
  <2>2. \A e \in Places(graph, call) : e.depth \in Nat  BY <1>3 DEF Places
  <2>3. cur' = queue[1] /\ 1 \in DOMAIN queue  BY <1>1, <2>1, HeadAndTail
  <2>4. cur.depth <= queue[1].depth  BY <2>1, <2>3 DEF InOrder
  <2> HIDE DEF found
  <2> QED BY <2>1, <2>2, <2>3, <2>4
<1>8. call.kind # "around" => HitsInv(graph, call, out, seen, cur')
  BY <1>2, <1>7, HitsStay
<1> HIDE DEF found
<1> QED BY <1>1, <1>2, <1>6, <1>8 DEF WalkInv, found

LEMMA FollowEdgeKeeps == ASSUME call \in Calls, WalkInv, FollowEdge PROVE WalkInv'
<1> DEFINE found == FoundBy(call.kind, call.from, out, depths)
<1>1. call.kind # "around" /\ UNCHANGED <<graph, call, cur, depths, returned>>
  BY DEF FollowEdge
<1>2. PICK t \in left :
        /\ left' = left \ {t}
        /\ IF t \in seen THEN UNCHANGED <<seen, out, queue>>
           ELSE /\ seen' = seen \cup {t}
                /\ out' = Append(out, Hit(t)) /\ queue' = Append(queue, Hit(t))
  BY DEF FollowEdge, IsSeen
<1>3. ~returned /\ BfsInv(graph, call, found, queue, cur, left) /\ HitsInv(graph, call, out, seen, cur)
  BY <1>1, <1>2 DEF WalkInv
<1>4. call.maxDepth \in Nat  BY CallsAssumption
<1>5. found = {[file |-> call.from, depth |-> 0]} \cup Range(out)  BY <1>1 DEF FoundBy
<1>6. found' = {[file |-> call.from, depth |-> 0]} \cup Range(out')  BY <1>1 DEF FoundBy
<1> HIDE DEF found
<1>7. \A f : f \in seen <=> \E e \in found : e.file = f
  <2>1. seen = {call.from} \cup {e.file : e \in Range(out)}  BY <1>3 DEF HitsInv
  <2> DEFINE first == [file |-> call.from, depth |-> 0]
  <2>2. found = {first} \cup Range(out) /\ first.file = call.from  BY <1>5
  <2> HIDE DEF first
  <2>3. \A f : f \in seen <=> f = call.from \/ \E e \in Range(out) : e.file = f  BY <2>1
  <2> QED BY <2>2, <2>3
<1>8. found \subseteq Places(graph, call) /\ cur \in found /\ \A e \in found : e.depth \in Nat
      /\ IsDistance(graph, call, e.file, e.depth)
  <2>1. found \subseteq Places(graph, call) /\ cur \in found
        /\ \A e \in found : IsDistance(graph, call, e.file, e.depth)
    BY <1>3 DEF BfsInv
  <2>2. \A e \in Places(graph, call) : e.depth \in Nat  BY <1>4 DEF Places
  <2> QED BY <2>1, <2>2
<1>9. CASE t \in seen
  <2>1. PICK e \in found : e.file = t  BY <1>7, <1>9
  <2>2. Leads(graph, call, t, cur.depth + 1)  BY <1>3, <1>4, LeftIsNear
  <2>3. cur.depth + 1 \in Nat /\ e.depth \in Nat /\ IsDistance(graph, call, t, e.depth)  BY <1>8, <2>1
  <2>4. e.depth <= cur.depth + 1  BY <2>2, <2>3, DistanceIsLeast
  <2>5. Finds(found, t, cur.depth + 1)  BY <2>1, <2>4 DEF Finds
  <2>6. BfsInv(graph, call, found, queue, cur, left \ {t})  BY <1>3, <2>5, SkipKeepsBfs
  <2>7. found' = found /\ UNCHANGED <<seen, out, queue>> /\ left' = left \ {t}  BY <1>2, <1>5, <1>6, <1>9
  <2> QED BY <1>1, <1>3, <2>6, <2>7 DEF WalkInv, found
<1>10. CASE t \notin seen
  <2>1. \A e \in found : e.file # t  BY <1>7, <1>10
  <2> DEFINE h == Hit(t)
  <2>2. h = [file |-> t, depth |-> cur.depth + 1]  BY DEF Hit
  <2>3. seen' = seen \cup {t} /\ out' = Append(out, h) /\ queue' = Append(queue, h) /\ left' = left \ {t}
    BY <1>2, <1>10
  <2> HIDE DEF h
  <2>4. BfsInv(graph, call, found \cup {h}, Append(queue, h), cur, left \ {t}) /\ h \in Places(graph, call)
    <3>1. \A e \in found : e.file = t => e.depth > cur.depth + 1  BY <2>1
    <3>2. t \in left /\ BfsInv(graph, call, found, queue, cur, left)  BY <1>3
    <3>3. BfsInv(graph, call, found \cup {h}, Append(queue, h), cur, left \ {t})
      BY <1>4, <2>2, <3>1, <3>2, FindKeepsBfs
    <3>4. h \in Places(graph, call)  BY <3>3 DEF BfsInv
    <3> QED BY <3>3, <3>4
  <2>5. cur.depth \in Nat  BY <1>8
  <2>6. HitsInv(graph, call, Append(out, h), seen \cup {t}, cur) /\ Range(Append(out, h)) = Range(out) \cup {h}
    BY <1>3, <1>10, <2>2, <2>4, <2>5, HitAdded
  <2>7. found' = found \cup {h}  BY <1>5, <1>6, <2>3, <2>6
  <2>8. BfsInv(graph', call', found', queue', cur', left')  BY <1>1, <2>3, <2>4, <2>7
  <2>9. HitsInv(graph', call', out', seen', cur')  BY <1>1, <2>3, <2>6
  <2> QED BY <1>1, <1>3, <2>8, <2>9 DEF WalkInv, found
<1> QED BY <1>9, <1>10

LEMMA FollowEitherWayKeeps == ASSUME call \in Calls, WalkInv, FollowEitherWay PROVE WalkInv'
<1> DEFINE found == FoundBy(call.kind, call.from, out, depths)
<1>1. call.kind = "around" /\ UNCHANGED <<graph, call, cur, seen, out, returned>>
  BY DEF FollowEitherWay
<1>2. PICK t \in left :
        /\ left' = left \ {t}
        /\ IF t \in DOMAIN depths /\ depths[t] <= cur.depth + 1 THEN UNCHANGED <<depths, queue>>
           ELSE /\ depths' = [f \in DOMAIN depths \cup {t} |-> IF f = t THEN cur.depth + 1 ELSE depths[f]]
                /\ queue' = Append(queue, Hit(t))
  BY DEF FollowEitherWay
<1>3. ~returned /\ BfsInv(graph, call, found, queue, cur, left)
  BY <1>1, <1>2 DEF WalkInv
<1>4. call.maxDepth \in Nat  BY CallsAssumption
<1>5. found = {[file |-> f, depth |-> depths[f]] : f \in DOMAIN depths}  BY <1>1 DEF FoundBy
<1>6. found' = {[file |-> f, depth |-> depths'[f]] : f \in DOMAIN depths'}  BY <1>1 DEF FoundBy
<1> HIDE DEF found
<1>7. \A e \in found : e.file \in DOMAIN depths /\ e.depth = depths[e.file] /\ e.depth \in Nat
  <2>1. found \subseteq Places(graph, call)  BY <1>3 DEF BfsInv
  <2>2. \A e \in Places(graph, call) : e.depth \in Nat  BY <1>4 DEF Places
  <2> QED BY <1>5, <2>1, <2>2
<1>8. cur \in found /\ cur.depth \in Nat  BY <1>3, <1>7 DEF BfsInv
<1>9. CASE t \in DOMAIN depths /\ depths[t] <= cur.depth + 1
  <2>1. [file |-> t, depth |-> depths[t]] \in found  BY <1>5, <1>9
  <2>2. Finds(found, t, cur.depth + 1)  BY <1>9, <2>1 DEF Finds
  <2>3. BfsInv(graph, call, found, queue, cur, left \ {t})  BY <1>3, <2>2, SkipKeepsBfs
  <2>4. UNCHANGED <<depths, queue>> /\ left' = left \ {t}  BY <1>2, <1>9
  <2>5. found' = found  BY <1>5, <1>6, <2>4
  <2> QED BY <1>1, <1>3, <2>3, <2>4, <2>5 DEF WalkInv, found
<1>10. CASE ~(t \in DOMAIN depths /\ depths[t] <= cur.depth + 1)
  <2>1. ASSUME NEW e \in found, e.file = t PROVE e.depth > cur.depth + 1
    <3>1. t \in DOMAIN depths /\ e.depth = depths[t] /\ e.depth \in Nat  BY <1>7, <2>1
    <3>2. ~(e.depth <= cur.depth + 1)  BY <1>10, <3>1
    <3> QED BY <1>8, <3>1, <3>2
  <2> DEFINE h == Hit(t)
  <2>2. h = [file |-> t, depth |-> cur.depth + 1]  BY DEF Hit
  <2>3. /\ depths' = [f \in DOMAIN depths \cup {t} |-> IF f = t THEN cur.depth + 1 ELSE depths[f]]
        /\ queue' = Append(queue, h) /\ left' = left \ {t}
    BY <1>2, <1>10
  <2> HIDE DEF h
  <2>4. \A e \in found : e.file = t => e.depth > cur.depth + 1  BY <2>1
  <2>9. BfsInv(graph, call, found \cup {h}, Append(queue, h), cur, left \ {t})
    BY <1>3, <1>4, <2>2, <2>4, FindKeepsBfs
  <2>10. \A e \in found : e.file # t  BY <1>3, <1>4, <2>4, FindIsNew
  <2>5. t \notin DOMAIN depths
    <3> SUFFICES ASSUME t \in DOMAIN depths PROVE FALSE
      OBVIOUS
    <3>1. [file |-> t, depth |-> depths[t]] \in found  BY <1>5
    <3> QED BY <2>10, <3>1
  <2>6. /\ DOMAIN depths' = DOMAIN depths \cup {t} /\ depths'[t] = cur.depth + 1
        /\ \A f \in DOMAIN depths : depths'[f] = depths[f]
    BY <2>3, <2>5
  <2>7. found' = found \cup {h}  BY <1>5, <1>6, <2>2, <2>6
  <2>8. BfsInv(graph', call', found', queue', cur', left')  BY <1>1, <2>3, <2>7, <2>9
  <2> QED BY <1>1, <1>3, <2>8 DEF WalkInv, found
<1> QED BY <1>9, <1>10

LEMMA EndWalkKeeps == ASSUME call \in Calls, WalkInv, EndWalk PROVE WalkInv'
<1> DEFINE found == FoundBy(call.kind, call.from, out, depths)
<1>1. /\ left = {} /\ queue = <<>> /\ ~returned /\ returned'
      /\ out' = IF call.kind = "reverse" /\ Len(out) > call.limit THEN SubSeq(out, 1, call.limit) ELSE out
      /\ UNCHANGED <<graph, call, queue, cur, left, seen, depths>>
  BY DEF EndWalk
<1>2. /\ BfsInv(graph, call, found, <<>>, cur, {})
      /\ (call.kind # "around" => HitsInv(graph, call, out, seen, cur))
  BY <1>1 DEF WalkInv
<1>3. call.maxDepth \in Nat /\ call.limit \in Nat  BY CallsAssumption
<1>4. \A n \in 0..call.maxDepth : \A f \in AllFiles(graph) \cup {call.from} :
        Leads(graph, call, f, n) => Finds(found, f, n)
  BY <1>2, <1>3, BfsEnds
<1>5. \A e \in found : e.depth \in 0..call.maxDepth /\ IsDistance(graph, call, e.file, e.depth)
  <2>1. found \subseteq Places(graph, call) /\ \A e \in found : IsDistance(graph, call, e.file, e.depth)
    BY <1>2 DEF BfsInv
  <2>2. \A e \in Places(graph, call) : e.depth \in 0..call.maxDepth  BY DEF Places
  <2> QED BY <2>1, <2>2
<1> HIDE DEF found
<1>6. HitsAreNearest'
  <2> SUFFICES ASSUME call.kind \in {"forward", "reverse"} PROVE HitsAreNearest'
    BY <1>1 DEF HitsAreNearest
  <2>1. call.kind # "around"  OBVIOUS
  <2> DEFINE first == [file |-> call.from, depth |-> 0]
  <2>2. found = {first} \cup Range(out) /\ first.file = call.from  BY <2>1 DEF FoundBy, found
  <2> HIDE DEF first
  <2>3. /\ out \in Seq(Places(graph, call))
        /\ \A i \in DOMAIN out : out[i].file # call.from /\ out[i].depth \in 1..cur.depth + 1
        /\ \A i, k \in DOMAIN out : i < k => out[i].file # out[k].file /\ out[i].depth <= out[k].depth
    BY <1>2, <2>1 DEF HitsInv
  <2>4. \A i \in DOMAIN out : out[i] \in found /\ out[i].depth \in Nat /\ out[i].depth \in 1..call.maxDepth
    <3> SUFFICES ASSUME NEW i \in DOMAIN out PROVE out[i] \in found /\ out[i].depth \in Nat
                                                   /\ out[i].depth \in 1..call.maxDepth
      OBVIOUS
    <3>1. out[i] \in found  BY <2>2 DEF Range
    <3>2. out[i].depth \in 0..call.maxDepth  BY <1>5, <3>1
    <3>3. out[i].depth \in 1..cur.depth + 1  BY <2>3
    <3> QED BY <3>1, <3>2, <3>3
  <2>5. /\ \A i \in DOMAIN out' : i \in DOMAIN out /\ out'[i] = out[i]
        /\ \/ out' = out
           \/ call.kind = "reverse" /\ Len(out') = call.limit /\ DOMAIN out' = 1..call.limit
    <3>1. CASE call.kind = "reverse" /\ Len(out) > call.limit
      <4>1. out' = SubSeq(out, 1, call.limit) /\ call.limit \in 0..Len(out) /\ Len(out) \in Nat
        BY <1>1, <1>3, <2>3, <3>1
      <4>2. Len(out') = call.limit /\ DOMAIN out' = 1..call.limit /\ \A i \in 1..call.limit : out'[i] = out[i]
        BY <1>3, <2>3, <4>1
      <4>3. DOMAIN out = 1..Len(out)  BY <2>3
      <4> QED BY <1>3, <3>1, <4>1, <4>2, <4>3
    <3>2. CASE ~(call.kind = "reverse" /\ Len(out) > call.limit)
      <4>1. out' = out  BY <1>1, <3>2
      <4> QED BY <4>1
    <3> QED BY <3>1, <3>2
  <2>6. \A i, k \in DOMAIN out' : i < k => out'[i].file # out'[k].file /\ out'[i].depth <= out'[k].depth
    BY <2>3, <2>5
  <2>7. \A i \in DOMAIN out' :
          /\ out'[i].file # call.from /\ out'[i].depth \in 1..call.maxDepth
          /\ IsDistance(graph, call, out'[i].file, out'[i].depth)
    BY <1>5, <2>3, <2>4, <2>5
  <2>8. ASSUME NEW f \in AllFiles(graph) \ {call.from}, NEW n \in 0..call.maxDepth, Leads(graph, call, f, n)
        PROVE  \/ \E i \in DOMAIN out' : out'[i].file = f
               \/ call.kind = "reverse" /\ Len(out') = call.limit /\ \A i \in DOMAIN out' : out'[i].depth <= n
    <3>1. PICK e \in found : e.file = f /\ e.depth <= n  BY <1>4, <2>8 DEF Finds
    <3>2. e \in Range(out)  BY <2>2, <3>1
    <3>3. PICK k \in DOMAIN out : out[k] = e  BY <3>2 DEF Range
    <3>4. CASE k \in DOMAIN out'  BY <2>5, <3>1, <3>3, <3>4
    <3>5. CASE k \notin DOMAIN out'
      <4>1. call.kind = "reverse" /\ Len(out') = call.limit /\ DOMAIN out' = 1..call.limit
        BY <2>5, <3>3, <3>5
      <4>2. k \in Nat /\ k > call.limit
        <5>1. k \in Nat \ {0}  BY <2>3, <3>3
        <5> QED BY <1>3, <3>5, <4>1, <5>1
      <4>3. ASSUME NEW i \in DOMAIN out' PROVE out'[i].depth <= n
        <5>1. i \in DOMAIN out /\ i < k /\ out'[i] = out[i]  BY <1>3, <2>5, <4>1, <4>2
        <5>2. out[i].depth <= out[k].depth  BY <2>3, <5>1
        <5>3. out[i].depth \in Nat /\ out[k].depth \in Nat  BY <2>4, <5>1
        <5> QED BY <3>1, <3>3, <5>1, <5>2, <5>3
      <4> QED BY <4>1, <4>3
    <3> QED BY <3>4, <3>5
  <2> QED BY <1>1, <2>6, <2>7, <2>8 DEF HitsAreNearest
<1>7. DepthsAreNearest'
  <2> SUFFICES ASSUME call.kind = "around" PROVE DepthsAreNearest'
    BY <1>1 DEF DepthsAreNearest
  <2>1. found = {[file |-> f, depth |-> depths[f]] : f \in DOMAIN depths}  BY DEF FoundBy, found
  <2>2. \A f \in DOMAIN depths :
          depths[f] \in 0..call.maxDepth /\ IsDistance(graph, call, f, depths[f])
    <3> SUFFICES ASSUME NEW f \in DOMAIN depths
                 PROVE  depths[f] \in 0..call.maxDepth /\ IsDistance(graph, call, f, depths[f])
      OBVIOUS
    <3> DEFINE e == [file |-> f, depth |-> depths[f]]
    <3>1. e \in found /\ e.file = f /\ e.depth = depths[f]  BY <2>1
    <3> HIDE DEF e
    <3> QED BY <1>5, <3>1
  <2>3. \A f \in AllFiles(graph) \cup {call.from} : \A n \in 0..call.maxDepth :
          Leads(graph, call, f, n) => f \in DOMAIN depths
    <3>1. \A e \in found : e.file \in DOMAIN depths  BY <2>1
    <3> QED BY <1>4, <3>1 DEF Finds
  <2> QED BY <1>1, <2>2, <2>3 DEF DepthsAreNearest
<1> QED BY <1>1, <1>6, <1>7 DEF WalkInv

LEMMA WalkKeeps == ASSUME call \in Calls, WalkInv, WalkNext PROVE WalkInv'
BY TakeFileKeeps, FollowEdgeKeeps, FollowEitherWayKeeps, EndWalkKeeps DEF WalkNext

(* A state of a walk that has not ended promises nothing yet.              *)
LEMMA WalkInvGives == WalkInv => HitsAreNearest /\ DepthsAreNearest
BY DEF WalkInv, HitsAreNearest, DepthsAreNearest

-----------------------------------------------------------------------------
(* Levels.                                                                 *)

(* What has been peeled off; an import of it is met once the importer has  *)
(* been visited for it.                                                    *)
Peeled(cnt, r) == {f \in DOMAIN cnt : cnt[f] = 0} \ Range(r)

Met(pl, nd, ps, p, t) == t \in pl /\ ~(t = nd /\ p \in ps)

Waits(g, pl, nd, ps, p) == {i \in DOMAIN EdgesAt(g, p) : ~Met(pl, nd, ps, p, EdgesAt(g, p)[i])}

MetTargets(g, pl, nd, ps, p) == {t \in Targets(g, p) : Met(pl, nd, ps, p, t)}

(* A file counts the imports that are not met.                             *)
CountInv(g, cnt, pl, nd, ps) ==
    /\ DOMAIN cnt = AllFiles(g)
    /\ \A p \in AllFiles(g) : cnt[p] = Cardinality(Waits(g, pl, nd, ps, p))

(* It is one above the highest of those that are.                          *)
RaisedInv(g, lv, pl, nd, ps) ==
    /\ pl \subseteq DOMAIN lv /\ DOMAIN lv \subseteq AllFiles(g)
    /\ \A f \in DOMAIN lv : lv[f] \in Nat /\ (EdgesAt(g, f) = <<>> => lv[f] = 0)
    /\ \A f \in AllFiles(g) : f \in DOMAIN lv <=> EdgesAt(g, f) = <<>> \/ MetTargets(g, pl, nd, ps, f) # {}
    /\ \A f \in AllFiles(g) : \A t \in MetTargets(g, pl, nd, ps, f) : lv[t] < lv[f]
    /\ \A f \in AllFiles(g) : MetTargets(g, pl, nd, ps, f) # {} =>
            \E t \in MetTargets(g, pl, nd, ps, f) : lv[f] = lv[t] + 1

PeelInv(g, cnt, lv, r, nd, ps) ==
    /\ CountInv(g, cnt, Peeled(cnt, r), nd, ps)
    /\ RaisedInv(g, lv, Peeled(cnt, r), nd, ps)
    /\ r \in Seq(AllFiles(g)) /\ IsInjective(r) /\ \A f \in Range(r) : cnt[f] = 0
    /\ ps \subseteq Importers(g, nd) /\ (ps # {} => nd \in Peeled(cnt, r))

LevelInv ==
    \/ /\ phase = "leaves" /\ parents = {}
       /\ count = [f \in AllFiles(graph) |-> Len(EdgesAt(graph, f))]
       /\ levels = [f \in Leaves |-> 0]
    \/ phase = "peel" /\ PeelInv(graph, count, levels, ready, node, parents)
    \/ phase = "done" /\ LevelsAreHeights

-----------------------------------------------------------------------------
LEMMA EdgesAreFinite ==
    ASSUME graph \in Graphs, NEW f
    PROVE  /\ EdgesAt(graph, f) \in Seq(Nat) /\ IsFiniteSet(DOMAIN EdgesAt(graph, f))
           /\ Cardinality(DOMAIN EdgesAt(graph, f)) = Len(EdgesAt(graph, f))
           /\ IsFiniteSet(Targets(graph, f))
<1> DEFINE edges == EdgesAt(graph, f)
<1>1. edges \in Seq(Nat)
  <2>1. CASE f \in DOMAIN graph  BY <2>1, GraphsAssumption DEF EdgesAt
  <2>2. CASE f \notin DOMAIN graph  BY <2>2 DEF EdgesAt
  <2> QED BY <2>1, <2>2
<1> HIDE DEF edges
<1>2. DOMAIN edges = 1..Len(edges) /\ Len(edges) \in Nat  BY <1>1
<1>3. IsFiniteSet(1..Len(edges)) /\ Cardinality(1..Len(edges)) = Len(edges)
  <2>1. 1 \in Int /\ Len(edges) \in Int  BY <1>2
  <2>2. IsFiniteSet(1..Len(edges)) /\ Cardinality(1..Len(edges)) = IF 1 > Len(edges) THEN 0 ELSE Len(edges) - 1 + 1
    BY <2>1, FS_Interval
  <2> QED BY <1>2, <2>2
<1>4. IsFiniteSet(Range(edges))
  <2>1. edges \in Surjection(DOMAIN edges, Range(edges))  BY <1>1, <1>2 DEF Surjection, Range
  <2> QED BY <1>2, <1>3, <2>1, FS_Surjection
<1> QED BY <1>1, <1>2, <1>3, <1>4 DEF edges, Targets

LEMMA FilesAreFinite == ASSUME graph \in Graphs PROVE IsFiniteSet(AllFiles(graph))
<1> DEFINE all == {Targets(graph, f) : f \in DOMAIN graph}
<1>1. IsFiniteSet(DOMAIN graph)  BY GraphsAssumption
<1>2. IsFiniteSet(all)
  <2>1. [f \in DOMAIN graph |-> Targets(graph, f)] \in Surjection(DOMAIN graph, all)  BY DEF Surjection
  <2> QED BY <1>1, <2>1, FS_Surjection
<1>3. \A T \in all : IsFiniteSet(T)  BY EdgesAreFinite
<1> HIDE DEF all
<1>4. IsFiniteSet(UNION all)  BY <1>2, <1>3, FS_UNION
<1>5. IsFiniteSet(DOMAIN graph \cup UNION all)  BY <1>1, <1>4, FS_Union
<1> QED BY <1>5 DEF AllFiles, all

LEMMA WaitsAreFinite ==
    ASSUME graph \in Graphs, NEW pl, NEW nd, NEW ps, NEW p
    PROVE  /\ IsFiniteSet(Waits(graph, pl, nd, ps, p)) /\ Cardinality(Waits(graph, pl, nd, ps, p)) \in Nat
           /\ Cardinality(Waits(graph, pl, nd, ps, p)) = 0 <=> Waits(graph, pl, nd, ps, p) = {}
<1>1. Waits(graph, pl, nd, ps, p) \subseteq DOMAIN EdgesAt(graph, p)  BY DEF Waits
<1>2. IsFiniteSet(Waits(graph, pl, nd, ps, p))  BY <1>1, EdgesAreFinite, FS_Subset
<1> QED BY <1>2, FS_CardinalityType, FS_EmptySet

LEMMA TargetsAreEdges ==
    ASSUME NEW g, NEW p
    PROVE  /\ \A i \in DOMAIN EdgesAt(g, p) : EdgesAt(g, p)[i] \in Targets(g, p)
           /\ \A t \in Targets(g, p) : p \in Importers(g, t) /\ p \in DOMAIN g
           /\ \A t \in Targets(g, p) : \E i \in DOMAIN EdgesAt(g, p) : EdgesAt(g, p)[i] = t
           /\ Targets(g, p) \subseteq AllFiles(g)
<1>1. \A t \in Targets(g, p) : \E i \in DOMAIN EdgesAt(g, p) : EdgesAt(g, p)[i] = t  BY DEF Targets, Range
<1>2. \A i \in DOMAIN EdgesAt(g, p) : EdgesAt(g, p)[i] \in Targets(g, p)  BY DEF Targets, Range
<1>3. ASSUME NEW t \in Targets(g, p) PROVE p \in DOMAIN g
  <2> SUFFICES ASSUME p \notin DOMAIN g PROVE FALSE
    OBVIOUS
  <2>1. EdgesAt(g, p) = <<>>  BY DEF EdgesAt
  <2> QED BY <1>1, <2>1
<1>4. \A t \in Targets(g, p) : p \in Importers(g, t) /\ t \in AllFiles(g)  BY <1>3 DEF Importers, AllFiles
<1> QED BY <1>1, <1>2, <1>3, <1>4

(* Who waits for nothing has met all it imports.                           *)
LEMMA NothingToWaitFor ==
    ASSUME graph \in Graphs, NEW cnt, NEW pl, NEW nd, NEW ps, CountInv(graph, cnt, pl, nd, ps),
           NEW p \in AllFiles(graph)
    PROVE  cnt[p] = 0 <=> \A t \in Targets(graph, p) : Met(pl, nd, ps, p, t)
<1>1. cnt[p] = Cardinality(Waits(graph, pl, nd, ps, p))  BY DEF CountInv
<1>2. cnt[p] = 0 <=> Waits(graph, pl, nd, ps, p) = {}  BY <1>1, WaitsAreFinite
<1>3. Waits(graph, pl, nd, ps, p) = {} <=> \A t \in Targets(graph, p) : Met(pl, nd, ps, p, t)
  BY TargetsAreEdges DEF Waits
<1> QED BY <1>2, <1>3

LEMMA PeelStarts ==
    ASSUME graph \in Graphs, NEW r \in Orders(Leaves), NEW nd,
           NEW cnt, cnt = [f \in AllFiles(graph) |-> Len(EdgesAt(graph, f))],
           NEW lv, lv = [f \in Leaves |-> 0]
    PROVE  PeelInv(graph, cnt, lv, r, nd, {})
<1>1. Range(r) = Leaves /\ IsInjective(r) /\ r \in [1..Cardinality(Leaves) -> Leaves]
  BY DEF Orders
<1>2. Leaves \subseteq AllFiles(graph) /\ Cardinality(Leaves) \in Nat
  <2>1. Leaves \subseteq AllFiles(graph)  BY DEF Leaves
  <2> QED BY <2>1, FilesAreFinite, FS_Subset, FS_CardinalityType
<1>3. r \in Seq(AllFiles(graph))  BY <1>1, <1>2
<1>4. \A f \in AllFiles(graph) : cnt[f] = 0 <=> f \in Leaves
  <2>1. ASSUME NEW f \in AllFiles(graph) PROVE Len(EdgesAt(graph, f)) = 0 <=> EdgesAt(graph, f) = <<>>
    <3>1. EdgesAt(graph, f) \in Seq(Nat)  BY EdgesAreFinite
    <3> QED BY <3>1
  <2> QED BY <2>1 DEF Leaves
<1>5. Peeled(cnt, r) = {}  BY <1>1, <1>4 DEF Peeled
<1>6. CountInv(graph, cnt, {}, nd, {})
  <2>1. ASSUME NEW p \in AllFiles(graph) PROVE cnt[p] = Cardinality(Waits(graph, {}, nd, {}, p))
    <3>1. Waits(graph, {}, nd, {}, p) = DOMAIN EdgesAt(graph, p)  BY DEF Waits, Met
    <3> QED BY <3>1, EdgesAreFinite
  <2> QED BY <2>1 DEF CountInv
<1>7. RaisedInv(graph, lv, {}, nd, {})
  <2>1. \A f : MetTargets(graph, {}, nd, {}, f) = {}  BY DEF MetTargets, Met
  <2>2. \A f \in AllFiles(graph) : f \in Leaves <=> EdgesAt(graph, f) = <<>>  BY DEF Leaves
  <2> QED BY <1>2, <2>1, <2>2 DEF RaisedInv
<1> QED BY <1>1, <1>2, <1>3, <1>4, <1>5, <1>6, <1>7 DEF PeelInv

(* Who is met decides both.                                                *)
LEMMA SameMet ==
    ASSUME NEW g, NEW cnt, NEW lv, NEW pl, NEW nd, NEW ps, NEW pl2, NEW nd2, NEW ps2,
           CountInv(g, cnt, pl, nd, ps), RaisedInv(g, lv, pl, nd, ps), pl2 \subseteq DOMAIN lv,
           \A p \in AllFiles(g) : \A t \in Targets(g, p) : Met(pl2, nd2, ps2, p, t) <=> Met(pl, nd, ps, p, t)
    PROVE  CountInv(g, cnt, pl2, nd2, ps2) /\ RaisedInv(g, lv, pl2, nd2, ps2)
<1>1. \A p \in AllFiles(g) : Waits(g, pl2, nd2, ps2, p) = Waits(g, pl, nd, ps, p)
  BY TargetsAreEdges DEF Waits
<1>2. \A p \in AllFiles(g) : MetTargets(g, pl2, nd2, ps2, p) = MetTargets(g, pl, nd, ps, p)
  BY DEF MetTargets
<1>3. CountInv(g, cnt, pl2, nd2, ps2)  BY <1>1 DEF CountInv
<1>4. RaisedInv(g, lv, pl2, nd2, ps2)  BY <1>2 DEF RaisedInv
<1> QED BY <1>3, <1>4

LEMMA TakeKeepsPeel ==
    ASSUME graph \in Graphs, NEW cnt, NEW lv, NEW r, NEW nd, PeelInv(graph, cnt, lv, r, nd, {}), r # <<>>
    PROVE  PeelInv(graph, cnt, lv, Tail(r), Head(r), Importers(graph, Head(r)))
<1> DEFINE pl == Peeled(cnt, r)
<1> DEFINE pl2 == Peeled(cnt, Tail(r))
<1> DEFINE ps2 == Importers(graph, Head(r))
<1>1. /\ CountInv(graph, cnt, pl, nd, {}) /\ RaisedInv(graph, lv, pl, nd, {})
      /\ r \in Seq(AllFiles(graph)) /\ IsInjective(r) /\ \A f \in Range(r) : cnt[f] = 0
      /\ DOMAIN cnt = AllFiles(graph)
  BY DEF PeelInv, CountInv
<1>2. /\ Head(r) = r[1] /\ 1 \in DOMAIN r /\ Tail(r) \in Seq(AllFiles(graph)) /\ Head(r) \in Range(r)
      /\ \A k \in DOMAIN Tail(r) : k + 1 \in DOMAIN r /\ Tail(r)[k] = r[k + 1] /\ k \in Nat \ {0}
      /\ Range(r) = {Head(r)} \cup Range(Tail(r))
  BY <1>1, HeadAndTail
<1>3. IsInjective(Tail(r)) /\ Head(r) \notin Range(Tail(r))
  <2>1. ASSUME NEW a \in DOMAIN Tail(r), NEW b \in DOMAIN Tail(r), Tail(r)[a] = Tail(r)[b] PROVE a = b
    <3>1. a + 1 = b + 1  BY <1>1, <1>2, <2>1 DEF IsInjective
    <3>2. a \in Nat /\ b \in Nat  BY <1>2
    <3> QED BY <3>1, <3>2
  <2>2. ASSUME NEW a \in DOMAIN Tail(r), Tail(r)[a] = Head(r) PROVE FALSE
    <3>1. a + 1 = 1  BY <1>1, <1>2, <2>2 DEF IsInjective
    <3>2. a \in Nat \ {0}  BY <1>2
    <3> QED BY <3>1, <3>2
  <2> QED BY <2>1, <2>2 DEF IsInjective, Range
<1>4. Head(r) \in AllFiles(graph) /\ cnt[Head(r)] = 0  BY <1>1, <1>2
<1>5. pl2 = pl \cup {Head(r)} /\ Head(r) \notin pl  BY <1>1, <1>2, <1>3, <1>4 DEF Peeled
<1> HIDE DEF pl, pl2
<1>6. \A t \in Targets(graph, Head(r)) : Met(pl, nd, {}, Head(r), t)  BY <1>1, <1>4, NothingToWaitFor
<1>7. Head(r) \in DOMAIN lv
  <2>1. CASE EdgesAt(graph, Head(r)) = <<>>  BY <1>1, <1>4, <2>1 DEF RaisedInv
  <2>2. CASE EdgesAt(graph, Head(r)) # <<>>
    <3>1. EdgesAt(graph, Head(r)) \in Seq(Nat)  BY EdgesAreFinite
    <3>2. 1 \in DOMAIN EdgesAt(graph, Head(r))  BY <2>2, <3>1
    <3>3. EdgesAt(graph, Head(r))[1] \in Targets(graph, Head(r))  BY <3>2, TargetsAreEdges
    <3>4. MetTargets(graph, pl, nd, {}, Head(r)) # {}  BY <1>6, <3>3 DEF MetTargets
    <3> QED BY <1>1, <1>4, <3>4 DEF RaisedInv
  <2> QED BY <2>1, <2>2
<1>8. pl2 \subseteq DOMAIN lv  BY <1>1, <1>5, <1>7 DEF RaisedInv
<1>9. ASSUME NEW p \in AllFiles(graph), NEW t \in Targets(graph, p)
      PROVE  Met(pl2, Head(r), ps2, p, t) <=> Met(pl, nd, {}, p, t)
  <2>1. p \in Importers(graph, t)  BY TargetsAreEdges
  <2> QED BY <1>5, <2>1 DEF Met
<1>10. CountInv(graph, cnt, pl2, Head(r), ps2) /\ RaisedInv(graph, lv, pl2, Head(r), ps2)
  BY <1>1, <1>8, <1>9, SameMet
<1> QED BY <1>1, <1>2, <1>3, <1>5, <1>10 DEF PeelInv, pl2

-----------------------------------------------------------------------------
(* What a visit of an importer does to its level and its count.            *)
Lifted(lv, nd, p) ==
    [f \in DOMAIN lv \cup {p} |->
        IF f = p THEN IF p \in DOMAIN lv /\ lv[nd] + 1 <= lv[p] THEN lv[p] ELSE lv[nd] + 1 ELSE lv[f]]

Discounted(cnt, nd, p) ==
    [cnt EXCEPT ![p] = IF Imports(p, nd) < cnt[p] THEN cnt[p] - Imports(p, nd) ELSE 0]

(* A visit of an importer meets one import of it more, and only of it.     *)
LEMMA VisitMeets ==
    ASSUME NEW g, NEW pl, NEW nd \in pl, NEW ps, NEW p \in ps, p \in Importers(g, nd)
    PROVE  /\ \A q, t : q # p => (Met(pl, nd, ps \ {p}, q, t) <=> Met(pl, nd, ps, q, t))
           /\ \A t : Met(pl, nd, ps \ {p}, p, t) <=> (t = nd \/ Met(pl, nd, ps, p, t))
           /\ ~Met(pl, nd, ps, p, nd) /\ nd \in Targets(g, p) /\ p \in AllFiles(g) /\ p \in DOMAIN g
           /\ \A t : t \in MetTargets(g, pl, nd, ps \ {p}, p) <=> t = nd \/ t \in MetTargets(g, pl, nd, ps, p)
           /\ \A q, t : q # p =>
                (t \in MetTargets(g, pl, nd, ps \ {p}, q) <=> t \in MetTargets(g, pl, nd, ps, q))
<1>1. \A q, t : q # p => (Met(pl, nd, ps \ {p}, q, t) <=> Met(pl, nd, ps, q, t))  BY DEF Met
<1>2. \A t : Met(pl, nd, ps \ {p}, p, t) <=> (t = nd \/ Met(pl, nd, ps, p, t))  BY DEF Met
<1>3. ~Met(pl, nd, ps, p, nd)  BY DEF Met
<1>4. nd \in Targets(g, p) /\ p \in AllFiles(g) /\ p \in DOMAIN g  BY DEF Importers, AllFiles
<1>5. \A t : t \in MetTargets(g, pl, nd, ps \ {p}, p) <=> t = nd \/ t \in MetTargets(g, pl, nd, ps, p)
  BY <1>2, <1>4 DEF MetTargets
<1>6. \A q, t : q # p =>
        (t \in MetTargets(g, pl, nd, ps \ {p}, q) <=> t \in MetTargets(g, pl, nd, ps, q))
  BY <1>1 DEF MetTargets
<1> QED BY <1>1, <1>2, <1>3, <1>4, <1>5, <1>6

(* Its count falls by its imports of the file, and not below zero.         *)
LEMMA VisitCounts ==
    ASSUME graph \in Graphs, NEW cnt, NEW pl, NEW nd \in pl, NEW ps, CountInv(graph, cnt, pl, nd, ps),
           NEW p \in ps, p \in Importers(graph, nd),
           NEW cnt2, cnt2 = Discounted(cnt, nd, p)
    PROVE  CountInv(graph, cnt2, pl, nd, ps \ {p})
<1> DEFINE edges == EdgesAt(graph, p)
<1> DEFINE here == {i \in DOMAIN edges : edges[i] = nd}
<1> DEFINE before == Waits(graph, pl, nd, ps, p)
<1> DEFINE after == Waits(graph, pl, nd, ps \ {p}, p)
<1>1. DOMAIN cnt = AllFiles(graph) /\ \A q \in AllFiles(graph) : cnt[q] = Cardinality(Waits(graph, pl, nd, ps, q))
  BY DEF CountInv
<1>2. p \in AllFiles(graph) /\ p \in DOMAIN graph /\ edges = graph[p]  BY VisitMeets DEF EdgesAt
<1>3. here \subseteq before /\ after = before \ here
  <2>1. ~Met(pl, nd, ps, p, nd)  BY VisitMeets
  <2>2. \A t : Met(pl, nd, ps \ {p}, p, t) <=> (t = nd \/ Met(pl, nd, ps, p, t))  BY VisitMeets
  <2> QED BY <2>1, <2>2 DEF Waits
<1>4. Imports(p, nd) = Cardinality(here)  BY <1>2 DEF Imports
<1>5. IsFiniteSet(before) /\ Cardinality(before) \in Nat  BY WaitsAreFinite
<1>6. cnt[p] = Cardinality(before)  BY <1>1, <1>2
<1> HIDE DEF before, after, here, edges
<1>7. IsFiniteSet(here) /\ Cardinality(here) <= Cardinality(before)  BY <1>3, <1>5, FS_Subset
<1>8. Cardinality(here) \in Nat  BY <1>7, FS_CardinalityType
<1>9. before \cap here = here  BY <1>3
<1>10. Cardinality(after) = Cardinality(before) - Cardinality(here)  BY <1>3, <1>5, <1>9, FS_Difference
<1>11. cnt2[p] = IF Imports(p, nd) < cnt[p] THEN cnt[p] - Imports(p, nd) ELSE 0  BY <1>1, <1>2 DEF Discounted
<1>12. cnt2[p] = Cardinality(after)
  BY <1>4, <1>5, <1>6, <1>7, <1>8, <1>10, <1>11
<1>13. ASSUME NEW q \in AllFiles(graph), q # p
       PROVE  cnt2[q] = Cardinality(Waits(graph, pl, nd, ps \ {p}, q))
  <2>1. \A t : Met(pl, nd, ps \ {p}, q, t) <=> Met(pl, nd, ps, q, t)  BY <1>13, VisitMeets
  <2>2. Waits(graph, pl, nd, ps \ {p}, q) = Waits(graph, pl, nd, ps, q)  BY <2>1 DEF Waits
  <2>3. cnt2[q] = cnt[q]  BY <1>1, <1>13 DEF Discounted
  <2> QED BY <1>1, <2>2, <2>3
<1>14. DOMAIN cnt2 = AllFiles(graph)  BY <1>1 DEF Discounted
<1> QED BY <1>12, <1>13, <1>14 DEF CountInv, after

(* Its level rises above that of the file.                                 *)
LEMMA VisitRaises ==
    ASSUME NEW g, NEW lv, NEW pl, NEW nd \in pl, NEW ps, RaisedInv(g, lv, pl, nd, ps),
           NEW p \in ps, p \in Importers(g, nd), p \notin pl,
           NEW lv2, lv2 = Lifted(lv, nd, p)
    PROVE  RaisedInv(g, lv2, pl, nd, ps \ {p})
<1> DEFINE Before(f) == MetTargets(g, pl, nd, ps, f)
<1> DEFINE After(f) == MetTargets(g, pl, nd, ps \ {p}, f)
<1>1. /\ pl \subseteq DOMAIN lv /\ DOMAIN lv \subseteq AllFiles(g)
      /\ \A f \in DOMAIN lv : lv[f] \in Nat /\ (EdgesAt(g, f) = <<>> => lv[f] = 0)
      /\ \A f \in AllFiles(g) : f \in DOMAIN lv <=> EdgesAt(g, f) = <<>> \/ Before(f) # {}
      /\ \A f \in AllFiles(g) : \A t \in Before(f) : lv[t] < lv[f]
      /\ \A f \in AllFiles(g) : Before(f) # {} => \E t \in Before(f) : lv[f] = lv[t] + 1
  BY DEF RaisedInv
<1>2. /\ p \in AllFiles(g)
      /\ \A t : t \in After(p) <=> t = nd \/ t \in Before(p)
      /\ \A q, t : q # p => (t \in After(q) <=> t \in Before(q))
  BY VisitMeets
<1>3. EdgesAt(g, p) # <<>>
  <2>1. nd \in Targets(g, p)  BY VisitMeets
  <2>2. PICK i \in DOMAIN EdgesAt(g, p) : EdgesAt(g, p)[i] = nd  BY <2>1, TargetsAreEdges
  <2> QED BY <2>2
<1>4. \A f : \A t \in Before(f) : t \in pl  BY DEF MetTargets, Met
<1>5. \A f : \A t \in After(f) : t \in pl  BY DEF MetTargets, Met
<1> HIDE DEF Before, After
<1>6. nd \in DOMAIN lv /\ lv[nd] \in Nat  BY <1>1
<1>7. \A f \in DOMAIN lv : f # p => lv2[f] = lv[f]  BY DEF Lifted
<1>8. \A t \in pl : t \in DOMAIN lv /\ lv2[t] = lv[t] /\ lv[t] \in Nat  BY <1>1, <1>7
<1>9. DOMAIN lv2 = DOMAIN lv \cup {p}  BY DEF Lifted
<1>10. lv2[p] = IF p \in DOMAIN lv /\ lv[nd] + 1 <= lv[p] THEN lv[p] ELSE lv[nd] + 1  BY DEF Lifted
<1>11. p \in DOMAIN lv => lv[p] \in Nat /\ lv[p] <= lv2[p]  BY <1>1, <1>6, <1>10
<1>12. lv2[p] \in Nat /\ lv[nd] < lv2[p]  BY <1>6, <1>10, <1>11
<1>13. p \in DOMAIN lv <=> Before(p) # {}  BY <1>1, <1>2, <1>3
<1>14. pl \subseteq DOMAIN lv2 /\ DOMAIN lv2 \subseteq AllFiles(g)  BY <1>1, <1>2, <1>9
<1>15. \A f \in DOMAIN lv2 : lv2[f] \in Nat /\ (EdgesAt(g, f) = <<>> => lv2[f] = 0)
  BY <1>1, <1>3, <1>7, <1>9, <1>12
<1>16. \A f \in AllFiles(g) : f \in DOMAIN lv2 <=> EdgesAt(g, f) = <<>> \/ After(f) # {}
  BY <1>1, <1>2, <1>9
<1>17. ASSUME NEW f \in AllFiles(g), NEW t \in After(f) PROVE lv2[t] < lv2[f]
  <2>1. lv2[t] = lv[t] /\ lv[t] \in Nat  BY <1>5, <1>8
  <2>2. CASE f = p
    <3>1. CASE t = nd  BY <1>12, <2>1, <2>2, <3>1
    <3>2. CASE t # nd
      <4>1. t \in Before(p)  BY <1>2, <2>2, <3>2
      <4>2. lv[t] < lv[p] /\ p \in DOMAIN lv  BY <1>1, <1>2, <1>13, <4>1
      <4> QED BY <1>11, <1>12, <2>1, <2>2, <4>2
    <3> QED BY <3>1, <3>2
  <2>3. CASE f # p
    <3>1. t \in Before(f)  BY <1>2, <2>3
    <3>2. f \in DOMAIN lv  BY <1>1, <3>1
    <3> QED BY <1>1, <1>7, <2>1, <2>3, <3>1, <3>2
  <2> QED BY <2>2, <2>3
<1>18. ASSUME NEW f \in AllFiles(g), After(f) # {} PROVE \E t \in After(f) : lv2[f] = lv2[t] + 1
  <2>1. \A t \in After(f) : lv2[t] = lv[t]  BY <1>5, <1>8
  <2>2. CASE f = p /\ lv2[p] = lv[nd] + 1  BY <1>2, <2>1, <2>2
  <2>3. CASE f = p /\ lv2[p] # lv[nd] + 1
    <3>1. p \in DOMAIN lv /\ lv2[p] = lv[p]  BY <1>10, <2>3
    <3>2. PICK t \in Before(p) : lv[p] = lv[t] + 1  BY <1>1, <1>2, <1>13, <3>1
    <3> QED BY <1>2, <2>1, <2>3, <3>1, <3>2
  <2>4. CASE f # p
    <3>1. PICK t \in Before(f) : lv[f] = lv[t] + 1  BY <1>1, <1>2, <1>18, <2>4
    <3>2. f \in DOMAIN lv  BY <1>1, <3>1
    <3> QED BY <1>2, <1>7, <2>1, <2>4, <3>1, <3>2
  <2> QED BY <2>2, <2>3, <2>4
<1> QED BY <1>14, <1>15, <1>16, <1>17, <1>18 DEF RaisedInv, After

LEMMA PeeledMembers ==
    ASSUME NEW cnt, NEW r, NEW f
    PROVE  f \in Peeled(cnt, r) <=> f \in DOMAIN cnt /\ cnt[f] = 0 /\ f \notin Range(r)
BY DEF Peeled

LEMMA VisitKeepsPeel ==
    ASSUME graph \in Graphs, NEW cnt, NEW lv, NEW r, NEW nd, NEW ps, PeelInv(graph, cnt, lv, r, nd, ps),
           NEW p \in ps,
           NEW lv2, lv2 = Lifted(lv, nd, p),
           NEW cnt2, cnt2 = Discounted(cnt, nd, p),
           NEW r2, r2 = IF cnt2[p] = 0 THEN Append(r, p) ELSE r
    PROVE  PeelInv(graph, cnt2, lv2, r2, nd, ps \ {p})
<1> DEFINE pl == Peeled(cnt, r)
<1>1. /\ CountInv(graph, cnt, pl, nd, ps) /\ RaisedInv(graph, lv, pl, nd, ps)
      /\ r \in Seq(AllFiles(graph)) /\ IsInjective(r) /\ \A f \in Range(r) : cnt[f] = 0
      /\ p \in Importers(graph, nd) /\ nd \in pl /\ ps \subseteq Importers(graph, nd)
  BY DEF PeelInv
<1>2. /\ p \in AllFiles(graph) /\ nd \in Targets(graph, p) /\ ~Met(pl, nd, ps, p, nd)
  BY <1>1, VisitMeets
<1>3. cnt[p] # 0 /\ DOMAIN cnt = AllFiles(graph)  BY <1>1, <1>2, NothingToWaitFor DEF CountInv
<1>4. p \notin Range(r) /\ p \notin pl  BY <1>1, <1>3 DEF Peeled
<1>5. DOMAIN cnt2 = DOMAIN cnt /\ \A f \in DOMAIN cnt : f # p => cnt2[f] = cnt[f]  BY DEF Discounted
<1>6. r2 \in Seq(AllFiles(graph)) /\ Range(r2) = IF cnt2[p] = 0 THEN Range(r) \cup {p} ELSE Range(r)
  <2>1. CASE cnt2[p] = 0
    <3>1. r2 = Append(r, p)  BY <2>1
    <3>2. r2 \in Seq(AllFiles(graph))  BY <1>1, <1>2, <3>1
    <3>3. Range(r2) = Range(r) \cup {p}
      <4>1. Len(r) \in Nat /\ DOMAIN r = 1..Len(r) /\ DOMAIN r2 = 1..Len(r) + 1  BY <1>1, <1>2, <3>1
      <4>2. \A k \in DOMAIN r : k \in DOMAIN r2 /\ r2[k] = r[k]  BY <1>1, <1>2, <3>1, <4>1
      <4>3. Len(r) + 1 \in DOMAIN r2 /\ r2[Len(r) + 1] = p  BY <1>1, <1>2, <3>1, <4>1
      <4>4. \A k \in DOMAIN r2 : k \in DOMAIN r \/ k = Len(r) + 1  BY <4>1
      <4> QED BY <4>2, <4>3, <4>4 DEF Range
    <3> QED BY <2>1, <3>2, <3>3
  <2>2. CASE cnt2[p] # 0  BY <1>1, <2>2
  <2> QED BY <2>1, <2>2
<1>7. IsInjective(r2)
  <2>1. CASE cnt2[p] = 0
    <3>1. r2 = Append(r, p)  BY <2>1
    <3>2. Len(r) \in Nat /\ DOMAIN r = 1..Len(r) /\ DOMAIN r2 = 1..Len(r) + 1  BY <1>1, <1>2, <3>1
    <3>3. \A k \in DOMAIN r : r2[k] = r[k] /\ r[k] # p  BY <1>1, <1>2, <1>4, <3>1, <3>2 DEF Range
    <3>4. r2[Len(r) + 1] = p  BY <1>1, <1>2, <3>1, <3>2
    <3>5. \A k \in DOMAIN r2 : k \in DOMAIN r \/ k = Len(r) + 1  BY <3>2
    <3>6. \A a, b \in DOMAIN r : r[a] = r[b] => a = b  BY <1>1 DEF IsInjective
    <3> QED BY <3>3, <3>4, <3>5, <3>6 DEF IsInjective
  <2>2. CASE cnt2[p] # 0  BY <1>1, <2>2
  <2> QED BY <2>1, <2>2
<1>8. \A f \in Range(r2) : cnt2[f] = 0
  <2> SUFFICES ASSUME NEW f \in Range(r2) PROVE cnt2[f] = 0
    OBVIOUS
  <2>1. CASE f \in Range(r)
    <3>1. f \in AllFiles(graph)  BY <1>1, <2>1 DEF Range
    <3> QED BY <1>1, <1>3, <1>4, <1>5, <2>1, <3>1
  <2>2. CASE f \notin Range(r)  BY <1>6, <2>2
  <2> QED BY <2>1, <2>2
<1>9. Peeled(cnt2, r2) = pl
  <2>1. p \notin Peeled(cnt2, r2)  BY <1>6 DEF Peeled
  <2>2. ASSUME NEW f, f # p PROVE f \in Peeled(cnt2, r2) <=> f \in pl
    <3>1. f \in Range(r2) <=> f \in Range(r)  BY <1>6, <2>2
    <3>2. f \in DOMAIN cnt2 /\ cnt2[f] = 0 <=> f \in DOMAIN cnt /\ cnt[f] = 0  BY <1>5, <2>2
    <3>3. f \in Peeled(cnt2, r2) <=> f \in DOMAIN cnt2 /\ cnt2[f] = 0 /\ f \notin Range(r2)  BY PeeledMembers
    <3>4. f \in pl <=> f \in DOMAIN cnt /\ cnt[f] = 0 /\ f \notin Range(r)  BY PeeledMembers
    <3> QED BY <3>1, <3>2, <3>3, <3>4
  <2>3. Peeled(cnt2, r2) \subseteq pl /\ pl \subseteq Peeled(cnt2, r2)  BY <1>4, <2>1, <2>2
  <2> QED BY <2>3
<1> HIDE DEF pl
<1>10. CountInv(graph, cnt2, pl, nd, ps \ {p})  BY <1>1, VisitCounts
<1>11. RaisedInv(graph, lv2, pl, nd, ps \ {p})  BY <1>1, <1>4, VisitRaises
<1>12. ps \ {p} \subseteq Importers(graph, nd)  BY <1>1
<1> QED BY <1>1, <1>6, <1>7, <1>8, <1>9, <1>10, <1>11, <1>12 DEF PeelInv

-----------------------------------------------------------------------------
LEMMA QueueLeavesKeeps == ASSUME graph \in Graphs, LevelInv, QueueLeaves PROVE LevelInv'
<1>1. /\ phase = "leaves" /\ ready' \in Orders(Leaves) /\ phase' = "peel"
      /\ UNCHANGED <<graph, count, levels, node, parents, rows, cells>>
  BY DEF QueueLeaves
<1>2. /\ count = [f \in AllFiles(graph) |-> Len(EdgesAt(graph, f))]
      /\ levels = [f \in Leaves |-> 0] /\ parents = {}
  BY <1>1 DEF LevelInv
<1>3. PeelInv(graph, count, levels, ready', node, {})  BY <1>1, <1>2, PeelStarts
<1> QED BY <1>1, <1>2, <1>3 DEF LevelInv

LEMMA TakeNodeKeeps == ASSUME graph \in Graphs, LevelInv, TakeNode PROVE LevelInv'
<1>1. /\ phase = "peel" /\ parents = {} /\ ready # <<>>
      /\ node' = Head(ready) /\ ready' = Tail(ready) /\ parents' = Importers(graph, Head(ready))
      /\ UNCHANGED <<graph, phase, count, levels, rows, cells>>
  BY DEF TakeNode
<1>2. PeelInv(graph, count, levels, ready, node, {})  BY <1>1 DEF LevelInv
<1>3. PeelInv(graph, count, levels, Tail(ready), Head(ready), Importers(graph, Head(ready)))
  BY <1>1, <1>2, TakeKeepsPeel
<1> QED BY <1>1, <1>3 DEF LevelInv

LEMMA VisitParentKeeps == ASSUME graph \in Graphs, LevelInv, VisitParent PROVE LevelInv'
<1>1. phase = "peel" /\ UNCHANGED <<graph, phase, node, rows, cells>>  BY DEF VisitParent
<1>2. PICK p \in parents :
        /\ parents' = parents \ {p}
        /\ levels' = [f \in DOMAIN levels \cup {p} |->
                         IF f = p THEN Raised(p, levels[node] + 1) ELSE levels[f]]
        /\ count' = [count EXCEPT ![p] = IF Imports(p, node) < @ THEN @ - Imports(p, node) ELSE 0]
        /\ ready' = IF count'[p] = 0 THEN Append(ready, p) ELSE ready
  BY DEF VisitParent
<1>3. levels' = Lifted(levels, node, p)  BY <1>2 DEF Lifted, Raised
<1>4. count' = Discounted(count, node, p)  BY <1>2 DEF Discounted
<1>5. PeelInv(graph, count, levels, ready, node, parents)  BY <1>1 DEF LevelInv
<1>6. parents' = parents \ {p} /\ ready' = IF count'[p] = 0 THEN Append(ready, p) ELSE ready  BY <1>2
<1>7. PeelInv(graph, count', levels', ready', node, parents \ {p})
  BY <1>3, <1>4, <1>5, <1>6, VisitKeepsPeel
<1> QED BY <1>1, <1>6, <1>7 DEF LevelInv

-----------------------------------------------------------------------------
(* When nothing is ready, the peeled files are closed under imports and    *)
(* hold every grounded file.                                               *)
LEMMA GroundedArePeeled ==
    ASSUME graph \in Graphs, NEW cnt, NEW lv, NEW nd, PeelInv(graph, cnt, lv, <<>>, nd, {})
    PROVE  /\ \A f \in AllFiles(graph) : Grounded(graph, f) => f \in Peeled(cnt, <<>>)
           /\ \A f \in Peeled(cnt, <<>>) :
                /\ f \in AllFiles(graph) /\ f \in DOMAIN lv
                /\ \A t \in Targets(graph, f) : t \in Peeled(cnt, <<>>) /\ lv[t] < lv[f]
                /\ Targets(graph, f) = {} => lv[f] = 0
                /\ Targets(graph, f) # {} => \E t \in Targets(graph, f) : lv[f] = lv[t] + 1
<1> DEFINE pl == Peeled(cnt, <<>>)
<1>1. CountInv(graph, cnt, pl, nd, {}) /\ RaisedInv(graph, lv, pl, nd, {})  BY DEF PeelInv
<1>2. DOMAIN cnt = AllFiles(graph)  BY <1>1 DEF CountInv
<1>3. \A f : f \in pl <=> f \in AllFiles(graph) /\ cnt[f] = 0
  <2>1. \A f : f \notin Range(<<>>)  BY DEF Range
  <2>2. \A f : f \in pl <=> f \in DOMAIN cnt /\ cnt[f] = 0 /\ f \notin Range(<<>>)  BY PeeledMembers
  <2> QED BY <1>2, <2>1, <2>2
<1> HIDE DEF pl
<1>4. \A p, t : Met(pl, nd, {}, p, t) <=> t \in pl  BY DEF Met
<1>5. \A f \in AllFiles(graph) : f \in pl <=> Targets(graph, f) \subseteq pl
  BY <1>1, <1>3, <1>4, NothingToWaitFor
<1>6. pl \subseteq AllFiles(graph)  BY <1>3
<1>7. \A f \in AllFiles(graph) : Grounded(graph, f) => f \in pl  BY <1>5, <1>6 DEF Grounded
<1>8. ASSUME NEW f \in pl
      PROVE  /\ f \in AllFiles(graph) /\ f \in DOMAIN lv
             /\ \A t \in Targets(graph, f) : t \in pl /\ lv[t] < lv[f]
             /\ Targets(graph, f) = {} => lv[f] = 0
             /\ Targets(graph, f) # {} => \E t \in Targets(graph, f) : lv[f] = lv[t] + 1
  <2>1. f \in AllFiles(graph) /\ f \in DOMAIN lv  BY <1>1, <1>6 DEF RaisedInv
  <2>2. \A t : t \in MetTargets(graph, pl, nd, {}, f) <=> t \in Targets(graph, f)
    BY <1>4, <1>5, <2>1 DEF MetTargets
  <2>3. \A t \in Targets(graph, f) : t \in pl /\ lv[t] < lv[f]  BY <1>1, <1>5, <2>1, <2>2 DEF RaisedInv
  <2>4. Targets(graph, f) # {} => \E t \in Targets(graph, f) : lv[f] = lv[t] + 1
    BY <1>1, <2>1, <2>2 DEF RaisedInv
  <2>5. Targets(graph, f) = {} => lv[f] = 0
    <3> SUFFICES ASSUME Targets(graph, f) = {} PROVE lv[f] = 0
      OBVIOUS
    <3>1. EdgesAt(graph, f) \in Seq(Nat)  BY EdgesAreFinite
    <3>2. \A i \in DOMAIN EdgesAt(graph, f) : FALSE  BY TargetsAreEdges
    <3>3. Len(EdgesAt(graph, f)) = 0
      <4>1. Len(EdgesAt(graph, f)) \in Nat /\ DOMAIN EdgesAt(graph, f) = 1..Len(EdgesAt(graph, f))  BY <3>1
      <4> QED BY <3>2, <4>1
    <3>4. EdgesAt(graph, f) = <<>>  BY <3>1, <3>3
    <3> QED BY <1>1, <2>1, <3>4 DEF RaisedInv
  <2> QED BY <2>1, <2>3, <2>4, <2>5
<1> QED BY <1>7, <1>8 DEF pl

(* The end: what the matrix promises.                                      *)
LEMMA EndLevelsKeeps == ASSUME graph \in Graphs, LevelInv, EndLevels PROVE LevelInv'
<1> DEFINE pl == Peeled(count, <<>>)
<1>1. /\ phase = "peel" /\ parents = {} /\ ready = <<>> /\ phase' = "done"
      /\ levels' = [f \in AllFiles(graph) |-> IF f \in DOMAIN levels THEN levels[f] ELSE Highest + 1]
      /\ graph' = graph
  BY DEF EndLevels
<1>2. PICK order \in Orders(DOMAIN graph) :
        /\ \A i, k \in DOMAIN order : i < k => RowBefore(order[i], order[k])
        /\ rows' = order
        /\ cells' = [i \in DOMAIN order |-> [k \in DOMAIN order |-> order[k] \in Targets(graph, order[i])]]
  BY DEF EndLevels
<1>3. PeelInv(graph, count, levels, <<>>, node, {})  BY <1>1 DEF LevelInv
<1>4. \A f \in AllFiles(graph) : Grounded(graph, f) => f \in pl  BY <1>3, GroundedArePeeled
<1>5. \A f \in pl :
        /\ f \in AllFiles(graph) /\ f \in DOMAIN levels
        /\ \A t \in Targets(graph, f) : t \in pl /\ levels[t] < levels[f]
        /\ Targets(graph, f) = {} => levels[f] = 0
        /\ Targets(graph, f) # {} => \E t \in Targets(graph, f) : levels[f] = levels[t] + 1
  BY <1>3, GroundedArePeeled
<1>6. \A f \in DOMAIN levels : levels[f] \in Nat  BY <1>3 DEF PeelInv, RaisedInv
<1> HIDE DEF pl
<1>7. \A f \in pl : levels'[f] = levels[f] /\ levels[f] \in Nat  BY <1>1, <1>5, <1>6
<1>9. ASSUME NEW f \in AllFiles(graph), Grounded(graph, f)
      PROVE  \/ Targets(graph, f) = {} /\ levels'[f] = 0
             \/ \E t \in Targets(graph, f) :
                  levels'[f] = levels'[t] + 1 /\ \A u \in Targets(graph, f) : levels'[u] <= levels'[t]
  <2>1. f \in pl  BY <1>4, <1>9
  <2>2. CASE Targets(graph, f) = {}  BY <1>5, <1>7, <2>1, <2>2
  <2>3. CASE Targets(graph, f) # {}
    <3>1. PICK t \in Targets(graph, f) : levels[f] = levels[t] + 1  BY <1>5, <2>1, <2>3
    <3>2. t \in pl /\ levels'[f] = levels'[t] + 1 /\ levels'[t] \in Nat  BY <1>5, <1>7, <2>1, <3>1
    <3>3. ASSUME NEW u \in Targets(graph, f) PROVE levels'[u] <= levels'[t]
      <4>1. u \in pl /\ levels[u] < levels[f]  BY <1>5, <2>1
      <4>2. levels'[u] < levels'[f] /\ levels'[u] \in Nat  BY <1>7, <2>1, <4>1
      <4> QED BY <3>2, <4>2
    <3> QED BY <3>2, <3>3
  <2> QED BY <2>2, <2>3
<1>10. Exactly(order, DOMAIN graph) /\ Range(order) = DOMAIN graph /\ DOMAIN order \subseteq Int
  <2>1. order \in [1..Cardinality(DOMAIN graph) -> DOMAIN graph] /\ Range(order) = DOMAIN graph
    BY <1>2 DEF Orders
  <2>2. Cardinality(DOMAIN graph) \in Nat  BY GraphsAssumption, FS_CardinalityType
  <2> QED BY <2>1, <2>2 DEF Exactly
<1>11. ASSUME NEW i \in DOMAIN order, NEW k \in DOMAIN order
       PROVE  cells'[i][k] <=> order[k] \in Targets(graph, order[i])
  BY <1>2
<1>12. ASSUME NEW i \in DOMAIN order, NEW k \in DOMAIN order, order[k] \in Targets(graph, order[i]),
              Grounded(graph, order[i])
       PROVE  k < i
  <2>1. order[i] \in AllFiles(graph)  BY <1>10 DEF Range, AllFiles
  <2>2. order[i] \in pl /\ order[k] \in pl /\ levels[order[k]] < levels[order[i]]
    BY <1>4, <1>5, <1>12, <2>1
  <2>3. /\ levels'[order[k]] < levels'[order[i]]
        /\ levels'[order[k]] \in Nat /\ levels'[order[i]] \in Nat
    BY <1>7, <2>2
  <2>4. ~RowBefore(order[i], order[k])  BY <2>3 DEF RowBefore
  <2>5. ~(i < k) /\ i # k  BY <1>2, <2>3, <2>4
  <2> QED BY <1>10, <2>5
<1>13. DOMAIN levels' = AllFiles(graph)  BY <1>1
<1>14. \A f \in AllFiles(graph') : Grounded(graph', f) =>
         \/ Targets(graph', f) = {} /\ levels'[f] = 0
         \/ \E t \in Targets(graph', f) :
              levels'[f] = levels'[t] + 1 /\ \A u \in Targets(graph', f) : levels'[u] <= levels'[t]
  BY <1>1, <1>9
<1>15. \A i, k \in DOMAIN rows' :
         /\ cells'[i][k] <=> rows'[k] \in Targets(graph', rows'[i])
         /\ cells'[i][k] /\ Grounded(graph', rows'[i]) => k < i
  <2>1. ASSUME NEW i \in DOMAIN order, NEW k \in DOMAIN order, cells'[i][k], Grounded(graph, order[i]) PROVE k < i
    <3>1. order[k] \in Targets(graph, order[i])  BY <1>11, <2>1
    <3> QED BY <1>12, <2>1, <3>1
  <2>2. rows' = order /\ graph' = graph  BY <1>1, <1>2
  <2> QED BY <1>11, <2>1, <2>2
<1>16. LevelsAreHeights'
  <2>1. Exactly(rows', DOMAIN graph') /\ DOMAIN levels' = AllFiles(graph')  BY <1>1, <1>2, <1>10, <1>13
  <2> QED BY <1>14, <1>15, <2>1 DEF LevelsAreHeights
<1> QED BY <1>1, <1>16 DEF LevelInv

LEMMA LevelKeeps == ASSUME graph \in Graphs, LevelInv, LevelNext PROVE LevelInv'
BY QueueLeavesKeeps, TakeNodeKeeps, VisitParentKeeps, EndLevelsKeeps DEF LevelNext

-----------------------------------------------------------------------------
(* A query is a walk, beside a matrix not begun, or a matrix, beside a     *)
(* walk that never returns.                                                *)
QueryInv ==
    /\ graph \in Graphs /\ call \in Calls
    /\ IF call.kind = "matrix" THEN LevelInv /\ ~returned ELSE WalkInv /\ phase = "leaves"

LEMMA QueryStarts == QueryInit(Graphs, Calls) => QueryInv
<1> SUFFICES ASSUME QueryInit(Graphs, Calls) PROVE QueryInv
  OBVIOUS
<1>1. graph \in Graphs /\ WalkInit(Calls) /\ LevelInit  BY DEF QueryInit
<1>2. call \in Calls /\ ~returned  BY <1>1 DEF WalkInit
<1>3. WalkInv  BY <1>1, <1>2, WalkStarts
<1>4. LevelInv /\ phase = "leaves"  BY <1>1 DEF LevelInit, LevelInv
<1> QED BY <1>1, <1>2, <1>3, <1>4 DEF QueryInv

LEMMA QueryKeeps == QueryInv /\ [QueryNext]_queryVars => QueryInv'
<1> SUFFICES ASSUME QueryInv, [QueryNext]_queryVars PROVE QueryInv'
  OBVIOUS
<1>1. graph \in Graphs /\ call \in Calls  BY DEF QueryInv
<1>2. CASE call.kind # "matrix" /\ WalkNext /\ UNCHANGED levelVars
  <2>1. WalkInv /\ phase = "leaves"  BY <1>2 DEF QueryInv
  <2>2. WalkInv'  BY <1>1, <1>2, <2>1, WalkKeeps
  <2>3. phase' = phase  BY <1>2 DEF levelVars
  <2>4. graph' = graph /\ call' = call
    BY <1>2 DEF WalkNext, TakeFile, FollowEdge, FollowEitherWay, EndWalk
  <2> QED BY <1>1, <1>2, <2>1, <2>2, <2>3, <2>4 DEF QueryInv
<1>3. CASE call.kind = "matrix" /\ LevelNext /\ UNCHANGED <<call, walkVars>>
  <2>1. LevelInv /\ ~returned  BY <1>3 DEF QueryInv
  <2>2. LevelInv'  BY <1>1, <1>3, <2>1, LevelKeeps
  <2>3. call' = call /\ returned' = returned  BY <1>3 DEF walkVars
  <2>4. graph' = graph  BY <1>3 DEF LevelNext, QueueLeaves, TakeNode, VisitParent, EndLevels
  <2> QED BY <1>1, <1>3, <2>1, <2>2, <2>3, <2>4 DEF QueryInv
<1>4. CASE UNCHANGED queryVars
  <2>1. /\ graph' = graph /\ call' = call /\ UNCHANGED walkVars /\ UNCHANGED levelVars
    BY <1>4 DEF queryVars
  <2>2. WalkInv => WalkInv'
    BY <2>1 DEF walkVars, WalkInv, HitsAreNearest, DepthsAreNearest
  <2>3. LevelInv => LevelInv'
    BY <2>1 DEF levelVars, LevelInv, LevelsAreHeights, Leaves
  <2>4. returned' = returned /\ phase' = phase  BY <2>1 DEF walkVars, levelVars
  <2> QED BY <2>1, <2>2, <2>3, <2>4 DEF QueryInv
<1> QED BY <1>2, <1>3, <1>4 DEF QueryNext

LEMMA QueryInvGives == QueryInv => WalksAreShortest
<1>1. WalkInv => HitsAreNearest /\ DepthsAreNearest  BY WalkInvGives
<1>2. phase = "leaves" \/ LevelInv => LevelsAreHeights  BY DEF LevelInv, LevelsAreHeights
<1>3. ~returned => HitsAreNearest /\ DepthsAreNearest  BY DEF HitsAreNearest, DepthsAreNearest
<1> QED BY <1>1, <1>2, <1>3 DEF QueryInv, WalksAreShortest

(* Whatever the graph and whatever the call: a walk finds the files within *)
(* its depth, each once, with its distance and the nearest first, whether  *)
(* it follows the imports, goes against them or both; and in the matrix a  *)
(* file that reaches no cycle stands one above the highest of its imports  *)
(* and to the right of all of them.                                        *)
THEOREM QueriesAreExact == QuerySpec => []WalksAreShortest
<1>1. QueryInit(Graphs, Calls) => QueryInv  BY QueryStarts
<1>2. QueryInv /\ [QueryNext]_queryVars => QueryInv'  BY QueryKeeps
<1>3. QueryInv => WalksAreShortest  BY QueryInvGives
<1> QED BY <1>1, <1>2, <1>3, PTL DEF QuerySpec
=============================================================================
