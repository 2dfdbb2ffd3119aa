---------------------------- MODULE SurfaceProofs ----------------------------
(***************************************************************************)
(* The surface of every crate is sound and complete.  The invariant is     *)
(* about the frames that are left: what a frame may show under a module is *)
(* a fact there, an entry is a module's own, a method of its types or      *)
(* brought, and of a module that was walked everything public is listed or *)
(* still to come.  The declarations of a module come before its re-exports *)
(* (DeclsFirst), so no re-export takes the place of a declaration.         *)
(***************************************************************************)
EXTENDS SurfaceFacts, AlgorithmProofs

-----------------------------------------------------------------------------
(* The surface of a crate.  What an item of one module means, another      *)
(* module may show under a name.                                           *)
Means(fs, m, item, from, name) ==
    \A f \in fs : f[1] = m /\ f[2] = item => <<from, name, f[3]>> \in fs

Passes(fs, m, from) == \A f \in fs : f[1] = m => <<from, f[2], f[3]>> \in fs

(* What a frame is about is there, and what it may show is a fact.         *)
FrameSound(c, fs, fr) ==
    /\ fr.op \in {"decl", "method"} => fr.decl \in Range(c[fr.from].decls)
    /\ fr.op = "method" => fr.method \in Range(fr.decl.methods)
    /\ fr.op = "mod" => fr.child \in Range(c[fr.from].mods)
    /\ fr.op = "use" => fr.use \in Range(c[fr.from].uses)
    /\ fr.op \in {"show", "via"} => fr.module \in DOMAIN c /\ Passes(fs, fr.module, fr.from)
    /\ fr.op = "show" => fr.decl \in Range(c[fr.module].decls)
    /\ fr.op = "via" => fr.use \in Range(c[fr.module].uses)
    /\ fr.op = "republish" => Means(fs, fr.module, fr.item, fr.from, fr.alias)
    /\ fr.op = "follow" =>
        /\ fr.call.from = fr.from /\ fr.call.module \in DOMAIN c /\ fr.use \in Range(c[fr.call.module].uses)
        /\ Means(fs, fr.call.module, fr.call.item, fr.from, fr.call.alias)

IsSeq(s) == s \in Seq(Range(s))

FramesSound(c, fs, w, cs) ==
    /\ IsSeq(cs)
    /\ \A fr \in Range(cs) : fr.from \in w /\ fr.from \in DOMAIN c /\ FrameSound(c, fs, fr)

(* The declarations of a module come before all else in it.                *)
DeclsFirst(cs) ==
    \A j, k \in DOMAIN cs : j < k /\ cs[j].op = "decl" => cs[k].op \in {"decl", "method"}

IsOwn(c, m, e) ==
    \E d \in Range(c[m].decls) : d.public /\ e.path = Append(m, d.name) /\ e.source = <<m, d.name>>

IsOfType(c, m, e) ==
    \E d \in Range(c[m].decls) : \E x \in Range(d.methods) :
        e.path = m \o <<d.name, x.name>> /\ e.source = <<m, d.name, x.name>>

IsBrought(fs, m, e) == \E f \in fs : f[1] = m /\ e.path = Append(m, f[2]) /\ e.source = f[3]

DeclaresNo(cs, m) == \A fr \in Range(cs) : fr.op = "decl" => fr.from # m

(* An entry is a module's own, a method of its types, or, when all its own *)
(* have been listed, brought into it.                                      *)
EntrySound(c, fs, w, cs, e) ==
    \E m \in w \cap DOMAIN c :
        IsOwn(c, m, e) \/ IsOfType(c, m, e) \/ (IsBrought(fs, m, e) /\ DeclaresNo(cs, m))

EntriesSound(c, fs, w, cs, es) == IsSeq(es) /\ \A e \in Range(es) : EntrySound(c, fs, w, cs, e)

HasPathOf(e, m, d) == e.path = Append(m, d.name)

Lists(e, m, d) == e.path = Append(m, d.name) /\ e.source = <<m, d.name>>

Listed(es, m, d) == \E e \in Range(es) : Lists(e, m, d)

(* Of a module that was walked nothing is forgotten.                       *)
DeclsKept(c, w, cs, es) ==
    \A m \in w \cap DOMAIN c : \A d \in Range(c[m].decls) :
        d.public /\ d.kind \in {"item", "type"} => Listed(es, m, d) \/ Decl(m, d) \in Range(cs)

ModsKept(c, w, cs, ms) ==
    \A m \in w \cap DOMAIN c : \A x \in Range(c[m].mods) : x.public =>
        Append(m, x.name) \in w \/ Append(m, x.name) \in Range(ms) \/ Mod(m, x) \in Range(cs)

IsChild(c, w, m) == \E p \in w \cap DOMAIN c : \E x \in Range(c[p].mods) : x.public /\ m = Append(p, x.name)

FrontierSound(c, w, ms) ==
    /\ IsSeq(ms) /\ \A m \in Range(ms) : m = <<Root>> \/ IsChild(c, w, m)
    /\ <<Root>> \in w \/ <<Root>> \in Range(ms)

FactsTyped(c, fs) == \A f \in fs : \E m, n \in DOMAIN c : \E a, b \in STRING : f = <<m, a, <<n, b>> >>

WalkSound(c, fs, w, cs, es, ms) ==
    /\ FramesSound(c, fs, w, cs) /\ DeclsFirst(cs)
    /\ EntriesSound(c, fs, w, cs, es)
    /\ DeclsKept(c, w, cs, es) /\ ModsKept(c, w, cs, ms)
    /\ FrontierSound(c, w, ms)

SurfaceInv ==
    /\ crate \in Crates /\ FactsTyped(crate, facts) /\ Declared \subseteq facts
    /\ IF walked = {} THEN calls = <<>> /\ entries = <<>> ELSE Brought \subseteq facts
    /\ WalkSound(crate, facts, walked, calls, entries, frontier)
    /\ \A m \in walked \cap Modules : IsPublic(m)

(* Sequences and crates.                                                   *)
LEMMA IsSeqOf == ASSUME NEW S, NEW s \in Seq(S) PROVE IsSeq(s) /\ Range(s) \subseteq S
BY SeqOfRange, RangeOfSeq DEF IsSeq

LEMMA ItemsOfSeq ==
    ASSUME NEW s, IsSeq(s)
    PROVE  /\ Len(s) \in Nat /\ DOMAIN s = 1..Len(s) /\ Range(s) = {s[i] : i \in 1..Len(s)}
           /\ \A S : Range(s) \subseteq S => s \in Seq(S)
<1>1. s \in Seq(Range(s))  BY DEF IsSeq
<1>2. Len(s) \in Nat /\ DOMAIN s = 1..Len(s)  BY <1>1, LenProperties
<1>3. Range(s) = {s[i] : i \in 1..Len(s)}  BY <1>2 DEF Range
<1>4. ASSUME NEW S, Range(s) \subseteq S PROVE s \in Seq(S)  BY <1>1, <1>4, SeqMonotonic
<1> QED BY <1>2, <1>3, <1>4

LEMMA FrontItems ==
    ASSUME NEW s, IsSeq(s), s # <<>>
    PROVE  /\ IsSeq(Front(s)) /\ Range(s) = Range(Front(s)) \cup {Last(s)}
           /\ Len(Front(s)) = Len(s) - 1 /\ \A i \in 1..Len(s) - 1 : Front(s)[i] = s[i]
           /\ Last(s) = s[Len(s)] /\ Len(s) \in Nat \ {0}
           /\ \A x \in Range(s) : x = Last(s) \/ x \in Range(Front(s))
<1> DEFINE f == Front(s)
<1>1. s \in Seq(Range(s))  BY DEF IsSeq
<1>2. /\ f \in Seq(Range(s)) /\ Len(f) = Len(s) - 1 /\ DOMAIN f = 1..Len(s) - 1
      /\ \A i \in 1..Len(s) - 1 : f[i] = s[i]
  BY <1>1, LastAndFront
<1>3. Last(s) = s[Len(s)] /\ Len(s) \in Nat \ {0} /\ DOMAIN s = 1..Len(s)
  BY <1>1, LastAndFront, LenProperties, EmptySeq
<1>4. IsSeq(f)  BY <1>2, IsSeqOf
<1>5. Range(s) = Range(f) \cup {Last(s)}
  <2> HIDE DEF f
  <2>1. ASSUME NEW x \in Range(s) PROVE x \in Range(f) \cup {Last(s)}
    <3>1. PICK i \in 1..Len(s) : x = s[i]  BY <1>3 DEF Range
    <3>2. Len(s) \in Nat \ {0}  BY <1>3
    <3>3. i = Len(s) \/ i \in 1..Len(s) - 1  BY <3>2
    <3> QED BY <3>1, <3>3, <1>2, <1>3 DEF Range
  <2>2. ASSUME NEW x \in Range(f) PROVE x \in Range(s)
    <3>1. PICK i \in 1..Len(s) - 1 : x = f[i]  BY <1>2 DEF Range
    <3>2. i \in 1..Len(s) /\ x = s[i]  BY <1>2, <1>3, <3>1
    <3> QED BY <3>2, <1>3 DEF Range
  <2>3. Last(s) \in Range(s)
    <3>1. Len(s) \in 1..Len(s)  BY <1>3
    <3> QED BY <3>1, <1>3 DEF Range
  <2> QED BY <2>1, <2>2, <2>3
<1> QED BY <1>2, <1>3, <1>4, <1>5

LEMMA PushItems ==
    ASSUME NEW f, IsSeq(f), NEW next, IsSeq(next)
    PROVE  LET s == Push(f, next)
           IN  /\ IsSeq(s) /\ Range(s) = Range(f) \cup Range(next)
               /\ Len(s) = Len(f) + Len(next) /\ Len(f) \in Nat /\ Len(next) \in Nat
               /\ \A i \in 1..Len(f) : s[i] = f[i]
               /\ \A i \in Len(f) + 1..Len(s) : s[i] = next[Len(s) - i + 1]
<1> DEFINE r == Reverse(next)
           S == Range(f) \cup Range(next)
           s == f \o r
           n == Len(next)
<1>1. n \in Nat /\ DOMAIN next = 1..n /\ f \in Seq(S) /\ next \in Seq(S) /\ Len(f) \in Nat  BY ItemsOfSeq
<1>2. r = [i \in 1..n |-> next[(n - i) + 1]]  BY DEF Reverse
<1>3. \A i \in 1..n : (n - i) + 1 \in 1..n  BY <1>1
<1>4. \A i \in 1..n : next[i] \in S  BY <1>1 DEF Range
<1>5. r \in [1..n -> S]  BY <1>2, <1>3, <1>4
<1>6. r \in Seq(S) /\ Len(r) = n /\ \A i \in 1..n : r[i] = next[(n - i) + 1]
  <2>1. r \in Seq(S)  BY <1>1, <1>5, SeqDef
  <2>2. DOMAIN r = 1..n  BY <1>5
  <2>3. Len(r) = n  BY <2>1, <2>2, <1>1, LenProperties
  <2> QED BY <2>1, <2>3, <1>2
<1>7. Range(r) = Range(next)
  <2>1. ASSUME NEW x \in Range(next) PROVE x \in Range(r)
    <3>1. PICK i \in 1..n : x = next[i]  BY <1>1 DEF Range
    <3>2. (n - i) + 1 \in 1..n /\ (n - ((n - i) + 1)) + 1 = i  BY <1>1
    <3>3. r[(n - i) + 1] = x  BY <3>1, <3>2, <1>6
    <3> QED BY <3>2, <3>3, <1>5 DEF Range
  <2>2. ASSUME NEW x \in Range(r) PROVE x \in Range(next)
    <3>1. PICK i \in 1..n : x = r[i]  BY <1>5 DEF Range
    <3>2. (n - i) + 1 \in 1..n  BY <1>1
    <3> QED BY <3>1, <3>2, <1>6, <1>1 DEF Range
  <2> QED BY <2>1, <2>2
<1> HIDE DEF r
<1>8. /\ s \in Seq(S) /\ Len(s) = Len(f) + n
      /\ \A i \in 1..Len(f) + n : s[i] = IF i <= Len(f) THEN f[i] ELSE r[i - Len(f)]
  <2>1. f \in Seq(S) /\ r \in Seq(S) /\ Len(r) = n  BY <1>1, <1>6
  <2> HIDE DEF S, n
  <2> QED BY <2>1, ConcatProperties
<1>9. Range(s) = Range(f) \cup Range(next)  BY <1>1, <1>6, <1>7, RangeConcatenation
<1> HIDE DEF s
<1>10. \A i \in 1..Len(f) : s[i] = f[i]  BY <1>1, <1>8
<1>11. ASSUME NEW i \in Len(f) + 1..Len(s) PROVE s[i] = next[Len(s) - i + 1]
  <2>1. i \in 1..Len(f) + n /\ ~(i <= Len(f)) /\ i - Len(f) \in 1..n  BY <1>1, <1>8
  <2>2. s[i] = r[i - Len(f)]  BY <2>1, <1>8
  <2>3. (n - (i - Len(f))) + 1 = Len(s) - i + 1  BY <2>1, <1>1, <1>8
  <2> QED BY <2>1, <2>2, <2>3, <1>6
<1>12. s = Push(f, next)  BY DEF s, r, Push
<1> QED BY <1>1, <1>8, <1>9, <1>10, <1>11, <1>12, IsSeqOf

LEMMA CrateShape ==
    ASSUME NEW c \in Crates, NEW m \in DOMAIN c
    PROVE  /\ m \in Seq(STRING) /\ m # <<>> /\ m[1] = Root
           /\ IsSeq(c[m].decls) /\ IsSeq(c[m].uses) /\ IsSeq(c[m].mods)
           /\ \A d \in Range(c[m].decls) :
                /\ d.name \in STRING /\ IsSeq(d.methods)
                /\ \A x \in Range(d.methods) : x.name \in STRING /\ Append(m, d.name) \notin DOMAIN c
           /\ \A x \in Range(c[m].mods) : x.name \in STRING
           /\ \A u \in Range(c[m].uses) :
                u.path \in Seq(STRING) /\ u.path # <<>> /\ LocalName(u) \in STRING
<1>1. /\ m \in Paths /\ m[1] = Root
      /\ c[m].decls \in Seq(Declarations) /\ c[m].uses \in Seq(Uses) /\ c[m].mods \in Seq(Methods)
      /\ \A d \in Range(c[m].decls) : d.methods # <<>> => Append(m, d.name) \notin DOMAIN c
  BY CratesAssumption
<1>2. /\ IsSeq(c[m].decls) /\ Range(c[m].decls) \subseteq Declarations
      /\ IsSeq(c[m].uses) /\ Range(c[m].uses) \subseteq Uses
      /\ IsSeq(c[m].mods) /\ Range(c[m].mods) \subseteq Methods
  BY <1>1, IsSeqOf
<1>3. ASSUME NEW d \in Range(c[m].decls)
      PROVE  /\ d.name \in STRING /\ IsSeq(d.methods)
             /\ \A x \in Range(d.methods) : x.name \in STRING /\ Append(m, d.name) \notin DOMAIN c
  <2>1. d \in Declarations  BY <1>2
  <2>2. d.name \in STRING /\ d.methods \in Seq(Methods)  BY <2>1 DEF Declarations
  <2>3. IsSeq(d.methods) /\ Range(d.methods) \subseteq Methods  BY <2>2, IsSeqOf
  <2>4. ASSUME NEW x \in Range(d.methods) PROVE x.name \in STRING /\ d.methods # <<>>
    <3>1. x \in Methods  BY <2>3
    <3>2. d.methods # <<>>  BY DEF Range
    <3> QED BY <3>1, <3>2 DEF Methods
  <2> QED BY <1>1, <2>2, <2>3, <2>4
<1>4. \A x \in Range(c[m].mods) : x.name \in STRING  BY <1>2 DEF Methods
<1>5. ASSUME NEW u \in Range(c[m].uses)
      PROVE  u.path \in Seq(STRING) /\ u.path # <<>> /\ LocalName(u) \in STRING
  <2>1. u \in Uses  BY <1>2
  <2>2. u.path \in Seq(STRING) /\ u.path # <<>> /\ u.alias \in STRING  BY <2>1 DEF Uses, Paths
  <2>3. Last(u.path) \in STRING  BY <2>2, LastAndFront
  <2> QED BY <2>2, <2>3 DEF LocalName
<1> QED BY <1>1, <1>2, <1>3, <1>4, <1>5 DEF Paths

LEMMA ResolvedIsPath ==
    ASSUME NEW from \in Seq(STRING), NEW path \in Seq(STRING), path # <<>>
    PROVE  ResolvePath(from, path) \in Seq(STRING)
<1>1. Len(path) \in Nat /\ Len(from) \in Nat /\ DOMAIN path = 1..Len(path) /\ DOMAIN from = 1..Len(from)
      /\ (\A i \in 1..Len(path) : path[i] \in STRING) /\ (\A i \in 1..Len(from) : from[i] \in STRING)
  BY LenProperties, ElementOfSeq
<1> DEFINE n == Supers(path)
<1>2. n \in Nat
  <2> DEFINE T == {i \in DOMAIN path : \A j \in 1..i : path[j] = "super"}
  <2>1. IsFiniteSet(1..Len(path)) /\ T \subseteq 1..Len(path)  BY <1>1, FS_Interval
  <2>2. IsFiniteSet(T)  BY <2>1, FS_Subset
  <2>3. Cardinality(T) \in Nat  BY <2>2, FS_CardinalityType
  <2> QED BY <2>3 DEF Supers
<1> HIDE DEF n
<1>3. SubSeq(path, n + 1, Len(path)) \in Seq(STRING)
  <2>1. \A i \in n + 1..Len(path) : path[i] \in STRING  BY <1>1, <1>2
  <2>2. n + 1 \in Int /\ Len(path) \in Int  BY <1>1, <1>2
  <2> QED BY <2>1, <2>2, SubSeqProperties
<1>4. SubSeq(from, 1, Len(from) - n) \in Seq(STRING)
  <2>1. \A i \in 1..Len(from) - n : from[i] \in STRING  BY <1>1, <1>2
  <2>2. 1 \in Int /\ Len(from) - n \in Int  BY <1>1, <1>2
  <2> QED BY <2>1, <2>2, SubSeqProperties
<1>5. Tail(path) \in Seq(STRING)  BY HeadTailProperties
<1>6. <<Root>> \in Seq(STRING)  BY CratesAssumption
<1>7. /\ <<Root>> \o Tail(path) \in Seq(STRING) /\ from \o Tail(path) \in Seq(STRING)
      /\ SubSeq(from, 1, Len(from) - n) \o SubSeq(path, n + 1, Len(path)) \in Seq(STRING)
      /\ from \o path \in Seq(STRING) /\ <<>> \in Seq(STRING)
  BY <1>3, <1>4, <1>5, <1>6, ConcatProperties, EmptySeq
<1> QED BY <1>7 DEF ResolvePath, n

LEMMA PathOfEnds ==
    ASSUME NEW p \in Seq(STRING), p # <<>>
    PROVE  Append(Front(p), Last(p)) = p /\ Front(p) \in Seq(STRING) /\ Last(p) \in STRING
<1> DEFINE f == Front(p)  a == Append(f, Last(p))
<1>1. /\ Last(p) \in STRING /\ Last(p) = p[Len(p)] /\ f \in Seq(STRING) /\ Len(f) = Len(p) - 1
      /\ Len(p) \in Nat \ {0} /\ \A k \in 1..Len(p) - 1 : f[k] = p[k]
  BY LastAndFront, EmptySeq
<1> HIDE DEF f
<1>2. /\ a \in Seq(STRING) /\ Len(a) = Len(f) + 1 /\ a[Len(f) + 1] = Last(p)
      /\ \A k \in 1..Len(f) : a[k] = f[k]
  BY <1>1, AppendProperties
<1>3. ASSUME NEW k \in 1..Len(p) PROVE a[k] = p[k]
  <2>1. CASE k = Len(p)  BY <2>1, <1>1, <1>2
  <2>2. CASE k # Len(p)
    <3>1. k \in 1..Len(p) - 1 /\ k \in 1..Len(f)  BY <2>2, <1>1
    <3> QED BY <3>1, <1>1, <1>2
  <2> QED BY <2>1, <2>2
<1>4. Len(a) = Len(p)  BY <1>1, <1>2
<1>5. a = p  BY <1>2, <1>3, <1>4, SeqEqual
<1> QED BY <1>1, <1>5 DEF f

LEMMA AppendsApart ==
    ASSUME NEW S, NEW p \in Seq(S), NEW q \in Seq(S), NEW a \in S, NEW b \in S,
           Append(p, a) = Append(q, b)
    PROVE  p = q /\ a = b
<1>1. Append(p, a) = Append(q, b) <=> p = q /\ a = b  BY AppendInjective
<1> QED BY <1>1

LEMMA TwoAppended ==
    ASSUME NEW S, NEW q \in Seq(S), NEW b \in S, NEW x \in S
    PROVE  Append(q, b) \in Seq(S) /\ q \o <<b, x>> = Append(Append(q, b), x)
<1>1. <<b>> \in Seq(S) /\ <<x>> \in Seq(S) /\ Append(q, b) \in Seq(S)  OBVIOUS
<1>2. <<b, x>> = <<b>> \o <<x>>
  <2>1. /\ <<b>> \o <<x>> \in Seq(S) /\ Len(<<b>> \o <<x>>) = Len(<<b>>) + Len(<<x>>)
        /\ \A i \in 1..Len(<<b>>) + Len(<<x>>) :
             (<<b>> \o <<x>>)[i] = IF i <= Len(<<b>>) THEN <<b>>[i] ELSE <<x>>[i - Len(<<b>>)]
    BY <1>1, ConcatProperties
  <2>2. <<b, x>> \in Seq(S) /\ Len(<<b, x>>) = 2 /\ Len(<<b>>) = 1 /\ Len(<<x>>) = 1
        /\ <<b, x>>[1] = b /\ <<b, x>>[2] = x /\ <<b>>[1] = b /\ <<x>>[1] = x
    OBVIOUS
  <2> DEFINE s == <<b>> \o <<x>>  t == <<b, x>>
  <2>3. s \in Seq(S) /\ t \in Seq(S) /\ Len(s) = 2 /\ Len(t) = 2 /\ \A i \in 1..2 : s[i] = t[i]
    BY <2>1, <2>2
  <2> HIDE DEF s, t
  <2>4. s = t  BY <2>3, SeqEqual
  <2> QED BY <2>4 DEF s, t
<1>3. Append(q, b) = q \o <<b>> /\ Append(Append(q, b), x) = Append(q, b) \o <<x>>
  BY <1>1, AppendIsConcat
<1>4. (q \o <<b>>) \o <<x>> = q \o (<<b>> \o <<x>>)  BY <1>1, ConcatAssociative
<1> QED BY <1>1, <1>2, <1>3, <1>4

LEMMA SamePrefix ==
    ASSUME NEW S, NEW p \in Seq(S), NEW q \in Seq(S), Len(p) <= Len(q), \A k \in 1..Len(p) : q[k] = p[k],
           NEW i \in 1..Len(p)
    PROVE  SubSeq(q, 1, i) = SubSeq(p, 1, i)
<1>1. /\ Len(p) \in Nat /\ Len(q) \in Nat
      /\ (\A k \in 1..Len(p) : p[k] \in S) /\ (\A k \in 1..Len(q) : q[k] \in S)
  BY LenProperties, ElementOfSeq
<1>2. i \in Int /\ 1 \in Int /\ 1 <= i /\ (\A k \in 1..i : p[k] \in S) /\ (\A k \in 1..i : q[k] \in S)
      /\ \A k \in 1..i : p[k] = q[k]
  BY <1>1
<1> DEFINE a == SubSeq(q, 1, i)  b == SubSeq(p, 1, i)
<1>3. /\ a \in Seq(S) /\ Len(a) = i /\ \A k \in 1..i : a[k] = q[k]
  BY <1>1, <1>2, SubSeqProperties
<1>4. /\ b \in Seq(S) /\ Len(b) = i /\ \A k \in 1..i : b[k] = p[k]
  BY <1>1, <1>2, SubSeqProperties
<1> HIDE DEF a, b
<1>5. a = b  BY <1>2, <1>3, <1>4, SeqEqual
<1> QED BY <1>5 DEF a, b

LEMMA OnePrefix ==
    ASSUME NEW S, NEW p \in Seq(S), p # <<>>
    PROVE  SubSeq(p, 1, 1) = <<p[1]>>
<1>1. Len(p) \in Nat \ {0} /\ p[1] \in S  BY EmptySeq, ElementOfSeq
<1> DEFINE a == SubSeq(p, 1, 1)  b == <<p[1]>>
<1>2. \A k \in 1..1 : p[k] \in S  BY <1>1
<1>3. a \in Seq(S) /\ Len(a) = 1 /\ a[1] = p[1]  BY <1>1, <1>2, SubSeqProperties
<1>4. b \in Seq(S) /\ Len(b) = 1 /\ b[1] = p[1]  BY <1>1
<1> HIDE DEF a, b
<1>5. a = b  BY <1>3, <1>4, SeqEqual
<1> QED BY <1>5 DEF a, b

LEMMA PrefixAppended ==
    ASSUME NEW S, NEW p \in Seq(S), NEW i \in 2..Len(p)
    PROVE  SubSeq(p, 1, i) = Append(SubSeq(p, 1, i - 1), p[i])
<1>1. Len(p) \in Nat /\ \A k \in 1..Len(p) : p[k] \in S  BY LenProperties, ElementOfSeq
<1>2. i \in 1..Len(p) /\ i \in Int /\ i - 1 \in Int /\ 1 <= i - 1 /\ 1 <= i  BY <1>1
<1>3. (\A k \in 1..i : p[k] \in S) /\ (\A k \in 1..i - 1 : p[k] \in S) /\ p[i] \in S  BY <1>1, <1>2
<1> DEFINE a == SubSeq(p, 1, i)  b == SubSeq(p, 1, i - 1)  c == Append(b, p[i])
<1>4. a \in Seq(S) /\ Len(a) = i /\ \A k \in 1..i : a[k] = p[k]  BY <1>2, <1>3, SubSeqProperties
<1>5. b \in Seq(S) /\ Len(b) = i - 1 /\ \A k \in 1..i - 1 : b[k] = p[k]  BY <1>2, <1>3, SubSeqProperties
<1> HIDE DEF a, b
<1>6. /\ c \in Seq(S) /\ Len(c) = Len(b) + 1 /\ c[Len(b) + 1] = p[i]
      /\ \A k \in 1..Len(b) : c[k] = b[k]
  BY <1>3, <1>5, AppendProperties
<1> HIDE DEF c
<1>7. ASSUME NEW k \in 1..i PROVE c[k] = a[k]
  <2>1. CASE k = i  BY <2>1, <1>2, <1>4, <1>5, <1>6
  <2>2. CASE k # i
    <3>1. k \in 1..i - 1 /\ k \in 1..Len(b)  BY <2>2, <1>2, <1>5
    <3> QED BY <3>1, <1>4, <1>5, <1>6
  <2> QED BY <2>1, <2>2
<1>8. Len(c) = i  BY <1>2, <1>5, <1>6
<1>9. a = c  BY <1>4, <1>6, <1>7, <1>8, SeqEqual
<1> QED BY <1>9 DEF a, b, c

LEMMA AppendedParts ==
    ASSUME NEW S, NEW p \in Seq(S), NEW a \in S, NEW q, q = Append(p, a)
    PROVE  Len(q) = Len(p) + 1 /\ Last(q) = a /\ SubSeq(q, 1, Len(p)) = p /\ Len(p) \in Nat
<1>1. /\ q \in Seq(S) /\ Len(q) = Len(p) + 1 /\ Last(q) = a /\ Front(q) = p /\ Len(p) \in Nat
  BY Appended
<1>2. Len(q) - 1 = Len(p)  BY <1>1
<1> QED BY <1>1, <1>2 DEF Front

LEMMA JoinedParts ==
    ASSUME NEW S, NEW p \in Seq(S), NEW a \in S, NEW b \in S, NEW q, q = p \o <<a, b>>
    PROVE  Len(q) = Len(p) + 2 /\ SubSeq(q, 1, Len(p)) = p /\ Len(p) \in Nat
<1> DEFINE r == Append(p, a)
<1>1. r \in Seq(S) /\ q = Append(r, b)  BY TwoAppended
<1>2. /\ Len(r) = Len(p) + 1 /\ Len(p) \in Nat /\ \A k \in 1..Len(p) : r[k] = p[k]
  BY AppendProperties, LenProperties
<1> HIDE DEF r
<1>3. /\ q \in Seq(S) /\ Len(q) = Len(r) + 1 /\ \A k \in 1..Len(r) : q[k] = r[k]
  <2> DEFINE t == Append(r, b)
  <2>1. /\ t \in Seq(S) /\ Len(t) = Len(r) + 1 /\ \A k \in 1..Len(r) : t[k] = r[k]
    BY <1>1, AppendProperties
  <2> HIDE DEF t
  <2>2. q = t  BY <1>1 DEF t
  <2> QED BY <2>1, <2>2
<1>4. Len(p) <= Len(q) /\ Len(q) = Len(p) + 2 /\ \A k \in 1..Len(p) : q[k] = p[k]
  BY <1>2, <1>3
<1>5. SubSeq(q, 1, Len(p)) = p
  <2>1. CASE Len(p) = 0
    <3>1. SubSeq(q, 1, 0) = <<>> /\ p = <<>>  BY <2>1, SubSeqEmpty, EmptySeq
    <3> QED BY <3>1, <2>1
  <2>2. CASE Len(p) # 0
    <3>1. Len(p) \in 1..Len(p)  BY <2>2, <1>2
    <3>2. SubSeq(q, 1, Len(p)) = SubSeq(p, 1, Len(p))  BY <3>1, <1>3, <1>4, SamePrefix
    <3> QED BY <3>2, SubSeqFull
  <2> QED BY <2>1, <2>2
<1> QED BY <1>2, <1>4, <1>5

LEMMA EmitAdds ==
    ASSUME NEW es, IsSeq(es), NEW path, NEW origin, NEW glob
    PROVE  LET more == Emit(es, path, origin, glob)
           IN  /\ IsSeq(more) /\ Range(es) \subseteq Range(more)
               /\ \A e \in Range(more) : e \in Range(es) \/ (e.path = path /\ e.source = origin)
               /\ \E e \in Range(more) : e.path = path
<1> DEFINE new == [path |-> path, source |-> origin, glob |-> glob]
           more == Emit(es, path, origin, glob)
<1>1. CASE \E i \in DOMAIN es : es[i].path = path
  <2>1. more = es  BY <1>1 DEF Emit
  <2>2. \E e \in Range(es) : e.path = path  BY <1>1 DEF Range
  <2> QED BY <2>1, <2>2
<1>2. CASE ~(\E i \in DOMAIN es : es[i].path = path)
  <2> DEFINE S == Range(es) \cup {new}
  <2>1. more = Append(es, new)  BY <1>2 DEF Emit
  <2>2. es \in Seq(S) /\ new \in S  BY ItemsOfSeq
  <2>3. new.path = path /\ new.source = origin  OBVIOUS
  <2> HIDE DEF new, more, S
  <2>4. more \in Seq(S) /\ Range(more) = Range(es) \cup {new}  BY <2>1, <2>2, Appended
  <2>5. IsSeq(more)  BY <2>4, IsSeqOf
  <2> QED BY <2>3, <2>4, <2>5 DEF more
<1> QED BY <1>1, <1>2

(* Under a frame of another kind than those of declarations there is none. *)
LEMMA NoDeclsLeft ==
    ASSUME NEW cs, IsSeq(cs), cs # <<>>, DeclsFirst(cs), Last(cs).op \notin {"decl", "method"}
    PROVE  \A fr \in Range(cs) : fr.op # "decl"
<1>1. Len(cs) \in Nat \ {0} /\ DOMAIN cs = 1..Len(cs) /\ Last(cs) = cs[Len(cs)]
  BY FrontItems, ItemsOfSeq
<1>2. ASSUME NEW j \in 1..Len(cs) PROVE cs[j].op # "decl"
  <2>1. CASE j = Len(cs)  BY <2>1, <1>1
  <2>2. CASE j # Len(cs)
    <3>1. Len(cs) \in Nat \ {0}  BY <1>1
    <3>2. j < Len(cs) /\ Len(cs) \in 1..Len(cs)  BY <2>2, <3>1
    <3>3. Len(cs) \in DOMAIN cs /\ j \in DOMAIN cs  BY <3>2, <1>1
    <3> QED BY <3>2, <3>3, <1>1 DEF DeclsFirst
  <2> QED BY <2>1, <2>2
<1> QED BY <1>1, <1>2 DEF Range

(* The frame on top is replaced by others.                                 *)
LEMMA TopReplaced ==
    ASSUME NEW c, NEW fs, NEW w, NEW cs, cs # <<>>, FramesSound(c, fs, w, cs), DeclsFirst(cs),
           NEW next, IsSeq(next),
           \A x \in Range(next) : x.from = Last(cs).from /\ FrameSound(c, fs, x) /\ x.op # "decl",
           Last(cs).op \in {"decl", "method"} => \A x \in Range(next) : x.op = "method"
    PROVE  LET longer == Push(Front(cs), next)
           IN  /\ FramesSound(c, fs, w, longer) /\ DeclsFirst(longer)
               /\ Range(longer) = Range(Front(cs)) \cup Range(next)
               /\ \A x \in Range(cs) : x = Last(cs) \/ x \in Range(longer)
               /\ \A x \in Range(longer) : x.op = "decl" => x \in Range(cs)
<1> DEFINE f == Front(cs)  s == Push(f, next)  n == Len(cs)  top == Last(cs)
<1>1. /\ IsSeq(cs) /\ IsSeq(f) /\ Range(cs) = Range(f) \cup {top} /\ Len(f) = n - 1
      /\ (\A i \in 1..n - 1 : f[i] = cs[i]) /\ top = cs[n] /\ n \in Nat \ {0} /\ DOMAIN cs = 1..n
      /\ DOMAIN f = 1..n - 1
  <2>1. IsSeq(cs)  BY DEF FramesSound
  <2> QED BY <2>1, FrontItems, ItemsOfSeq
<1> HIDE DEF f, top
<1>2. /\ IsSeq(s) /\ Range(s) = Range(f) \cup Range(next) /\ Len(s) = Len(f) + Len(next) /\ Len(next) \in Nat
      /\ \A i \in 1..Len(f) : s[i] = f[i]
      /\ \A i \in Len(f) + 1..Len(s) : s[i] = next[Len(s) - i + 1]
  BY <1>1, PushItems
<1> HIDE DEF s
<1>3. DOMAIN s = 1..Len(s) /\ DOMAIN next = 1..Len(next)  BY <1>2, ItemsOfSeq
<1>4. \A x \in Range(cs) : x.from \in w /\ x.from \in DOMAIN c /\ FrameSound(c, fs, x)  BY DEF FramesSound
<1>5. \A x \in Range(next) : x.from = top.from /\ FrameSound(c, fs, x) /\ x.op # "decl"  BY DEF top
<1>6. FramesSound(c, fs, w, s)
  <2>1. top.from \in w /\ top.from \in DOMAIN c  BY <1>1, <1>4
  <2>2. \A x \in Range(s) : x.from \in w /\ x.from \in DOMAIN c /\ FrameSound(c, fs, x)
    BY <2>1, <1>1, <1>2, <1>4, <1>5
  <2> QED BY <2>2, <1>2 DEF FramesSound
<1>7. ASSUME NEW i \in 1..Len(s), ~(i \in 1..n - 1) PROVE s[i] \in Range(next)
  <2>1. i \in Len(f) + 1..Len(s) /\ Len(s) - i + 1 \in 1..Len(next)  BY <1>1, <1>2, <1>7
  <2> QED BY <2>1, <1>2, <1>3 DEF Range
<1>8. ASSUME NEW j \in DOMAIN s, NEW k \in DOMAIN s, j < k, s[j].op = "decl"
      PROVE  s[k].op \in {"decl", "method"}
  <2>1. j \in 1..n - 1  BY <1>3, <1>5, <1>7, <1>8
  <2>2. cs[j].op = "decl" /\ j \in DOMAIN cs /\ n \in DOMAIN cs /\ j < n
    <3>1. s[j] = cs[j]  BY <2>1, <1>1, <1>2
    <3>2. j \in 1..n /\ n \in 1..n /\ j < n  BY <2>1, <1>1
    <3> QED BY <3>1, <3>2, <1>1, <1>8
  <2>3. top.op \in {"decl", "method"}  BY <2>2, <1>1 DEF DeclsFirst
  <2>4. CASE k \in 1..n - 1
    <3>1. s[k] = cs[k] /\ k \in DOMAIN cs  BY <2>4, <1>1, <1>2
    <3> QED BY <3>1, <2>2, <1>8 DEF DeclsFirst
  <2>5. CASE ~(k \in 1..n - 1)
    <3>1. s[k] \in Range(next)  BY <2>5, <1>3, <1>7
    <3>2. s[k].op = "method"  BY <3>1, <2>3 DEF top
    <3> QED BY <3>2
  <2> QED BY <2>4, <2>5
<1>9. DeclsFirst(s)  BY <1>8 DEF DeclsFirst
<1> QED BY <1>1, <1>2, <1>5, <1>6, <1>9 DEF s, f, top

(* What is known of the entries and of what is left stays.                 *)
LEMMA EntriesStay ==
    ASSUME NEW c, NEW fs, NEW w, NEW cs, NEW es, EntriesSound(c, fs, w, cs, es),
           NEW more, IsSeq(more), NEW longer,
           \A x \in Range(longer) : x.op = "decl" => x \in Range(cs),
           \A e \in Range(more) : e \in Range(es) \/ EntrySound(c, fs, w, longer, e)
    PROVE  EntriesSound(c, fs, w, longer, more)
<1>1. \A m : DeclaresNo(cs, m) => DeclaresNo(longer, m)  BY DEF DeclaresNo
<1>2. ASSUME NEW e, EntrySound(c, fs, w, cs, e) PROVE EntrySound(c, fs, w, longer, e)
  <2>1. PICK m \in w \cap DOMAIN c :
            IsOwn(c, m, e) \/ IsOfType(c, m, e) \/ (IsBrought(fs, m, e) /\ DeclaresNo(cs, m))
    BY <1>2 DEF EntrySound
  <2> QED BY <2>1, <1>1 DEF EntrySound
<1> QED BY <1>2 DEF EntriesSound

LEMMA DeclsStay ==
    ASSUME NEW c, NEW w, NEW cs, NEW es, DeclsKept(c, w, cs, es),
           NEW more, Range(es) \subseteq Range(more), NEW longer, NEW top,
           \A x \in Range(cs) : x = top \/ x \in Range(longer),
           \A m \in w \cap DOMAIN c : \A d \in Range(c[m].decls) :
               Decl(m, d) = top /\ d.public /\ d.kind \in {"item", "type"} => Listed(more, m, d)
    PROVE  DeclsKept(c, w, longer, more)
<1>1. \A m, d : Listed(es, m, d) => Listed(more, m, d)  BY DEF Listed
<1> QED BY <1>1 DEF DeclsKept

LEMMA ModsStay ==
    ASSUME NEW c, NEW w, NEW cs, NEW ms, ModsKept(c, w, cs, ms), NEW longer, NEW top, top.op # "mod",
           \A x \in Range(cs) : x = top \/ x \in Range(longer)
    PROVE  ModsKept(c, w, longer, ms)
<1>1. \A m, x : Mod(m, x).op = "mod"  BY DEF Mod
<1> QED BY <1>1 DEF ModsKept

LEMMA MappedItems ==
    ASSUME NEW s, IsSeq(s), NEW t, t = [i \in DOMAIN s |-> t[i]]
    PROVE  /\ IsSeq(t) /\ Len(t) = Len(s) /\ DOMAIN t = 1..Len(s) /\ DOMAIN s = 1..Len(s)
           /\ \A x \in Range(t) : \E i \in DOMAIN s : x = t[i] /\ s[i] \in Range(s)
           /\ \A y \in Range(s) : \E i \in DOMAIN s : y = s[i] /\ t[i] \in Range(t)
<1>1. Len(s) \in Nat /\ DOMAIN s = 1..Len(s)  BY ItemsOfSeq
<1>2. DOMAIN t = DOMAIN s  OBVIOUS
<1>3. t \in [1..Len(s) -> Range(t)]  BY <1>1, <1>2 DEF Range
<1>4. t \in Seq(Range(t))  BY <1>1, <1>3, SeqDef
<1>5. Len(t) = Len(s)
  <2>1. DOMAIN t = 1..Len(t) /\ Len(t) \in Nat  BY <1>4, LenProperties
  <2> QED BY <2>1, <1>1, <1>2
<1> QED BY <1>1, <1>2, <1>4, <1>5 DEF Range, IsSeq

LEMMA NoItems == IsSeq(<<>>) /\ Range(<<>>) = {} /\ Reverse(<<>>) = <<>>
<1>1. Len(<<>>) = 0 /\ <<>> \in Seq({}) /\ Range(<<>>) = {}  BY DEF Range
<1>2. Reverse(<<>>) = <<>>  BY <1>1 DEF Reverse
<1> QED BY <1>1, <1>2 DEF IsSeq

LEMMA OneItem == ASSUME NEW x PROVE IsSeq(<<x>>) /\ Range(<<x>>) = {x} /\ Reverse(<<x>>) = <<x>>
<1>1. Len(<<x>>) = 1 /\ <<x>> \in Seq({x}) /\ Range(<<x>>) = {x} /\ <<x>>[1] = x /\ DOMAIN <<x>> = 1..1
  BY DEF Range
<1> DEFINE r == Reverse(<<x>>)
<1>2. r = [i \in 1..1 |-> <<x>>[(1 - i) + 1]]  BY <1>1 DEF Reverse
<1>3. \A i \in 1..1 : r[i] = x  BY <1>1, <1>2
<1>4. r = [i \in 1..1 |-> x]  BY <1>2, <1>3
<1>5. <<x>> = [i \in 1..1 |-> x]  OBVIOUS
<1> QED BY <1>1, <1>4, <1>5 DEF IsSeq

(* A frame less, and another instead of it.                                *)
LEMMA PoppedIsPushed ==
    ASSUME NEW cs, IsSeq(cs), cs # <<>>, NEW x
    PROVE  /\ IsSeq(<<>>) /\ Range(<<>>) = {} /\ Front(cs) = Push(Front(cs), <<>>)
           /\ IsSeq(<<x>>) /\ Range(<<x>>) = {x} /\ Append(Front(cs), x) = Push(Front(cs), <<x>>)
<1> DEFINE f == Front(cs)  S == Range(cs) \cup {x}
<1>3. f \in Seq(S) /\ x \in S
  <2>1. IsSeq(f) /\ Range(f) \subseteq S  BY FrontItems
  <2> QED BY <2>1, ItemsOfSeq
<1> HIDE DEF f, S
<1>4. f \o <<>> = f /\ Append(f, x) = f \o <<x>>
  <2>1. f \o <<>> = f  BY <1>3, ConcatEmptySeq
  <2>2. Append(f, x) = f \o <<x>>  BY <1>3, AppendIsConcat
  <2> QED BY <2>1, <2>2
<1> QED BY <1>4, NoItems, OneItem DEF Push, f

Stays == crate' = crate /\ facts' = facts /\ walked' = walked

LEMMA StayedIsKnown ==
    ASSUME crate' = crate, facts' = facts
    PROVE  /\ Modules' = Modules /\ Declared' = Declared /\ Brought' = Brought
           /\ \A m : IsPublic(m)' <=> IsPublic(m)
<1>1. Modules' = Modules  BY DEF Modules
<1>2. Declared' = Declared  BY <1>1 DEF Declared
<1>3. \A m, u : Reexported(m, u)' = Reexported(m, u)  BY DEF Reexported
<1>4. \A m : PublicUses(m)' = PublicUses(m)  BY DEF PublicUses
<1>5. Brought' = Brought  BY <1>1, <1>3, <1>4 DEF Brought
<1>6. \A m : IsPublic(m)' <=> IsPublic(m)  BY <1>1 DEF IsPublic
<1> QED BY <1>1, <1>2, <1>5, <1>6

LEMMA PartsKeep ==
    ASSUME SurfaceInv, calls # <<>>, Stays,
           FramesSound(crate, facts, walked, calls') /\ DeclsFirst(calls'),
           EntriesSound(crate, facts, walked, calls', entries'),
           DeclsKept(crate, walked, calls', entries') /\ ModsKept(crate, walked, calls', frontier'),
           FrontierSound(crate, walked, frontier')
    PROVE  SurfaceInv'
<1>1. WalkSound(crate, facts, walked, calls', entries', frontier')  BY DEF WalkSound
<1>2. WalkSound(crate, facts, walked, calls, entries, frontier)'  BY <1>1 DEF Stays
<1>3. /\ crate' \in Crates /\ FactsTyped(crate, facts)' /\ Declared' \subseteq facts'
      /\ walked' # {} /\ Brought' \subseteq facts' /\ \A m \in walked' \cap Modules' : IsPublic(m)'
  BY StayedIsKnown DEF SurfaceInv, Stays
<1> QED BY <1>2, <1>3 DEF SurfaceInv

(* A frame that lists nothing of its own module.                           *)
LEMMA StepKeeps ==
    ASSUME SurfaceInv, calls # <<>>, Last(calls).op \notin {"decl", "method", "mod"},
           NEW next, IsSeq(next),
           \A x \in Range(next) : x.from = Last(calls).from /\ FrameSound(crate, facts, x) /\ x.op # "decl",
           calls' = Push(Front(calls), next), frontier' = frontier, Stays,
           IsSeq(entries'), Range(entries) \subseteq Range(entries'),
           \A e \in Range(entries') : e \in Range(entries) \/ IsBrought(facts, Last(calls).from, e)
    PROVE  SurfaceInv'
<1> DEFINE top == Last(calls)
<1>1. /\ FramesSound(crate, facts, walked, calls) /\ DeclsFirst(calls) /\ walked # {}
      /\ EntriesSound(crate, facts, walked, calls, entries)
      /\ DeclsKept(crate, walked, calls, entries) /\ ModsKept(crate, walked, calls, frontier)
      /\ FrontierSound(crate, walked, frontier) /\ IsSeq(calls)
  BY DEF SurfaceInv, WalkSound, FramesSound
<1>2. /\ FramesSound(crate, facts, walked, calls') /\ DeclsFirst(calls')
      /\ Range(calls') = Range(Front(calls)) \cup Range(next)
      /\ \A x \in Range(calls) : x = top \/ x \in Range(calls')
      /\ \A x \in Range(calls') : x.op = "decl" => x \in Range(calls)
  BY <1>1, TopReplaced
<1>3. \A x \in Range(calls') : x.op # "decl"  BY <1>1, <1>2, NoDeclsLeft
<1>4. top.from \in walked \cap DOMAIN crate
  <2>1. top \in Range(calls)  BY <1>1, FrontItems
  <2> QED BY <2>1, <1>1 DEF FramesSound
<1> HIDE DEF top
<1>5. \A e \in Range(entries') : e \in Range(entries) \/ EntrySound(crate, facts, walked, calls', e)
  <2>1. DeclaresNo(calls', top.from)  BY <1>3 DEF DeclaresNo
  <2> QED BY <2>1, <1>4 DEF EntrySound, top
<1>6. EntriesSound(crate, facts, walked, calls', entries')  BY <1>1, <1>2, <1>5, EntriesStay
<1>7. DeclsKept(crate, walked, calls', entries')
  <2>1. \A m, d : Decl(m, d) # top
    <3>1. \A m, d : Decl(m, d).op = "decl"  BY DEF Decl
    <3>2. top.op # "decl"  BY DEF top
    <3> QED BY <3>1, <3>2
  <2> QED BY <2>1, <1>1, <1>2, DeclsStay
<1>8. ModsKept(crate, walked, calls', frontier)
  <2>1. top.op # "mod"  BY DEF top
  <2> QED BY <2>1, <1>1, <1>2, ModsStay
<1> QED BY <1>1, <1>2, <1>6, <1>7, <1>8, PartsKeep

LEMMA TopIsSound ==
    ASSUME SurfaceInv, calls # <<>>
    PROVE  /\ Top.from \in walked /\ Top.from \in DOMAIN crate /\ FrameSound(crate, facts, Top)
           /\ IsSeq(calls) /\ IsSeq(entries) /\ walked # {}
           /\ crate \in Crates /\ FactsTyped(crate, facts) /\ Declared \subseteq facts /\ Brought \subseteq facts
<1>1. FramesSound(crate, facts, walked, calls) /\ IsSeq(calls) /\ IsSeq(entries) /\ walked # {}
  BY DEF SurfaceInv, WalkSound, FramesSound, EntriesSound
<1>2. Top \in Range(calls)  BY <1>1, FrontItems DEF Top
<1> QED BY <1>1, <1>2 DEF SurfaceInv, FramesSound

(* A public use makes what it brings into its module a fact.               *)
LEMMA UseBrings ==
    ASSUME crate \in Crates, FactsTyped(crate, facts), Brought \subseteq facts,
           NEW m \in DOMAIN crate, NEW u \in Range(crate[m].uses), u.public,
           NEW full, full = ResolvePath(m, u.path)
    PROVE  /\ full \in Seq(STRING)
           /\ u.glob => Passes(facts, full, m)
           /\ ~u.glob /\ full # <<>> => Means(facts, Front(full), Last(full), m, LocalName(u))
<1>1. full \in Seq(STRING)  BY CrateShape, ResolvedIsPath
<1>2. Reexported(m, u) \subseteq facts  BY DEF Brought, PublicUses, Modules
<1>3. ASSUME u.glob PROVE Passes(facts, full, m)
  <2>1. ASSUME NEW f \in facts, f[1] = full PROVE <<m, f[2], f[3]>> \in Reexported(m, u)
    BY <1>3, <2>1 DEF Reexported
  <2> QED BY <2>1, <1>2 DEF Passes
<1>4. ASSUME ~u.glob, full # <<>> PROVE Means(facts, Front(full), Last(full), m, LocalName(u))
  <2>1. Append(Front(full), Last(full)) = full  BY <1>1, <1>4, PathOfEnds
  <2>2. ASSUME NEW f \in facts, f[1] = Front(full), f[2] = Last(full)
        PROVE  <<m, LocalName(u), f[3]>> \in Reexported(m, u)
    <3>1. Append(f[1], f[2]) = full  BY <2>1, <2>2
    <3> QED BY <3>1, <1>4 DEF Reexported
  <2> QED BY <2>2, <1>2 DEF Means
<1> QED BY <1>1, <1>3, <1>4

LEMMA DeclIsFact ==
    ASSUME Declared \subseteq facts, NEW m \in DOMAIN crate, NEW d \in Range(crate[m].decls), d.public
    PROVE  <<m, d.name, <<m, d.name>> >> \in facts
BY DEF Declared, Modules

(* The frames that are pushed.                                             *)
LEMMA ShowsAreSound ==
    ASSUME crate \in Crates, NEW from, NEW m \in DOMAIN crate, Passes(facts, m, from)
    PROVE  /\ IsSeq(Shows(from, m))
           /\ \A x \in Range(Shows(from, m)) : x.from = from /\ FrameSound(crate, facts, x) /\ x.op # "decl"
<1> DEFINE s == crate[m].decls  t == Shows(from, m)
<1>1. IsSeq(s)  BY CrateShape
<1>2. t = [i \in DOMAIN s |-> Show(from, m, s[i])]  BY DEF Shows
<1>3. t = [i \in DOMAIN s |-> t[i]]  BY <1>2
<1>4. \A i \in DOMAIN s : t[i] = Show(from, m, s[i])  BY <1>2
<1> HIDE DEF t
<1>5. IsSeq(t) /\ \A x \in Range(t) : \E i \in DOMAIN s : x = t[i] /\ s[i] \in Range(s)
  <2> HIDE DEF s
  <2> QED BY <1>1, <1>3, MappedItems
<1>6. ASSUME NEW x \in Range(t) PROVE x.from = from /\ FrameSound(crate, facts, x) /\ x.op # "decl"
  <2>1. PICK i \in DOMAIN s : x = Show(from, m, s[i]) /\ s[i] \in Range(s)  BY <1>4, <1>5
  <2>2. x.op = "show" /\ x.from = from /\ x.module = m /\ x.decl \in Range(crate[m].decls)
    BY <2>1 DEF Show
  <2> QED BY <2>2 DEF FrameSound
<1> QED BY <1>5, <1>6 DEF t

LEMMA ViasAreSound ==
    ASSUME crate \in Crates, NEW from, NEW m \in DOMAIN crate, Passes(facts, m, from)
    PROVE  /\ IsSeq(Vias(from, m))
           /\ \A x \in Range(Vias(from, m)) : x.from = from /\ FrameSound(crate, facts, x) /\ x.op # "decl"
<1> DEFINE s == crate[m].uses  t == Vias(from, m)
<1>1. IsSeq(s)  BY CrateShape
<1>2. t = [i \in DOMAIN s |-> Via(from, m, s[i])]  BY DEF Vias
<1>3. t = [i \in DOMAIN s |-> t[i]]  BY <1>2
<1>4. \A i \in DOMAIN s : t[i] = Via(from, m, s[i])  BY <1>2
<1> HIDE DEF t
<1>5. IsSeq(t) /\ \A x \in Range(t) : \E i \in DOMAIN s : x = t[i] /\ s[i] \in Range(s)
  <2> HIDE DEF s
  <2> QED BY <1>1, <1>3, MappedItems
<1>6. ASSUME NEW x \in Range(t) PROVE x.from = from /\ FrameSound(crate, facts, x) /\ x.op # "decl"
  <2>1. PICK i \in DOMAIN s : x = Via(from, m, s[i]) /\ s[i] \in Range(s)  BY <1>4, <1>5
  <2>2. x.op = "via" /\ x.from = from /\ x.module = m /\ x.use \in Range(crate[m].uses)
    BY <2>1 DEF Via
  <2> QED BY <2>2 DEF FrameSound
<1> QED BY <1>5, <1>6 DEF t

LEMMA RepublishIsSound ==
    ASSUME NEW x, x.op = "republish", Means(facts, x.module, x.item, x.from, x.alias)
    PROVE  FrameSound(crate, facts, x) /\ x.op # "decl"
BY DEF FrameSound

LEMMA FollowsAreSound ==
    ASSUME crate \in Crates, NEW caller, caller.module \in DOMAIN crate,
           Means(facts, caller.module, caller.item, caller.from, caller.alias)
    PROVE  LET t == [i \in DOMAIN crate[caller.module].uses |-> Follow(caller, crate[caller.module].uses[i])]
           IN  /\ IsSeq(t)
               /\ \A x \in Range(t) : x.from = caller.from /\ FrameSound(crate, facts, x) /\ x.op # "decl"
<1> DEFINE s == crate[caller.module].uses
           t == [i \in DOMAIN crate[caller.module].uses |-> Follow(caller, crate[caller.module].uses[i])]
<1>1. IsSeq(s)  BY CrateShape
<1>2. t = [i \in DOMAIN s |-> Follow(caller, s[i])]  OBVIOUS
<1>3. t = [i \in DOMAIN s |-> t[i]]  BY <1>2
<1>4. \A i \in DOMAIN s : t[i] = Follow(caller, s[i])  BY <1>2
<1> HIDE DEF t
<1>5. IsSeq(t) /\ \A x \in Range(t) : \E i \in DOMAIN s : x = t[i] /\ s[i] \in Range(s)
  <2> HIDE DEF s
  <2> QED BY <1>1, <1>3, MappedItems
<1>6. ASSUME NEW x \in Range(t) PROVE x.from = caller.from /\ FrameSound(crate, facts, x) /\ x.op # "decl"
  <2>1. PICK i \in DOMAIN s : x = Follow(caller, s[i]) /\ s[i] \in Range(s)  BY <1>4, <1>5
  <2>2. x.op = "follow" /\ x.from = caller.from /\ x.call = caller /\ x.use \in Range(crate[caller.module].uses)
    BY <2>1 DEF Follow
  <2> QED BY <2>2 DEF FrameSound
<1> QED BY <1>5, <1>6 DEF t

LEMMA JoinedItems ==
    ASSUME NEW s, IsSeq(s), NEW t, IsSeq(t)
    PROVE  IsSeq(s \o t) /\ Range(s \o t) = Range(s) \cup Range(t)
<1> DEFINE S == Range(s) \cup Range(t)
<1>1. s \in Seq(S) /\ t \in Seq(S)  BY ItemsOfSeq
<1> HIDE DEF S
<1>2. s \o t \in Seq(S) /\ Range(s \o t) = Range(s) \cup Range(t)
  BY <1>1, ConcatProperties, RangeConcatenation
<1> QED BY <1>2, IsSeqOf

(* What is shown in one module is shown in the next.                       *)
LEMMA MeansPasses ==
    ASSUME NEW fs, NEW m, NEW item, NEW at, NEW name, Means(fs, m, item, at, name),
           NEW from, Passes(fs, at, from)
    PROVE  Means(fs, m, item, from, name)
<1>1. ASSUME NEW f \in fs, f[1] = m, f[2] = item PROVE <<from, name, f[3]>> \in fs
  <2>1. <<at, name, f[3]>> \in fs  BY <1>1 DEF Means
  <2> DEFINE g == <<at, name, f[3]>>
  <2>2. g \in fs /\ g[1] = at /\ g[2] = name /\ g[3] = f[3]  BY <2>1
  <2> HIDE DEF g
  <2> QED BY <2>2 DEF Passes
<1> QED BY <1>1 DEF Means

LEMMA PassesOn ==
    ASSUME NEW fs, NEW m, NEW at, Passes(fs, m, at), NEW from, Passes(fs, at, from)
    PROVE  Passes(fs, m, from)
<1>1. ASSUME NEW f \in fs, f[1] = m PROVE <<from, f[2], f[3]>> \in fs
  <2>1. <<at, f[2], f[3]>> \in fs  BY <1>1 DEF Passes
  <2> DEFINE g == <<at, f[2], f[3]>>
  <2>2. g \in fs /\ g[1] = at /\ g[2] = f[2] /\ g[3] = f[3]  BY <2>1
  <2> HIDE DEF g
  <2> QED BY <2>2 DEF Passes
<1> QED BY <1>1 DEF Passes

LEMMA JoinedPlaces ==
    ASSUME NEW s, IsSeq(s), NEW t, IsSeq(t)
    PROVE  /\ Len(s \o t) = Len(s) + Len(t) /\ Len(s) \in Nat /\ Len(t) \in Nat
           /\ \A i \in 1..Len(s \o t) : (s \o t)[i] = IF i <= Len(s) THEN s[i] ELSE t[i - Len(s)]
<1> DEFINE S == Range(s) \cup Range(t)
<1>1. s \in Seq(S) /\ t \in Seq(S) /\ Len(s) \in Nat /\ Len(t) \in Nat  BY ItemsOfSeq
<1> HIDE DEF S
<1> QED BY <1>1, ConcatProperties

LEMMA PopKeeps ==
    ASSUME SurfaceInv, calls # <<>>, Top.op \notin {"decl", "method", "mod"},
           Pop, frontier' = frontier, Stays,
           IsSeq(entries'), Range(entries) \subseteq Range(entries'),
           \A e \in Range(entries') : e \in Range(entries) \/ IsBrought(facts, Top.from, e)
    PROVE  SurfaceInv'
<1>1. IsSeq(<<>>) /\ Range(<<>>) = {} /\ Front(calls) = Push(Front(calls), <<>>)
  BY TopIsSound, PoppedIsPushed
<1>2. calls' = Push(Front(calls), <<>>)  BY <1>1 DEF Pop
<1>3. Last(calls).op \notin {"decl", "method", "mod"}  BY DEF Top
<1>4. \A e \in Range(entries') : e \in Range(entries) \/ IsBrought(facts, Last(calls).from, e)  BY DEF Top
<1> QED BY <1>1, <1>2, <1>3, <1>4, StepKeeps

LEMMA PushKeeps ==
    ASSUME SurfaceInv, calls # <<>>, Top.op \notin {"decl", "method", "mod"},
           NEW next, IsSeq(next),
           \A x \in Range(next) : x.from = Top.from /\ FrameSound(crate, facts, x) /\ x.op # "decl",
           calls' = Push(Front(calls), next), UNCHANGED <<frontier, entries>>, Stays
    PROVE  SurfaceInv'
<1>1. IsSeq(entries)  BY TopIsSound
<1>2. Last(calls).op \notin {"decl", "method", "mod"}  BY DEF Top
<1>3. \A x \in Range(next) : x.from = Last(calls).from /\ FrameSound(crate, facts, x) /\ x.op # "decl"  BY DEF Top
<1> QED BY <1>1, <1>2, <1>3, StepKeeps

LEMMA CallKeeps ==
    ASSUME SurfaceInv, calls # <<>>, Top.op \notin {"decl", "method", "mod"},
           NEW x, x.from = Top.from /\ FrameSound(crate, facts, x) /\ x.op # "decl",
           calls' = Append(Front(calls), x), UNCHANGED <<frontier, entries>>, Stays
    PROVE  SurfaceInv'
<1>1. IsSeq(<<x>>) /\ Range(<<x>>) = {x} /\ calls' = Push(Front(calls), <<x>>)
  BY TopIsSound, PoppedIsPushed
<1>2. \A y \in Range(<<x>>) : y.from = Top.from /\ FrameSound(crate, facts, y) /\ y.op # "decl"
  BY <1>1
<1> QED BY <1>1, <1>2, PushKeeps

LEMMA ResolveItemKeeps == ASSUME SurfaceInv, ResolveItem, UNCHANGED facts PROVE SurfaceInv'
<1> DEFINE full == ResolvePath(Top.from, Top.use.path)
           next == Republish(Top.from, Front(full), Last(full), LocalName(Top.use), FALSE, {})
<1>1. calls # <<>> /\ Top.op = "use" /\ ~Top.use.glob /\ UNCHANGED <<frontier, entries>> /\ Stays
  BY DEF ResolveItem, IsTop, Stays
<1>2. /\ Top.from \in DOMAIN crate /\ Top.use \in Range(crate[Top.from].uses) /\ IsSeq(entries)
      /\ crate \in Crates /\ FactsTyped(crate, facts) /\ Brought \subseteq facts
  BY <1>1, TopIsSound DEF FrameSound
<1>3. Pop \/ (Top.use.public /\ full # <<>> /\ calls' = Append(Front(calls), next))
  BY DEF ResolveItem, Pop
<1>4. CASE Pop  BY <1>1, <1>2, <1>4, PopKeeps
<1>5. CASE Top.use.public /\ full # <<>> /\ calls' = Append(Front(calls), next)
  <2> HIDE DEF full
  <2>1. Means(facts, Front(full), Last(full), Top.from, LocalName(Top.use))
    BY <1>1, <1>2, <1>5, UseBrings DEF full
  <2>2. next.from = Top.from /\ FrameSound(crate, facts, next) /\ next.op # "decl"
    <3>1. /\ next.op = "republish" /\ next.from = Top.from /\ next.module = Front(full)
          /\ next.item = Last(full) /\ next.alias = LocalName(Top.use)
      BY DEF Republish
    <3> HIDE DEF next
    <3> QED BY <2>1, <3>1, RepublishIsSound
  <2> HIDE DEF next
  <2> QED BY <1>1, <1>5, <2>2, CallKeeps
<1> QED BY <1>3, <1>4, <1>5

LEMMA ResolveGlobKeeps == ASSUME SurfaceInv, ResolveGlob, UNCHANGED facts PROVE SurfaceInv'
<1> DEFINE m == ResolvePath(Top.from, Top.use.path)
           next == Shows(Top.from, m) \o Vias(Top.from, m)
<1>1. calls # <<>> /\ Top.op = "use" /\ Top.use.glob /\ UNCHANGED <<frontier, entries>> /\ Stays
  BY DEF ResolveGlob, IsTop, Stays
<1>2. /\ Top.from \in DOMAIN crate /\ Top.use \in Range(crate[Top.from].uses) /\ IsSeq(entries)
      /\ crate \in Crates /\ FactsTyped(crate, facts) /\ Brought \subseteq facts
  BY <1>1, TopIsSound DEF FrameSound
<1>3. Pop \/ (Top.use.public /\ m \in DOMAIN crate /\ calls' = Push(Front(calls), next))
  BY DEF ResolveGlob, Pop, Modules
<1>4. CASE Pop  BY <1>1, <1>2, <1>4, PopKeeps
<1>5. CASE Top.use.public /\ m \in DOMAIN crate /\ calls' = Push(Front(calls), next)
  <2> HIDE DEF m
  <2>1. Passes(facts, m, Top.from)  BY <1>1, <1>2, <1>5, UseBrings DEF m
  <2>2. /\ IsSeq(Shows(Top.from, m)) /\ IsSeq(Vias(Top.from, m))
        /\ \A x \in Range(Shows(Top.from, m)) \cup Range(Vias(Top.from, m)) :
             x.from = Top.from /\ FrameSound(crate, facts, x) /\ x.op # "decl"
    BY <1>2, <1>5, <2>1, ShowsAreSound, ViasAreSound
  <2>3. IsSeq(next) /\ Range(next) = Range(Shows(Top.from, m)) \cup Range(Vias(Top.from, m))
    BY <2>2, JoinedItems
  <2> HIDE DEF next
  <2> QED BY <1>1, <1>5, <2>2, <2>3, PushKeeps
<1> QED BY <1>3, <1>4, <1>5

LEMMA ShowDeclKeeps == ASSUME SurfaceInv, ShowDecl, UNCHANGED facts PROVE SurfaceInv'
<1> DEFINE d == Top.decl  key == <<Top.module, d.name>>  path == Append(Top.from, d.name)
<1>1. calls # <<>> /\ Top.op = "show" /\ frontier' = frontier /\ Stays /\ Pop
  BY DEF ShowDecl, IsTop, Stays
<1>2. /\ Top.module \in DOMAIN crate /\ d \in Range(crate[Top.module].decls) /\ IsSeq(entries)
      /\ Passes(facts, Top.module, Top.from) /\ Declared \subseteq facts
  BY <1>1, TopIsSound DEF FrameSound
<1>3. entries' = entries \/ (d.public /\ entries' = Emit(entries, path, key, TRUE))
  BY DEF ShowDecl, IsShown
<1>4. CASE entries' = entries  BY <1>1, <1>2, <1>4, PopKeeps
<1>5. CASE d.public /\ entries' = Emit(entries, path, key, TRUE)
  <2>1. <<Top.module, d.name, key>> \in facts  BY <1>2, <1>5, DeclIsFact
  <2>2. <<Top.from, d.name, key>> \in facts  BY <2>1, <1>2 DEF Passes
  <2>3. \A e : e.path = path /\ e.source = key => IsBrought(facts, Top.from, e)
    <3> HIDE DEF key
    <3> QED BY <2>2 DEF IsBrought
  <2> HIDE DEF key, path
  <2>4. /\ IsSeq(entries') /\ Range(entries) \subseteq Range(entries')
        /\ \A e \in Range(entries') : e \in Range(entries) \/ (e.path = path /\ e.source = key)
    BY <1>2, <1>5, EmitAdds
  <2> QED BY <1>1, <2>3, <2>4, PopKeeps
<1> QED BY <1>3, <1>4, <1>5

LEMMA ViaItemKeeps == ASSUME SurfaceInv, ViaItem, UNCHANGED facts PROVE SurfaceInv'
<1> DEFINE full == ResolvePath(Top.module, Top.use.path)
           name == LocalName(Top.use)
           next == Republish(Top.from, Front(full), Last(full), name, TRUE, {})
<1>1. calls # <<>> /\ Top.op = "via" /\ ~Top.use.glob /\ UNCHANGED <<frontier, entries>> /\ Stays
  BY DEF ViaItem, IsTop, Stays
<1>2. /\ Top.module \in DOMAIN crate /\ Top.use \in Range(crate[Top.module].uses) /\ IsSeq(entries)
      /\ Passes(facts, Top.module, Top.from)
      /\ crate \in Crates /\ FactsTyped(crate, facts) /\ Brought \subseteq facts
  BY <1>1, TopIsSound DEF FrameSound
<1>3. Pop \/ (Top.use.public /\ full # <<>> /\ calls' = Append(Front(calls), next))
  BY DEF ViaItem, Pop
<1>4. CASE Pop  BY <1>1, <1>2, <1>4, PopKeeps
<1>5. CASE Top.use.public /\ full # <<>> /\ calls' = Append(Front(calls), next)
  <2> HIDE DEF full
  <2>1. Means(facts, Front(full), Last(full), Top.module, name)
    BY <1>1, <1>2, <1>5, UseBrings DEF full
  <2> HIDE DEF name
  <2>2. Means(facts, Front(full), Last(full), Top.from, name)
    BY <2>1, <1>2, MeansPasses
  <2>3. next.from = Top.from /\ FrameSound(crate, facts, next) /\ next.op # "decl"
    <3>1. /\ next.op = "republish" /\ next.from = Top.from /\ next.module = Front(full)
          /\ next.item = Last(full) /\ next.alias = name
      BY DEF Republish
    <3> HIDE DEF next
    <3> QED BY <2>2, <3>1, RepublishIsSound
  <2> HIDE DEF next
  <2> QED BY <1>1, <1>5, <2>3, CallKeeps
<1> QED BY <1>3, <1>4, <1>5

LEMMA ViaGlobKeeps == ASSUME SurfaceInv, ViaGlob, UNCHANGED facts PROVE SurfaceInv'
<1> DEFINE m == ResolvePath(Top.module, Top.use.path)
           next == Shows(Top.from, m)
<1>1. calls # <<>> /\ Top.op = "via" /\ Top.use.glob /\ UNCHANGED <<frontier, entries>> /\ Stays
  BY DEF ViaGlob, IsTop, Stays
<1>2. /\ Top.module \in DOMAIN crate /\ Top.use \in Range(crate[Top.module].uses) /\ IsSeq(entries)
      /\ Passes(facts, Top.module, Top.from)
      /\ crate \in Crates /\ FactsTyped(crate, facts) /\ Brought \subseteq facts
  BY <1>1, TopIsSound DEF FrameSound
<1>3. Pop \/ (Top.use.public /\ m \in DOMAIN crate /\ calls' = Push(Front(calls), next))
  BY DEF ViaGlob, Pop, Modules
<1>4. CASE Pop  BY <1>1, <1>2, <1>4, PopKeeps
<1>5. CASE Top.use.public /\ m \in DOMAIN crate /\ calls' = Push(Front(calls), next)
  <2> HIDE DEF m
  <2>1. Passes(facts, m, Top.module)  BY <1>1, <1>2, <1>5, UseBrings DEF m
  <2>2. Passes(facts, m, Top.from)  BY <2>1, <1>2, PassesOn
  <2>3. /\ IsSeq(next)
        /\ \A x \in Range(next) : x.from = Top.from /\ FrameSound(crate, facts, x) /\ x.op # "decl"
    BY <1>2, <1>5, <2>2, ShowsAreSound
  <2> HIDE DEF next
  <2> QED BY <1>1, <1>5, <2>3, PushKeeps
<1> QED BY <1>3, <1>4, <1>5

LEMMA RepublishItemKeeps == ASSUME SurfaceInv, RepublishItem, UNCHANGED facts PROVE SurfaceInv'
<1> DEFINE m == Top.module
           here == m \in Modules /\ \E d \in Range(crate[m].decls) : d.public /\ d.name = Top.item
           path == Append(Top.from, Top.alias)
           origin == <<m, Top.item>>
           next == [i \in DOMAIN crate[m].uses |-> Follow(Top, crate[m].uses[i])]
<1>1. calls # <<>> /\ Top.op = "republish" /\ frontier' = frontier /\ Stays
  BY DEF RepublishItem, IsTop, Stays
<1>2. /\ Means(facts, m, Top.item, Top.from, Top.alias) /\ IsSeq(entries)
      /\ crate \in Crates /\ Declared \subseteq facts
  BY <1>1, TopIsSound DEF FrameSound
<1>3. \/ Pop /\ entries' = entries
      \/ here /\ Pop /\ entries' = Emit(entries, path, origin, Top.glob)
      \/ m \in DOMAIN crate /\ calls' = Push(Front(calls), next) /\ entries' = entries
  BY DEF RepublishItem, Pop, Modules
<1>4. CASE Pop /\ entries' = entries  BY <1>1, <1>2, <1>4, PopKeeps
<1>5. CASE here /\ Pop /\ entries' = Emit(entries, path, origin, Top.glob)
  <2>1. PICK d \in Range(crate[m].decls) : d.public /\ d.name = Top.item  BY <1>5
  <2>2. <<m, d.name, <<m, d.name>> >> \in facts  BY <1>2, <1>5, <2>1, DeclIsFact DEF Modules
  <2>3. <<m, Top.item, origin>> \in facts  BY <2>1, <2>2
  <2>4. <<Top.from, Top.alias, origin>> \in facts  BY <2>3, <1>2 DEF Means
  <2>5. \A e : e.path = path /\ e.source = origin => IsBrought(facts, Top.from, e)
    <3> HIDE DEF origin
    <3> QED BY <2>4 DEF IsBrought
  <2> HIDE DEF origin, path
  <2>6. /\ IsSeq(entries') /\ Range(entries) \subseteq Range(entries')
        /\ \A e \in Range(entries') : e \in Range(entries) \/ (e.path = path /\ e.source = origin)
    BY <1>2, <1>5, EmitAdds
  <2> QED BY <1>1, <1>5, <2>5, <2>6, PopKeeps
<1>6. CASE m \in DOMAIN crate /\ calls' = Push(Front(calls), next) /\ entries' = entries
  <2>1. /\ IsSeq(next)
        /\ \A x \in Range(next) : x.from = Top.from /\ FrameSound(crate, facts, x) /\ x.op # "decl"
    BY <1>2, <1>6, FollowsAreSound
  <2> HIDE DEF next
  <2> QED BY <1>1, <1>6, <2>1, PushKeeps
<1> QED BY <1>3, <1>4, <1>5, <1>6

LEMMA FollowUseKeeps == ASSUME SurfaceInv, FollowUse, UNCHANGED facts PROVE SurfaceInv'
<1> DEFINE c == Top.call
           u == Top.use
           full == ResolvePath(c.module, u.path)
           within == c.within \cup {<<c.module, c.item>>}
           all == Republish(c.from, full, c.item, c.alias, TRUE, within)
           one == Republish(c.from, Front(full), Last(full), c.alias, c.glob, within)
<1>1. calls # <<>> /\ Top.op = "follow" /\ UNCHANGED <<frontier, entries>> /\ Stays
  BY DEF FollowUse, IsTop, Stays
<1>2. /\ c.from = Top.from /\ c.module \in DOMAIN crate /\ u \in Range(crate[c.module].uses)
      /\ Means(facts, c.module, c.item, c.from, c.alias) /\ IsSeq(entries)
      /\ crate \in Crates /\ FactsTyped(crate, facts) /\ Brought \subseteq facts
  BY <1>1, TopIsSound DEF FrameSound
<1>3. \/ Pop
      \/ u.public /\ u.glob /\ calls' = Append(Front(calls), all)
      \/ u.public /\ ~u.glob /\ LocalName(u) = c.item /\ full # <<>> /\ calls' = Append(Front(calls), one)
  BY DEF FollowUse, Pop, Brings
<1>4. CASE Pop  BY <1>1, <1>2, <1>4, PopKeeps
<1> HIDE DEF full, u, c
<1>5. CASE u.public /\ u.glob /\ calls' = Append(Front(calls), all)
  <2>1. Passes(facts, full, c.module)  BY <1>2, <1>5, UseBrings DEF full
  <2>2. Means(facts, full, c.item, c.from, c.alias)  BY <2>1, <1>2 DEF Passes, Means
  <2>3. all.from = Top.from /\ FrameSound(crate, facts, all) /\ all.op # "decl"
    <3>1. /\ all.op = "republish" /\ all.from = c.from /\ all.module = full
          /\ all.item = c.item /\ all.alias = c.alias
      BY DEF Republish
    <3> HIDE DEF all
    <3> QED BY <1>2, <2>2, <3>1, RepublishIsSound
  <2> HIDE DEF all
  <2> QED BY <1>1, <1>5, <2>3, CallKeeps
<1>6. CASE u.public /\ ~u.glob /\ LocalName(u) = c.item /\ full # <<>> /\ calls' = Append(Front(calls), one)
  <2>1. Means(facts, Front(full), Last(full), c.module, LocalName(u))  BY <1>2, <1>6, UseBrings DEF full
  <2>2. Means(facts, Front(full), Last(full), c.from, c.alias)  BY <2>1, <1>2, <1>6 DEF Means
  <2>3. one.from = Top.from /\ FrameSound(crate, facts, one) /\ one.op # "decl"
    <3>1. /\ one.op = "republish" /\ one.from = c.from /\ one.module = Front(full)
          /\ one.item = Last(full) /\ one.alias = c.alias
      BY DEF Republish
    <3> HIDE DEF one
    <3> QED BY <1>2, <2>2, <3>1, RepublishIsSound
  <2> HIDE DEF one
  <2> QED BY <1>1, <1>6, <2>3, CallKeeps
<1> QED BY <1>3, <1>4, <1>5, <1>6

(* Where a declaration is still to be listed, what has its path is it.     *)
LEMMA OwnPath ==
    ASSUME NEW c \in Crates, NEW fs, FactsTyped(c, fs), NEW w, NEW cs,
           NEW m \in DOMAIN c, ~DeclaresNo(cs, m),
           NEW d \in Range(c[m].decls),
           NEW e, EntrySound(c, fs, w, cs, e), HasPathOf(e, m, d)
    PROVE  Lists(e, m, d)
<1>0. e.path = Append(m, d.name)  BY DEF HasPathOf
<1>1. m \in Seq(STRING) /\ d.name \in STRING  BY CrateShape
<1>2. PICK n \in w \cap DOMAIN c :
          IsOwn(c, n, e) \/ IsOfType(c, n, e) \/ (IsBrought(fs, n, e) /\ DeclaresNo(cs, n))
  BY DEF EntrySound
<1>3. n \in Seq(STRING)  BY CrateShape
<1>4. CASE IsOwn(c, n, e)
  <2>1. PICK b \in Range(c[n].decls) : e.path = Append(n, b.name) /\ e.source = <<n, b.name>>
    BY <1>4 DEF IsOwn
  <2>2. b.name \in STRING  BY CrateShape
  <2> DEFINE x == b.name  y == d.name
  <2>3. Append(m, y) = Append(n, x) /\ x \in STRING /\ y \in STRING  BY <1>0, <2>1, <2>2, <1>1
  <2> HIDE DEF x, y
  <2>4. m = n /\ y = x  BY <2>3, <1>1, <1>3, AppendsApart
  <2> QED BY <1>0, <2>1, <2>4 DEF x, y, Lists
<1>5. CASE IsOfType(c, n, e)
  <2>1. PICK b \in Range(c[n].decls) : \E x \in Range(b.methods) : e.path = n \o <<b.name, x.name>>
    BY <1>5 DEF IsOfType
  <2>2. PICK x \in Range(b.methods) : e.path = n \o <<b.name, x.name>>  BY <2>1
  <2>3. b.name \in STRING /\ x.name \in STRING /\ Append(n, b.name) \notin DOMAIN c  BY CrateShape
  <2>4. /\ Append(n, b.name) \in Seq(STRING)
        /\ n \o <<b.name, x.name>> = Append(Append(n, b.name), x.name)
    BY <1>3, <2>3, TwoAppended
  <2> DEFINE q == Append(n, b.name)  z == x.name  y == d.name
  <2>5. Append(m, y) = Append(q, z) /\ q \in Seq(STRING) /\ z \in STRING /\ y \in STRING
    BY <1>0, <1>1, <2>2, <2>3, <2>4
  <2> HIDE DEF q, z, y
  <2>6. m = q  BY <2>5, <1>1, AppendsApart
  <2> QED BY <2>3, <2>6 DEF q
<1>6. CASE IsBrought(fs, n, e) /\ DeclaresNo(cs, n)
  <2>1. PICK f \in fs : e.path = Append(n, f[2])  BY <1>6 DEF IsBrought
  <2> DEFINE x == f[2]  y == d.name
  <2>2. f[2] \in STRING  BY DEF FactsTyped
  <2>3. Append(m, y) = Append(n, x) /\ x \in STRING /\ y \in STRING  BY <1>0, <2>1, <2>2, <1>1
  <2> HIDE DEF x, y
  <2>4. m = n  BY <2>3, <1>1, <1>3, AppendsApart
  <2> QED BY <2>4, <1>6
<1> QED BY <1>0, <1>2, <1>4, <1>5, <1>6 DEF Lists

LEMMA InvParts ==
    ASSUME SurfaceInv
    PROVE  /\ FramesSound(crate, facts, walked, calls) /\ DeclsFirst(calls) /\ IsSeq(calls)
           /\ EntriesSound(crate, facts, walked, calls, entries) /\ IsSeq(entries)
           /\ DeclsKept(crate, walked, calls, entries) /\ ModsKept(crate, walked, calls, frontier)
           /\ FrontierSound(crate, walked, frontier) /\ IsSeq(frontier)
BY DEF SurfaceInv, WalkSound, FramesSound, EntriesSound, FrontierSound

LEMMA OwnEntry ==
    ASSUME SurfaceInv, calls # <<>>, Top.op = "decl", NEW m, m = Top.from, NEW d, d = Top.decl,
           NEW e \in Range(entries), HasPathOf(e, m, d)
    PROVE  Lists(e, m, d)
<1>1. /\ m \in DOMAIN crate /\ d \in Range(crate[m].decls) /\ crate \in Crates
      /\ FactsTyped(crate, facts)
  BY TopIsSound DEF FrameSound
<1>2. ~DeclaresNo(calls, m)
  <2>1. Last(calls) \in Range(calls)  BY InvParts, FrontItems
  <2> QED BY <2>1 DEF DeclaresNo, Top
<1>3. EntrySound(crate, facts, walked, calls, e)  BY InvParts DEF EntriesSound
<1> QED BY <1>1, <1>2, <1>3, OwnPath

LEMMA EmitDeclKeeps == ASSUME SurfaceInv, EmitDecl, UNCHANGED facts PROVE SurfaceInv'
<1> DEFINE m == Top.from  d == Top.decl  path == Append(m, d.name)  origin == <<m, d.name>>
           shown == d.public /\ d.kind \in {"item", "type"}
           methods == [i \in DOMAIN d.methods |-> Method(m, d, d.methods[i])]
<1>1. calls # <<>> /\ Top.op = "decl" /\ frontier' = frontier /\ Stays
  BY DEF EmitDecl, IsTop, Stays
<1>2. /\ m \in walked /\ m \in DOMAIN crate /\ d \in Range(crate[m].decls)
      /\ crate \in Crates /\ FactsTyped(crate, facts)
  BY <1>1, TopIsSound DEF FrameSound
<1>3. Top = Last(calls) /\ Top \in Range(calls)
  <2>1. Last(calls) \in Range(calls)  BY <1>1, InvParts, FrontItems
  <2> QED BY <2>1 DEF Top
<1>4. entries' = IF shown THEN Emit(entries, path, origin, FALSE) ELSE entries  BY DEF EmitDecl
<1>5. calls' = Push(Front(calls), methods) \/ Pop  BY DEF EmitDecl, Pop
<1>6. /\ IsSeq(methods)
      /\ \A x \in Range(methods) : x.from = m /\ FrameSound(crate, facts, x) /\ x.op = "method"
  <2> DEFINE s == d.methods
  <2>1. IsSeq(s)  BY <1>2, CrateShape
  <2>2. methods = [i \in DOMAIN s |-> methods[i]]  OBVIOUS
  <2>3. \A i \in DOMAIN s : methods[i] = Method(m, d, s[i])  OBVIOUS
  <2> HIDE DEF methods
  <2>4. IsSeq(methods) /\ \A x \in Range(methods) : \E i \in DOMAIN s : x = methods[i] /\ s[i] \in Range(s)
    <3> HIDE DEF s
    <3> QED BY <2>1, <2>2, MappedItems
  <2>5. ASSUME NEW x \in Range(methods) PROVE x.from = m /\ FrameSound(crate, facts, x) /\ x.op = "method"
    <3>1. PICK i \in DOMAIN s : x = Method(m, d, s[i]) /\ s[i] \in Range(s)  BY <2>3, <2>4
    <3>2. x.op = "method" /\ x.from = m /\ x.decl = d /\ x.method \in Range(d.methods)
      BY <3>1 DEF Method
    <3> QED BY <3>2, <1>2 DEF FrameSound
  <2> QED BY <2>4, <2>5
<1> HIDE DEF methods
<1>7. PICK next : /\ calls' = Push(Front(calls), next) /\ IsSeq(next)
                  /\ \A x \in Range(next) : x.from = m /\ FrameSound(crate, facts, x) /\ x.op = "method"
  <2>1. CASE Pop
    <3>1. IsSeq(<<>>) /\ Range(<<>>) = {} /\ Front(calls) = Push(Front(calls), <<>>)
      BY <1>1, InvParts, PoppedIsPushed
    <3>2. calls' = Push(Front(calls), <<>>)  BY <2>1, <3>1 DEF Pop
    <3> QED BY <3>1, <3>2
  <2>2. CASE calls' = Push(Front(calls), methods)  BY <2>2, <1>6
  <2> QED BY <2>1, <2>2, <1>5
<1>8. /\ FramesSound(crate, facts, walked, calls') /\ DeclsFirst(calls')
      /\ \A x \in Range(calls) : x = Top \/ x \in Range(calls')
      /\ \A x \in Range(calls') : x.op = "decl" => x \in Range(calls)
  <2>1. \A x \in Range(next) : x.from = Last(calls).from /\ FrameSound(crate, facts, x) /\ x.op # "decl"
    BY <1>3, <1>7
  <2>2. \A x \in Range(next) : x.op = "method"  BY <1>7
  <2> QED BY <1>1, <1>3, <1>7, <2>1, <2>2, InvParts, TopReplaced
<1>9. /\ IsSeq(entries') /\ Range(entries) \subseteq Range(entries')
      /\ \A e \in Range(entries') : e \in Range(entries) \/ (shown /\ e.path = path /\ e.source = origin)
      /\ shown => \E e \in Range(entries') : e.path = path
  <2> HIDE DEF path, origin, shown
  <2>1. CASE shown
    <3>1. entries' = Emit(entries, path, origin, FALSE) /\ IsSeq(entries)  BY <1>4, <2>1, InvParts
    <3>2. /\ IsSeq(entries') /\ Range(entries) \subseteq Range(entries')
          /\ \A e \in Range(entries') : e \in Range(entries) \/ (e.path = path /\ e.source = origin)
          /\ \E e \in Range(entries') : e.path = path
      BY <3>1, EmitAdds
    <3> QED BY <3>2, <2>1
  <2>2. CASE ~shown  BY <2>2, <1>4, InvParts
  <2> QED BY <2>1, <2>2
<1>10. EntriesSound(crate, facts, walked, calls', entries')
  <2>1. ASSUME NEW e \in Range(entries'), e \notin Range(entries)
        PROVE  EntrySound(crate, facts, walked, calls', e)
    <3>1. d.public /\ e.path = path /\ e.source = origin  BY <1>9, <2>1
    <3>2. IsOwn(crate, m, e)  BY <3>1, <1>2 DEF IsOwn
    <3> QED BY <3>2, <1>2 DEF EntrySound
  <2> QED BY <2>1, <1>8, <1>9, InvParts, EntriesStay
<1>11. DeclsKept(crate, walked, calls', entries')
  <2>1. shown => Listed(entries', m, d)
    <3>1. SUFFICES ASSUME shown PROVE Listed(entries', m, d)  OBVIOUS
    <3>2. PICK e \in Range(entries') : e.path = path  BY <3>1, <1>9
    <3>3. CASE e \in Range(entries)
      <4>1. m = Top.from /\ d = Top.decl /\ HasPathOf(e, m, d)  BY <3>2 DEF HasPathOf
      <4> HIDE DEF m, d
      <4>2. Lists(e, m, d)  BY <1>1, <3>3, <4>1, OwnEntry
      <4> QED BY <4>2 DEF Listed
    <3>4. CASE e.source = origin  BY <3>2, <3>4 DEF Listed, Lists
    <3> QED BY <3>3, <3>4, <1>9
  <2>2. ASSUME NEW n \in walked \cap DOMAIN crate, NEW b \in Range(crate[n].decls),
               Decl(n, b) = Top, b.public, b.kind \in {"item", "type"}
        PROVE  Listed(entries', n, b)
    <3>1. n = m /\ b = d
      <4>1. Decl(n, b).from = n /\ Decl(n, b).decl = b  BY DEF Decl
      <4> QED BY <4>1, <2>2
    <3> QED BY <3>1, <2>1, <2>2
  <2> HIDE DEF m, d
  <2> QED BY <2>2, <1>8, <1>9, InvParts, DeclsStay
<1>12. ModsKept(crate, walked, calls', frontier')
  <2>1. Top.op # "mod"  BY <1>1
  <2> QED BY <2>1, <1>1, <1>8, InvParts, ModsStay
<1>13. FrontierSound(crate, walked, frontier')  BY <1>1, InvParts
<1> QED BY <1>1, <1>8, <1>10, <1>11, <1>12, <1>13, PartsKeep

LEMMA PoppedIsSound ==
    ASSUME SurfaceInv, calls # <<>>, Pop
    PROVE  /\ FramesSound(crate, facts, walked, calls') /\ DeclsFirst(calls')
           /\ \A x \in Range(calls) : x = Top \/ x \in Range(calls')
           /\ \A x \in Range(calls') : x.op = "decl" => x \in Range(calls)
<1>1. IsSeq(<<>>) /\ Range(<<>>) = {} /\ calls' = Push(Front(calls), <<>>)
  BY InvParts, PoppedIsPushed DEF Pop
<1> QED BY <1>1, InvParts, TopReplaced DEF Top

LEMMA EmitMethodKeeps == ASSUME SurfaceInv, EmitMethod, UNCHANGED facts PROVE SurfaceInv'
<1> DEFINE m == Top.from  d == Top.decl  x == Top.method
           path == m \o <<d.name, x.name>>  origin == <<m, d.name, x.name>>
<1>1. calls # <<>> /\ Top.op = "method" /\ frontier' = frontier /\ Stays /\ Pop
  BY DEF EmitMethod, IsTop, Stays
<1>2. m \in walked /\ m \in DOMAIN crate /\ d \in Range(crate[m].decls) /\ x \in Range(d.methods)
  BY <1>1, TopIsSound DEF FrameSound
<1>3. entries' = entries \/ entries' = Emit(entries, path, origin, FALSE)  BY DEF EmitMethod
<1>4. /\ FramesSound(crate, facts, walked, calls') /\ DeclsFirst(calls')
      /\ \A y \in Range(calls) : y = Top \/ y \in Range(calls')
      /\ \A y \in Range(calls') : y.op = "decl" => y \in Range(calls)
  BY <1>1, PoppedIsSound
<1>5. \A e : e.path = path /\ e.source = origin => EntrySound(crate, facts, walked, calls', e)
  BY <1>2 DEF EntrySound, IsOfType
<1>6. /\ IsSeq(entries') /\ Range(entries) \subseteq Range(entries')
      /\ \A e \in Range(entries') : e \in Range(entries) \/ (e.path = path /\ e.source = origin)
  <2> HIDE DEF path, origin
  <2>1. CASE entries' = entries  BY <2>1, InvParts
  <2>2. CASE entries' = Emit(entries, path, origin, FALSE)  BY <2>2, InvParts, EmitAdds
  <2> QED BY <1>3, <2>1, <2>2
<1> HIDE DEF path, origin
<1>7. EntriesSound(crate, facts, walked, calls', entries')
  <2>1. \A e \in Range(entries') : e \in Range(entries) \/ EntrySound(crate, facts, walked, calls', e)
    BY <1>5, <1>6
  <2> QED BY <2>1, <1>4, <1>6, InvParts, EntriesStay
<1>8. DeclsKept(crate, walked, calls', entries')
  <2>1. \A n, b : Decl(n, b).op = "decl"  BY DEF Decl
  <2>2. \A n, b : Decl(n, b) # Top  BY <2>1, <1>1
  <2> QED BY <2>2, <1>4, <1>6, InvParts, DeclsStay
<1>9. ModsKept(crate, walked, calls', frontier')
  <2>1. Top.op # "mod"  BY <1>1
  <2> QED BY <2>1, <1>1, <1>4, InvParts, ModsStay
<1>10. FrontierSound(crate, walked, frontier')  BY <1>1, InvParts
<1> QED BY <1>1, <1>4, <1>7, <1>8, <1>9, <1>10, PartsKeep

LEMMA WalkChildKeeps == ASSUME SurfaceInv, WalkChild, UNCHANGED facts PROVE SurfaceInv'
<1> DEFINE m == Top.from  x == Top.child  new == Append(m, x.name)
<1>1. calls # <<>> /\ Top.op = "mod" /\ entries' = entries /\ Stays /\ Pop
  BY DEF WalkChild, IsTop, Stays
<1>2. m \in walked /\ m \in DOMAIN crate /\ x \in Range(crate[m].mods)
  BY <1>1, TopIsSound DEF FrameSound
<1>3. frontier' = IF x.public THEN Append(frontier, new) ELSE frontier  BY DEF WalkChild
<1>4. /\ FramesSound(crate, facts, walked, calls') /\ DeclsFirst(calls')
      /\ \A y \in Range(calls) : y = Top \/ y \in Range(calls')
      /\ \A y \in Range(calls') : y.op = "decl" => y \in Range(calls)
  BY <1>1, PoppedIsSound
<1>5. EntriesSound(crate, facts, walked, calls', entries')
  <2>1. IsSeq(entries') /\ \A e \in Range(entries') : e \in Range(entries)  BY <1>1, InvParts
  <2> QED BY <2>1, <1>4, InvParts, EntriesStay
<1>6. DeclsKept(crate, walked, calls', entries')
  <2>1. \A n, b : Decl(n, b).op = "decl"  BY DEF Decl
  <2>2. \A n, b : Decl(n, b) # Top  BY <2>1, <1>1
  <2> QED BY <2>2, <1>1, <1>4, InvParts, DeclsStay
<1>7. /\ IsSeq(frontier') /\ Range(frontier) \subseteq Range(frontier')
      /\ \A n \in Range(frontier') : n \in Range(frontier) \/ (n = new /\ x.public)
      /\ x.public => new \in Range(frontier')
  <2>1. IsSeq(frontier)  BY InvParts
  <2> HIDE DEF new, x
  <2>2. CASE x.public
    <3> DEFINE S == Range(frontier) \cup {new}
    <3>1. frontier \in Seq(S) /\ new \in S  BY <2>1, ItemsOfSeq
    <3>2. frontier' = Append(frontier, new)  BY <2>2, <1>3
    <3> HIDE DEF S
    <3>3. frontier' \in Seq(S) /\ Range(frontier') = Range(frontier) \cup {new}
      BY <3>1, <3>2, Appended
    <3>4. IsSeq(frontier')  BY <3>3, IsSeqOf
    <3> QED BY <3>3, <3>4, <2>2
  <2>3. CASE ~x.public  BY <2>1, <2>3, <1>3
  <2> QED BY <2>2, <2>3
<1>8. ModsKept(crate, walked, calls', frontier')
  <2>1. ASSUME NEW n \in walked \cap DOMAIN crate, NEW y \in Range(crate[n].mods), y.public
        PROVE  \/ Append(n, y.name) \in walked \/ Append(n, y.name) \in Range(frontier')
               \/ Mod(n, y) \in Range(calls')
    <3>1. \/ Append(n, y.name) \in walked \/ Append(n, y.name) \in Range(frontier)
          \/ Mod(n, y) \in Range(calls)
      BY <2>1, InvParts DEF ModsKept
    <3>2. CASE Mod(n, y) = Top
      <4>1. Mod(n, y).from = n /\ Mod(n, y).child = y  BY DEF Mod
      <4>2. n = m /\ y = x  BY <3>2, <4>1
      <4> QED BY <4>2, <2>1, <1>7
    <3>3. CASE Mod(n, y) # Top  BY <3>1, <3>3, <1>4, <1>7
    <3> QED BY <3>2, <3>3
  <2> QED BY <2>1 DEF ModsKept
<1>9. FrontierSound(crate, walked, frontier')
  <2>1. x.public => IsChild(crate, walked, new)  BY <1>2 DEF IsChild
  <2> QED BY <2>1, <1>7, InvParts DEF FrontierSound
<1> QED BY <1>1, <1>4, <1>5, <1>6, <1>8, <1>9, PartsKeep

(* What a module consists of, its declarations first.                      *)
LEMMA PartsInOrder ==
    ASSUME crate \in Crates, NEW m \in DOMAIN crate
    PROVE  LET p == Parts(m)
           IN  /\ IsSeq(p)
               /\ \A x \in Range(p) : x.from = m /\ FrameSound(crate, facts, x)
               /\ \A d \in Range(crate[m].decls) : Decl(m, d) \in Range(p)
               /\ \A x \in Range(crate[m].mods) : Mod(m, x) \in Range(p)
               /\ \A j, k \in DOMAIN p : j < k /\ p[k].op = "decl" => p[j].op = "decl"
<1> DEFINE s == crate[m].decls  t == crate[m].mods  r == crate[m].uses
           a == [i \in DOMAIN s |-> Decl(m, s[i])]
           b == [i \in DOMAIN t |-> Mod(m, t[i])]
           c == [i \in DOMAIN r |-> Use(m, r[i])]
           ab == a \o b
           p == ab \o c
<1>1. IsSeq(s) /\ IsSeq(t) /\ IsSeq(r)  BY CrateShape
<1>2. Parts(m) = p  BY DEF Parts
<1>3. /\ a = [i \in DOMAIN s |-> a[i]] /\ b = [i \in DOMAIN t |-> b[i]] /\ c = [i \in DOMAIN r |-> c[i]]
      /\ \A i \in DOMAIN s : a[i] = Decl(m, s[i])
      /\ \A i \in DOMAIN t : b[i] = Mod(m, t[i])
      /\ \A i \in DOMAIN r : c[i] = Use(m, r[i])
  OBVIOUS
<1> HIDE DEF a, b, c
<1>4. /\ IsSeq(a) /\ \A x \in Range(a) : \E i \in DOMAIN s : x = a[i] /\ s[i] \in Range(s)
      /\ \A y \in Range(s) : \E i \in DOMAIN s : y = s[i] /\ a[i] \in Range(a)
  <2> HIDE DEF s
  <2> QED BY <1>1, <1>3, MappedItems
<1>5. /\ IsSeq(b) /\ \A x \in Range(b) : \E i \in DOMAIN t : x = b[i] /\ t[i] \in Range(t)
      /\ \A y \in Range(t) : \E i \in DOMAIN t : y = t[i] /\ b[i] \in Range(b)
  <2> HIDE DEF t
  <2> QED BY <1>1, <1>3, MappedItems
<1>6. IsSeq(c) /\ \A x \in Range(c) : \E i \in DOMAIN r : x = c[i] /\ r[i] \in Range(r)
  <2> HIDE DEF r
  <2> QED BY <1>1, <1>3, MappedItems
<1>7. \A x \in Range(a) : x.from = m /\ FrameSound(crate, facts, x) /\ x.op = "decl"
  <2>1. ASSUME NEW x \in Range(a) PROVE x.from = m /\ FrameSound(crate, facts, x) /\ x.op = "decl"
    <3>0. PICK i \in DOMAIN s : x = a[i] /\ s[i] \in Range(s)  BY <1>4
    <3>1. x = Decl(m, s[i]) /\ s[i] \in Range(s)  BY <1>3, <3>0
    <3>2. x.op = "decl" /\ x.from = m /\ x.decl \in Range(crate[m].decls)  BY <3>1 DEF Decl
    <3> QED BY <3>2 DEF FrameSound
  <2> QED BY <2>1
<1>8. \A x \in Range(b) : x.from = m /\ FrameSound(crate, facts, x) /\ x.op # "decl"
  <2>1. ASSUME NEW x \in Range(b) PROVE x.from = m /\ FrameSound(crate, facts, x) /\ x.op # "decl"
    <3>0. PICK i \in DOMAIN t : x = b[i] /\ t[i] \in Range(t)  BY <1>5
    <3>1. x = Mod(m, t[i]) /\ t[i] \in Range(t)  BY <1>3, <3>0
    <3>2. x.op = "mod" /\ x.from = m /\ x.child \in Range(crate[m].mods)  BY <3>1 DEF Mod
    <3> QED BY <3>2 DEF FrameSound
  <2> QED BY <2>1
<1>9. \A x \in Range(c) : x.from = m /\ FrameSound(crate, facts, x) /\ x.op # "decl"
  <2>1. ASSUME NEW x \in Range(c) PROVE x.from = m /\ FrameSound(crate, facts, x) /\ x.op # "decl"
    <3>0. PICK i \in DOMAIN r : x = c[i] /\ r[i] \in Range(r)  BY <1>6
    <3>1. x = Use(m, r[i]) /\ r[i] \in Range(r)  BY <1>3, <3>0
    <3>2. x.op = "use" /\ x.from = m /\ x.use \in Range(crate[m].uses)  BY <3>1 DEF Use
    <3> QED BY <3>2 DEF FrameSound
  <2> QED BY <2>1
<1>10. IsSeq(ab) /\ Range(ab) = Range(a) \cup Range(b)  BY <1>4, <1>5, JoinedItems
<1>11. /\ Len(ab) = Len(a) + Len(b) /\ Len(a) \in Nat /\ Len(b) \in Nat
       /\ \A i \in 1..Len(ab) : ab[i] = IF i <= Len(a) THEN a[i] ELSE b[i - Len(a)]
  BY <1>4, <1>5, JoinedPlaces
<1> HIDE DEF ab
<1>12. IsSeq(p) /\ Range(p) = Range(ab) \cup Range(c)  BY <1>6, <1>10, JoinedItems
<1>13. /\ Len(p) = Len(ab) + Len(c) /\ Len(c) \in Nat /\ DOMAIN p = 1..Len(p)
       /\ \A i \in 1..Len(p) : p[i] = IF i <= Len(ab) THEN ab[i] ELSE c[i - Len(ab)]
  BY <1>6, <1>10, <1>12, JoinedPlaces, ItemsOfSeq
<1> HIDE DEF p
<1>14. DOMAIN a = 1..Len(a) /\ DOMAIN b = 1..Len(b) /\ DOMAIN c = 1..Len(c)
  BY <1>4, <1>5, <1>6, ItemsOfSeq
<1>15. ASSUME NEW i \in 1..Len(p) PROVE p[i].op = "decl" <=> i <= Len(a)
  <2>1. CASE i <= Len(a)
    <3>1. i \in 1..Len(a) /\ i \in 1..Len(ab) /\ i <= Len(ab)  BY <2>1, <1>11
    <3>2. p[i] = a[i]  BY <3>1, <2>1, <1>11, <1>13
    <3>3. a[i] \in Range(a)  BY <3>1, <1>14 DEF Range
    <3> QED BY <2>1, <3>2, <3>3, <1>7
  <2>2. CASE ~(i <= Len(a)) /\ i <= Len(ab)
    <3>1. i - Len(a) \in 1..Len(b) /\ i \in 1..Len(ab)  BY <2>2, <1>11
    <3>2. p[i] = b[i - Len(a)]  BY <3>1, <2>2, <1>11, <1>13
    <3>3. b[i - Len(a)] \in Range(b)  BY <3>1, <1>14 DEF Range
    <3> QED BY <2>2, <3>2, <3>3, <1>8
  <2>3. CASE ~(i <= Len(ab))
    <3>1. i - Len(ab) \in 1..Len(c) /\ ~(i <= Len(a))  BY <2>3, <1>11, <1>13
    <3>2. p[i] = c[i - Len(ab)]  BY <2>3, <1>13
    <3>3. c[i - Len(ab)] \in Range(c)  BY <3>1, <1>14 DEF Range
    <3> QED BY <3>1, <3>2, <3>3, <1>9
  <2> QED BY <2>1, <2>2, <2>3
<1>16. \A j, k \in DOMAIN p : j < k /\ p[k].op = "decl" => p[j].op = "decl"
  <2>1. ASSUME NEW j \in 1..Len(p), NEW k \in 1..Len(p), j < k, p[k].op = "decl" PROVE p[j].op = "decl"
    <3>1. k <= Len(a)  BY <2>1, <1>15
    <3>2. j <= Len(a)  BY <2>1, <3>1, <1>11
    <3> QED BY <3>2, <1>15
  <2> QED BY <2>1, <1>13
<1>17. \A x \in Range(p) : x.from = m /\ FrameSound(crate, facts, x)
  BY <1>7, <1>8, <1>9, <1>10, <1>12
<1>18. \A d \in Range(s) : Decl(m, d) \in Range(p)  BY <1>3, <1>4, <1>10, <1>12
<1>19. \A x \in Range(t) : Mod(m, x) \in Range(p)  BY <1>3, <1>5, <1>10, <1>12
<1> HIDE DEF s, t
<1>20. p = Parts(m)  BY <1>2 DEF p, ab
<1> QED BY <1>12, <1>16, <1>17, <1>18, <1>19, <1>20 DEF s, t

(* The frames of a module that is walked now.                              *)
LEMMA PartsArePushed ==
    ASSUME crate \in Crates, NEW m \in DOMAIN crate, NEW cs, cs = Push(<<>>, Parts(m)),
           NEW w, m \in w
    PROVE  /\ FramesSound(crate, facts, w, cs) /\ DeclsFirst(cs)
           /\ \A x \in Range(cs) : x.from = m
           /\ \A d \in Range(crate[m].decls) : Decl(m, d) \in Range(cs)
           /\ \A x \in Range(crate[m].mods) : Mod(m, x) \in Range(cs)
<1> DEFINE p == Parts(m)
<1>1. /\ IsSeq(p) /\ \A x \in Range(p) : x.from = m /\ FrameSound(crate, facts, x)
      /\ \A d \in Range(crate[m].decls) : Decl(m, d) \in Range(p)
      /\ \A x \in Range(crate[m].mods) : Mod(m, x) \in Range(p)
      /\ \A j, k \in DOMAIN p : j < k /\ p[k].op = "decl" => p[j].op = "decl"
  BY PartsInOrder
<1> HIDE DEF p
<1>2. cs = Push(<<>>, p)  BY DEF p
<1>3. /\ IsSeq(cs) /\ Range(cs) = Range(p) /\ Len(cs) = Len(p) /\ Len(p) \in Nat
      /\ \A i \in 1..Len(cs) : cs[i] = p[Len(cs) - i + 1]
  <2> DEFINE z == <<>>  s == Push(z, p)
  <2>1. Len(z) = 0 /\ IsSeq(z) /\ Range(z) = {} /\ cs = s  BY <1>2, NoItems
  <2> HIDE DEF z
  <2>2. /\ IsSeq(s) /\ Range(s) = Range(z) \cup Range(p)
        /\ Len(s) = Len(z) + Len(p) /\ Len(p) \in Nat
        /\ \A i \in Len(z) + 1..Len(s) : s[i] = p[Len(s) - i + 1]
    BY <1>1, <2>1, PushItems
  <2> HIDE DEF s
  <2>3. Len(cs) = Len(p) /\ Len(z) + 1..Len(cs) = 1..Len(cs)  BY <2>1, <2>2
  <2> QED BY <2>1, <2>2, <2>3
<1>4. DOMAIN cs = 1..Len(cs) /\ DOMAIN p = 1..Len(cs)  BY <1>1, <1>3, ItemsOfSeq
<1>5. DeclsFirst(cs)
  <2>1. ASSUME NEW j \in 1..Len(cs), NEW k \in 1..Len(cs), j < k, cs[j].op = "decl"
        PROVE  cs[k].op = "decl"
    <3>1. /\ Len(cs) - j + 1 \in 1..Len(cs) /\ Len(cs) - k + 1 \in 1..Len(cs)
          /\ Len(cs) - k + 1 < Len(cs) - j + 1
      BY <2>1, <1>3
    <3>2. p[Len(cs) - j + 1].op = "decl"  BY <2>1, <1>3
    <3>3. p[Len(cs) - k + 1].op = "decl"  BY <3>1, <3>2, <1>1, <1>4
    <3> QED BY <3>3, <1>3
  <2> QED BY <2>1, <1>4 DEF DeclsFirst
<1>6. FramesSound(crate, facts, w, cs)  BY <1>1, <1>3 DEF FramesSound
<1> QED BY <1>1, <1>3, <1>5, <1>6

(* A public child of a public module is public.                            *)
LEMMA ChildIsPublic ==
    ASSUME crate \in Crates, NEW p \in Modules, IsPublic(p),
           NEW x \in Range(crate[p].mods), x.public, NEW m \in Modules, m = Append(p, x.name)
    PROVE  IsPublic(m)
<1>1. /\ p \in Seq(STRING) /\ x.name \in STRING /\ Len(p) \in Nat /\ Len(m) = Len(p) + 1
      /\ m \in Seq(STRING) /\ m[Len(p) + 1] = x.name /\ \A k \in 1..Len(p) : m[k] = p[k]
  <2>1. p \in Seq(STRING) /\ m \in Seq(STRING) /\ x.name \in STRING  BY CrateShape DEF Modules
  <2> DEFINE S == STRING  y == x.name
  <2>2. p \in Seq(S) /\ y \in S /\ m = Append(p, y)  BY <2>1
  <2> HIDE DEF S, y
  <2>3. /\ Len(m) = Len(p) + 1 /\ m[Len(p) + 1] = y /\ Len(p) \in Nat
        /\ \A k \in 1..Len(p) : m[k] = p[k]
    BY <2>2, AppendProperties, LenProperties
  <2> QED BY <2>1, <2>3 DEF y
<1>2. ASSUME NEW i \in 1..Len(p) PROVE SubSeq(m, 1, i) = SubSeq(p, 1, i)
  BY <1>1, SamePrefix
<1>3. ASSUME NEW i \in 2..Len(m)
      PROVE  LET above == SubSeq(m, 1, i - 1)
             IN  above \in Modules /\ \E c \in Range(crate[above].mods) : c.public /\ c.name = m[i]
  <2> DEFINE above == SubSeq(m, 1, i - 1)
  <2>1. i - 1 \in 1..Len(p)  BY <1>1
  <2>2. above = SubSeq(p, 1, i - 1)  BY <1>2, <2>1
  <2>3. CASE i = Len(m)
    <3>1. i - 1 = Len(p) /\ m[i] = x.name  BY <1>1, <2>3
    <3>2. above = p  BY <1>1, <2>2, <3>1, SubSeqFull
    <3> QED BY <3>1, <3>2
  <2>4. CASE i # Len(m)
    <3>1. i \in 2..Len(p) /\ m[i] = p[i]  BY <1>1, <2>4
    <3>2. SubSeq(p, 1, i - 1) \in Modules
          /\ \E c \in Range(crate[SubSeq(p, 1, i - 1)].mods) : c.public /\ c.name = p[i]
      BY <3>1 DEF IsPublic
    <3> QED BY <2>2, <3>1, <3>2
  <2> QED BY <2>3, <2>4
<1> QED BY <1>3 DEF IsPublic

LEMMA RootIsPublic == ASSUME <<Root>> \in Modules PROVE IsPublic(<<Root>>)
<1>1. Len(<<Root>>) = 1  OBVIOUS
<1>2. 2..Len(<<Root>>) = {}  BY <1>1
<1> QED BY <1>2 DEF IsPublic

LEMMA WalkModuleKeeps ==
    ASSUME SurfaceInv, Brought \subseteq facts, WalkModule, UNCHANGED facts
    PROVE  SurfaceInv'
<1> DEFINE m == Last(frontier)  w == walked \cup {m}
           new == m \notin walked /\ m \in Modules
<1>1. /\ calls = <<>> /\ frontier # <<>> /\ frontier' = Front(frontier) /\ walked' = w
      /\ crate' = crate /\ facts' = facts /\ entries' = entries
      /\ calls' = IF new THEN Push(<<>>, Parts(m)) ELSE <<>>
  BY DEF WalkModule
<1>2. crate \in Crates /\ \A n \in walked \cap Modules : IsPublic(n)  BY DEF SurfaceInv
<1>3. Range(frontier) = Range(frontier') \cup {m} /\ IsSeq(frontier')
  BY <1>1, InvParts, FrontItems
<1>4. Range(<<>>) = {} /\ IsSeq(<<>>)  BY NoItems
<1> HIDE DEF m
<1>5. /\ FramesSound(crate, facts, w, calls') /\ DeclsFirst(calls')
      /\ \A x \in Range(calls') : x.from = m /\ new
      /\ new => \A d \in Range(crate[m].decls) : Decl(m, d) \in Range(calls')
      /\ new => \A x \in Range(crate[m].mods) : Mod(m, x) \in Range(calls')
  <2>1. CASE new
    <3>1. calls' = Push(<<>>, Parts(m)) /\ m \in DOMAIN crate /\ m \in w  BY <1>1, <2>1 DEF Modules
    <3> QED BY <1>2, <2>1, <3>1, PartsArePushed
  <2>2. CASE ~new
    <3>1. calls' = <<>> /\ DOMAIN calls' = {}  BY <1>1, <2>2
    <3> QED BY <1>4, <2>2, <3>1 DEF FramesSound, DeclsFirst
  <2> QED BY <2>1, <2>2
<1>6. EntriesSound(crate, facts, w, calls', entries)
  <2>1. ASSUME NEW e \in Range(entries) PROVE EntrySound(crate, facts, w, calls', e)
    <3>1. PICK n \in walked \cap DOMAIN crate :
              IsOwn(crate, n, e) \/ IsOfType(crate, n, e) \/ (IsBrought(facts, n, e) /\ DeclaresNo(calls, n))
      BY InvParts DEF EntriesSound, EntrySound
    <3>2. DeclaresNo(calls', n)  BY <1>5, <3>1 DEF DeclaresNo
    <3>3. n \in w \cap DOMAIN crate  BY <3>1
    <3> QED BY <3>1, <3>2, <3>3 DEF EntrySound
  <2> QED BY <2>1, InvParts DEF EntriesSound
<1>7. \A n \in w \cap DOMAIN crate : n \in walked \cap DOMAIN crate \/ (n = m /\ new)  BY DEF Modules
<1>8. DeclsKept(crate, w, calls', entries)
  <2>1. \A n \in walked \cap DOMAIN crate : \A d \in Range(crate[n].decls) :
            d.public /\ d.kind \in {"item", "type"} => Listed(entries, n, d)
    BY <1>1, <1>4, InvParts DEF DeclsKept
  <2> QED BY <2>1, <1>5, <1>7 DEF DeclsKept
<1>9. ModsKept(crate, w, calls', frontier')
  <2>1. \A n \in walked \cap DOMAIN crate : \A x \in Range(crate[n].mods) :
            x.public => Append(n, x.name) \in walked \/ Append(n, x.name) \in Range(frontier)
    BY <1>1, <1>4, InvParts DEF ModsKept
  <2>2. \A n \in walked \cap DOMAIN crate : \A x \in Range(crate[n].mods) :
            x.public => Append(n, x.name) \in w \/ Append(n, x.name) \in Range(frontier')
    BY <2>1, <1>3
  <2> QED BY <2>2, <1>5, <1>7 DEF ModsKept
<1>10. \A n : IsChild(crate, walked, n) => IsChild(crate, w, n)  BY DEF IsChild
<1>11. FrontierSound(crate, w, frontier')
  <2>1. /\ \A n \in Range(frontier) : n = <<Root>> \/ IsChild(crate, walked, n)
        /\ <<Root>> \in walked \/ <<Root>> \in Range(frontier)
    BY InvParts DEF FrontierSound
  <2> QED BY <2>1, <1>3, <1>10 DEF FrontierSound
<1>12. ASSUME NEW n \in w \cap Modules PROVE IsPublic(n)
  <2>1. CASE n \in walked  BY <2>1, <1>2
  <2>2. CASE n = m
    <3>1. n = <<Root>> \/ IsChild(crate, walked, n)  BY <2>2, <1>3, InvParts DEF FrontierSound
    <3>2. CASE n = <<Root>>  BY <3>2, RootIsPublic
    <3>3. CASE IsChild(crate, walked, n)
      <4>1. PICK p \in walked \cap DOMAIN crate : \E x \in Range(crate[p].mods) : x.public /\ n = Append(p, x.name)
        BY <3>3 DEF IsChild
      <4>2. PICK x \in Range(crate[p].mods) : x.public /\ n = Append(p, x.name)  BY <4>1
      <4>3. p \in Modules /\ IsPublic(p)  BY <1>2 DEF Modules
      <4> QED BY <4>2, <4>3, <1>2, ChildIsPublic
    <3> QED BY <3>1, <3>2, <3>3
  <2> QED BY <2>1, <2>2
<1>13. WalkSound(crate, facts, w, calls', entries, frontier')
  BY <1>5, <1>6, <1>8, <1>9, <1>11 DEF WalkSound
<1>14. WalkSound(crate, facts, walked, calls, entries, frontier)'  BY <1>1, <1>13
<1>15. /\ crate' \in Crates /\ FactsTyped(crate, facts)' /\ Declared' \subseteq facts'
       /\ walked' # {} /\ Brought' \subseteq facts' /\ \A n \in walked' \cap Modules' : IsPublic(n)'
  <2>1. w # {}  OBVIOUS
  <2> QED BY <2>1, <1>1, <1>2, <1>12, StayedIsKnown DEF SurfaceInv
<1> QED BY <1>14, <1>15 DEF SurfaceInv

LEMMA BroughtIsTyped ==
    ASSUME crate \in Crates, FactsTyped(crate, facts)
    PROVE  FactsTyped(crate, Brought)
<1>1. ASSUME NEW f \in Brought
      PROVE  \E n, k \in DOMAIN crate : \E a, b \in STRING : f = <<n, a, <<k, b>> >>
  <2>1. PICK m \in Modules : \E u \in PublicUses(m) : f \in Reexported(m, u)  BY DEF Brought
  <2>2. PICK u \in PublicUses(m) : f \in Reexported(m, u)  BY <2>1
  <2>3. m \in DOMAIN crate /\ u \in Range(crate[m].uses)  BY DEF Modules, PublicUses
  <2>4. LocalName(u) \in STRING  BY <2>3, CrateShape
  <2>5. PICK g \in facts : f = <<m, g[2], g[3]>> \/ f = <<m, LocalName(u), g[3]>>
    BY <2>2 DEF Reexported
  <2>6. PICK n \in DOMAIN crate, k \in DOMAIN crate, a \in STRING, b \in STRING : g = <<n, a, <<k, b>> >>
    BY DEF FactsTyped
  <2>7. g[2] = a /\ g[3] = <<k, b>>  BY <2>6
  <2> QED BY <2>3, <2>4, <2>5, <2>7
<1> QED BY <1>1 DEF FactsTyped

LEMMA LearnKeeps == ASSUME SurfaceInv, Learn PROVE SurfaceInv'
<1>1. /\ ~(Brought \subseteq facts) /\ facts' = facts \cup Brought
      /\ crate' = crate /\ walked' = walked /\ calls' = calls /\ entries' = entries /\ frontier' = frontier
  BY DEF Learn, svars
<1>2. walked = {} /\ calls = <<>> /\ entries = <<>> /\ crate \in Crates
  BY <1>1 DEF SurfaceInv
<1>3. FactsTyped(crate, facts')
  <2>1. FactsTyped(crate, facts) /\ FactsTyped(crate, Brought)  BY <1>2, BroughtIsTyped DEF SurfaceInv
  <2> QED BY <2>1, <1>1 DEF FactsTyped
<1>4. Declared' = Declared /\ Declared \subseteq facts  BY <1>1 DEF Declared, Modules, SurfaceInv
<1>5. FramesSound(crate, facts', walked, calls) /\ EntriesSound(crate, facts', walked, calls, entries)
  BY <1>2, NoItems DEF FramesSound, EntriesSound
<1>6. WalkSound(crate, facts', walked, calls, entries, frontier)
  BY <1>5, InvParts DEF WalkSound
<1>7. WalkSound(crate, facts, walked, calls, entries, frontier)'  BY <1>1, <1>6
<1>8. \A m \in walked' \cap Modules' : IsPublic(m)'  BY <1>1, <1>2
<1> QED BY <1>1, <1>2, <1>3, <1>4, <1>7, <1>8 DEF SurfaceInv

LEMMA SurfaceInvStarts == FactsInit(Crates) => SurfaceInv
<1> SUFFICES ASSUME FactsInit(Crates) PROVE SurfaceInv  OBVIOUS
<1>1. /\ crate \in Crates /\ frontier = << <<Root>> >> /\ walked = {} /\ calls = <<>> /\ entries = <<>>
      /\ facts = Declared
  BY DEF FactsInit, SurfaceInit
<1>2. FactsTyped(crate, facts)
  <2>1. ASSUME NEW f \in Declared PROVE \E n, k \in DOMAIN crate : \E a, b \in STRING : f = <<n, a, <<k, b>> >>
    <3>1. PICK m \in DOMAIN crate : \E d \in Range(crate[m].decls) : f = <<m, d.name, <<m, d.name>> >>
      BY DEF Declared, Modules
    <3>2. PICK d \in Range(crate[m].decls) : f = <<m, d.name, <<m, d.name>> >>  BY <3>1
    <3>3. d.name \in STRING  BY <1>1, CrateShape
    <3> QED BY <3>2, <3>3
  <2> QED BY <2>1, <1>1 DEF FactsTyped
<1>3. IsSeq(<<>>) /\ Range(<<>>) = {} /\ DOMAIN <<>> = {}  BY NoItems
<1>4. IsSeq(frontier) /\ Range(frontier) = {<<Root>>}
  <2> DEFINE root == <<Root>>
  <2>1. frontier = <<root>>  BY <1>1
  <2> HIDE DEF root
  <2>2. IsSeq(frontier) /\ Range(frontier) = {root}  BY <2>1, OneItem
  <2> QED BY <2>2 DEF root
<1>5. WalkSound(crate, facts, walked, calls, entries, frontier)
  BY <1>1, <1>3, <1>4
  DEF WalkSound, FramesSound, DeclsFirst, EntriesSound, DeclsKept, ModsKept, FrontierSound
<1> QED BY <1>1, <1>2, <1>5 DEF SurfaceInv

LEMMA SurfaceKeeps == SurfaceInv /\ [FactsNext]_factVars => SurfaceInv'
<1> SUFFICES ASSUME SurfaceInv, [FactsNext]_factVars PROVE SurfaceInv'  OBVIOUS
<1>1. CASE Learn  BY <1>1, LearnKeeps
<1>2. CASE Brought \subseteq facts /\ SurfaceNext /\ UNCHANGED facts
  <2>1. CASE WalkModule  BY <1>2, <2>1, WalkModuleKeeps
  <2>2. CASE EmitDecl  BY <1>2, <2>2, EmitDeclKeeps
  <2>3. CASE EmitMethod  BY <1>2, <2>3, EmitMethodKeeps
  <2>4. CASE WalkChild  BY <1>2, <2>4, WalkChildKeeps
  <2>5. CASE ResolveItem  BY <1>2, <2>5, ResolveItemKeeps
  <2>6. CASE ResolveGlob  BY <1>2, <2>6, ResolveGlobKeeps
  <2>7. CASE ShowDecl  BY <1>2, <2>7, ShowDeclKeeps
  <2>8. CASE ViaItem  BY <1>2, <2>8, ViaItemKeeps
  <2>9. CASE ViaGlob  BY <1>2, <2>9, ViaGlobKeeps
  <2>10. CASE RepublishItem  BY <1>2, <2>10, RepublishItemKeeps
  <2>11. CASE FollowUse  BY <1>2, <2>11, FollowUseKeeps
  <2> QED BY <1>2, <2>1, <2>2, <2>3, <2>4, <2>5, <2>6, <2>7, <2>8, <2>9, <2>10, <2>11 DEF SurfaceNext
<1>3. CASE UNCHANGED factVars
  <2>1. /\ crate' = crate /\ walked' = walked /\ calls' = calls /\ entries' = entries
        /\ frontier' = frontier /\ facts' = facts
    BY <1>3 DEF factVars, svars
  <2>2. WalkSound(crate, facts, walked, calls, entries, frontier)'  BY <2>1 DEF SurfaceInv
  <2>3. /\ crate' \in Crates /\ FactsTyped(crate, facts)' /\ Declared' \subseteq facts'
        /\ IF walked' = {} THEN calls' = <<>> /\ entries' = <<>> ELSE Brought' \subseteq facts'
        /\ \A n \in walked' \cap Modules' : IsPublic(n)'
    BY <2>1, StayedIsKnown DEF SurfaceInv
  <2> QED BY <2>2, <2>3 DEF SurfaceInv
<1> QED BY <1>1, <1>2, <1>3 DEF FactsNext

(* A public module was walked when nothing is left: its least prefix that  *)
(* was not would wait for the walk.                                        *)
LEMMA PublicIsWalked ==
    ASSUME SurfaceInv, SurfaceDone, NEW m \in Modules, IsPublic(m)
    PROVE  m \in walked
<1> DEFINE missed == {i \in 1..Len(m) : SubSeq(m, 1, i) \notin walked}
<1>1. /\ calls = <<>> /\ frontier = <<>> /\ crate \in Crates /\ Range(<<>>) = {}
      /\ m \in Seq(STRING) /\ m # <<>> /\ m[1] = Root /\ Len(m) \in Nat \ {0}
  <2>1. crate \in Crates /\ m \in DOMAIN crate  BY DEF SurfaceInv, Modules
  <2>2. m \in Seq(STRING) /\ m # <<>> /\ m[1] = Root  BY <2>1, CrateShape
  <2>3. Len(m) \in Nat \ {0}  BY <2>2, EmptySeq
  <2> QED BY <2>1, <2>2, <2>3, NoItems DEF SurfaceDone
<1>2. SubSeq(m, 1, Len(m)) = m  BY <1>1, SubSeqFull
<1>3. missed = {}
  <2>1. SUFFICES ASSUME missed # {} PROVE FALSE  OBVIOUS
  <2>2. missed \subseteq Nat  BY <1>1
  <2>3. PICK i \in missed : \A j \in missed : i <= j
    <3> HIDE DEF missed
    <3> QED BY <2>1, <2>2, MinIsLeast
  <2>4. i \in 1..Len(m) /\ SubSeq(m, 1, i) \notin walked  OBVIOUS
  <2>5. CASE i = 1
    <3>1. SubSeq(m, 1, 1) = <<Root>>  BY <1>1, OnePrefix
    <3>2. <<Root>> \in walked  BY <1>1, InvParts DEF FrontierSound
    <3> QED BY <2>4, <2>5, <3>1, <3>2
  <2>6. CASE i # 1
    <3> DEFINE above == SubSeq(m, 1, i - 1)
    <3>1. i \in 2..Len(m) /\ i - 1 \in 1..Len(m) /\ i - 1 < i  BY <2>4, <2>6, <1>1
    <3>2. i - 1 \notin missed
      <4>1. ASSUME i - 1 \in missed PROVE FALSE
        <5>1. i <= i - 1  BY <4>1, <2>3
        <5> QED BY <5>1, <3>1
      <4> QED BY <4>1
    <3>3. above \in walked  BY <3>1, <3>2
    <3>4. above \in Modules /\ \E c \in Range(crate[above].mods) : c.public /\ c.name = m[i]
      BY <3>1 DEF IsPublic
    <3> HIDE DEF above
    <3>5. PICK c \in Range(crate[above].mods) : c.public /\ c.name = m[i]  BY <3>4
    <3>6. Append(above, c.name) \in walked  BY <3>3, <3>4, <3>5, <1>1, InvParts DEF ModsKept, Modules
    <3>7. SubSeq(m, 1, i) = Append(above, m[i])  BY <3>1, <1>1, PrefixAppended DEF above
    <3> QED BY <2>4, <3>5, <3>6, <3>7
  <2> QED BY <2>5, <2>6
<1>4. Len(m) \in 1..Len(m)  BY <1>1
<1> QED BY <1>2, <1>3, <1>4

LEMMA SurfaceInvGives == SurfaceInv => SurfaceIsSound
<1> SUFFICES ASSUME SurfaceInv, SurfaceDone
             PROVE  /\ \A e \in Range(entries) :
                        LET m == SubSeq(e.path, 1, Len(e.path) - Len(e.source) + 1)
                        IN  /\ IsPublic(m)
                            /\ Len(e.source) = 2 => <<m, Last(e.path), e.source>> \in facts
                            /\ Len(e.source) = 3 => e.path = m \o Tail(e.source) /\ m = e.source[1]
                    /\ \A m \in Modules : IsPublic(m) =>
                        \A d \in Range(crate[m].decls) :
                            d.public /\ d.kind \in {"item", "type"} => IsListed(m, d)
  BY DEF SurfaceIsSound
<1>1. /\ calls = <<>> /\ Range(<<>>) = {} /\ crate \in Crates /\ FactsTyped(crate, facts)
      /\ Declared \subseteq facts /\ \A n \in walked \cap Modules : IsPublic(n)
  BY NoItems DEF SurfaceInv, SurfaceDone
<1>2. ASSUME NEW e \in Range(entries)
      PROVE  LET m == SubSeq(e.path, 1, Len(e.path) - Len(e.source) + 1)
             IN  /\ IsPublic(m)
                 /\ Len(e.source) = 2 => <<m, Last(e.path), e.source>> \in facts
                 /\ Len(e.source) = 3 => e.path = m \o Tail(e.source) /\ m = e.source[1]
  <2> DEFINE m == SubSeq(e.path, 1, Len(e.path) - Len(e.source) + 1)
  <2>1. PICK n \in walked \cap DOMAIN crate :
            IsOwn(crate, n, e) \/ IsOfType(crate, n, e) \/ IsBrought(facts, n, e)
    BY InvParts DEF EntriesSound, EntrySound
  <2>2. IsPublic(n) /\ n \in Seq(STRING) /\ n \in Modules  BY <1>1, <2>1, CrateShape DEF Modules
  <2>3. ASSUME NEW a \in STRING, e.path = Append(n, a), Len(e.source) = 2, <<n, a, e.source>> \in facts
        PROVE  IsPublic(m) /\ <<m, Last(e.path), e.source>> \in facts /\ Len(e.source) # 3
    <3>1. Len(e.path) = Len(n) + 1 /\ Last(e.path) = a /\ SubSeq(e.path, 1, Len(n)) = n /\ Len(n) \in Nat
      BY <2>2, <2>3, AppendedParts
    <3>2. Len(e.path) - Len(e.source) + 1 = Len(n)  BY <2>3, <3>1
    <3>3. m = n  BY <3>1, <3>2
    <3> HIDE DEF m
    <3>4. <<m, Last(e.path), e.source>> = <<n, a, e.source>>  BY <3>1, <3>3
    <3> QED BY <2>2, <2>3, <3>3, <3>4
  <2> SUFFICES /\ IsPublic(m)
               /\ Len(e.source) = 2 => <<m, Last(e.path), e.source>> \in facts
               /\ Len(e.source) = 3 => e.path = m \o Tail(e.source) /\ m = e.source[1]
    OBVIOUS
  <2> HIDE DEF m
  <2>4. CASE IsOwn(crate, n, e)
    <3>1. PICK d \in Range(crate[n].decls) : d.public /\ e.path = Append(n, d.name) /\ e.source = <<n, d.name>>
      BY <2>4 DEF IsOwn
    <3>2. d.name \in STRING /\ <<n, d.name, <<n, d.name>> >> \in facts
      BY <1>1, <2>1, <3>1, CrateShape, DeclIsFact
    <3>3. Len(e.source) = 2 /\ <<n, d.name, e.source>> \in facts  BY <3>1, <3>2
    <3> QED BY <2>3, <3>1, <3>2, <3>3
  <2>5. CASE IsBrought(facts, n, e)
    <3>1. PICK f \in facts : f[1] = n /\ e.path = Append(n, f[2]) /\ e.source = f[3]  BY <2>5 DEF IsBrought
    <3>2. PICK q \in DOMAIN crate, k \in DOMAIN crate, a \in STRING, b \in STRING : f = <<q, a, <<k, b>> >>
      BY <1>1 DEF FactsTyped
    <3>3. /\ a \in STRING /\ e.path = Append(n, a) /\ Len(e.source) = 2
          /\ <<n, a, e.source>> \in facts
      <4>1. f[1] = q /\ f[2] = a /\ f[3] = <<k, b>>  BY <3>2
      <4>2. q = n /\ e.source = <<k, b>> /\ e.path = Append(n, a)  BY <3>1, <4>1
      <4>3. Len(<<k, b>>) = 2  OBVIOUS
      <4> QED BY <3>2, <4>2, <4>3
    <3> QED BY <2>3, <3>3
  <2>6. CASE IsOfType(crate, n, e)
    <3>1. PICK d \in Range(crate[n].decls) : \E x \in Range(d.methods) :
              e.path = n \o <<d.name, x.name>> /\ e.source = <<n, d.name, x.name>>
      BY <2>6 DEF IsOfType
    <3>2. PICK x \in Range(d.methods) : e.path = n \o <<d.name, x.name>> /\ e.source = <<n, d.name, x.name>>
      BY <3>1
    <3>3. d.name \in STRING /\ x.name \in STRING  BY <1>1, <2>1, CrateShape
    <3>4. Len(e.path) = Len(n) + 2 /\ SubSeq(e.path, 1, Len(n)) = n /\ Len(n) \in Nat
      BY <2>2, <3>2, <3>3, JoinedParts
    <3>5. Len(e.source) = 3 /\ e.source[1] = n /\ Tail(e.source) = <<d.name, x.name>>  BY <3>2
    <3>6. Len(e.path) - Len(e.source) + 1 = Len(n)  BY <3>4, <3>5
    <3>7. m = n  BY <3>4, <3>6 DEF m
    <3> QED BY <2>2, <3>2, <3>5, <3>7
  <2> QED BY <2>1, <2>4, <2>5, <2>6
<1>3. ASSUME NEW m \in Modules, IsPublic(m), NEW d \in Range(crate[m].decls),
             d.public, d.kind \in {"item", "type"}
      PROVE  IsListed(m, d)
  <2>1. m \in walked \cap DOMAIN crate  BY <1>3, PublicIsWalked DEF Modules
  <2>2. Listed(entries, m, d)  BY <2>1, <1>1, <1>3, InvParts DEF DeclsKept
  <2> QED BY <2>2 DEF Listed, Lists, IsListed
<1> QED BY <1>2, <1>3

(* surface/rust.rs: when the walk of any crate has ended, every entry of   *)
(* its surface is a name that the language makes visible at that path and  *)
(* means that declaration, and nothing public in a public module is        *)
(* missing.                                                                *)
THEOREM SurfacesOfCratesAreSound == FactsSpec => []SurfaceIsSound
<1>1. FactsInit(Crates) => SurfaceInv  BY SurfaceInvStarts
<1>2. SurfaceInv /\ [FactsNext]_factVars => SurfaceInv'  BY SurfaceKeeps
<1>3. SurfaceInv => SurfaceIsSound  BY SurfaceInvGives
<1> QED BY <1>1, <1>2, <1>3, PTL DEF FactsSpec
=============================================================================
