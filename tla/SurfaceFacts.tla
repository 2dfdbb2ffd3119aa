---------------------------- MODULE SurfaceFacts ----------------------------
(***************************************************************************)
(* What the language makes visible in a crate, beside what Surface lists.  *)
(* A fact is a triple of a module, a name in it and the declaration that   *)
(* the name means.  The facts are what is declared public, and what the    *)
(* public uses bring from one module into another, in as many rounds as    *)
(* bring anything new; the walk begins when all are known.                 *)
(***************************************************************************)
EXTENDS Surface

CONSTANT Crates

Methods      == [name : STRING, public : BOOLEAN]
Declarations == [kind : {"item", "type", "impl", "namespace"}, name : STRING, public : BOOLEAN,
                 methods : Seq(Methods)]
Paths        == Seq(STRING) \ {<<>>}
Uses         == [path : Paths, glob : BOOLEAN, alias : STRING, public : BOOLEAN]

(* A module is reached from the root.  The modules and the types of a      *)
(* scope share a namespace in Rust, so none of either has the same name.   *)
ASSUME CratesAssumption ==
    /\ Root \in STRING
    /\ \A c \in Crates : \A m \in DOMAIN c :
        /\ m \in Paths /\ m[1] = Root
        /\ c[m].decls \in Seq(Declarations) /\ c[m].uses \in Seq(Uses) /\ c[m].mods \in Seq(Methods)
        /\ \A d \in Range(c[m].decls) : d.methods # <<>> => Append(m, d.name) \notin DOMAIN c

VARIABLE facts

factVars == <<svars, facts>>

Declared == UNION {{<<m, d.name, <<m, d.name>> >> : d \in {e \in Range(crate[m].decls) : e.public}} : m \in Modules}

(* What a use of a module brings into it.                                  *)
Reexported(m, u) ==
    LET full == ResolvePath(m, u.path)
    IN  IF u.glob THEN {<<m, f[2], f[3]>> : f \in {g \in facts : g[1] = full}}
        ELSE {<<m, LocalName(u), f[3]>> : f \in {g \in facts : Append(g[1], g[2]) = full}}

PublicUses(m) == {u \in Range(crate[m].uses) : u.public}

Brought == UNION {UNION {Reexported(m, u) : u \in PublicUses(m)} : m \in Modules}

FactsInit(crates) == SurfaceInit(crates) /\ facts = Declared

Learn == ~(Brought \subseteq facts) /\ facts' = facts \cup Brought /\ UNCHANGED svars

FactsNext == Learn \/ (Brought \subseteq facts /\ SurfaceNext /\ UNCHANGED facts)

FactsSpec == FactsInit(Crates) /\ [][FactsNext]_factVars

-----------------------------------------------------------------------------
(* The modules that are public all the way from the root.                  *)
IsPublic(m) ==
    /\ m \in Modules
    /\ \A i \in 2..Len(m) :
        LET above == SubSeq(m, 1, i - 1)
        IN  above \in Modules /\ \E c \in Range(crate[above].mods) : c.public /\ c.name = m[i]

IsListed(m, d) == \E e \in Range(entries) : e.path = Append(m, d.name) /\ e.source = <<m, d.name>>

(* surface/rust.rs: when the walk has ended every entry is a name that the *)
(* language makes visible at that path, and means that declaration; and    *)
(* every public item and type of a public module is an entry of its own.   *)
SurfaceIsSound ==
    SurfaceDone =>
        /\ \A e \in Range(entries) :
            LET m == SubSeq(e.path, 1, Len(e.path) - Len(e.source) + 1)
            IN  /\ IsPublic(m)
                /\ Len(e.source) = 2 => <<m, Last(e.path), e.source>> \in facts
                /\ Len(e.source) = 3 => e.path = m \o Tail(e.source) /\ m = e.source[1]
        /\ \A m \in Modules : IsPublic(m) =>
            \A d \in Range(crate[m].decls) :
                d.public /\ d.kind \in {"item", "type"} => IsListed(m, d)
=============================================================================
