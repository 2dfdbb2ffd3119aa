------------------------------ MODULE Surface ------------------------------
(***************************************************************************)
(* The public surface of a Rust crate as surface/rust.rs walks it.  A      *)
(* crate is what ModuleGraph has loaded: it maps each module, the sequence *)
(* of the names that lead to it, to a record of sequences:                 *)
(*   decls  kind ("item", "type", "impl" or "namespace"), name, public,    *)
(*          methods (a sequence of records with name and public)           *)
(*   uses   path (a sequence), glob, alias ("" for none), public           *)
(*   mods   name, public                                                   *)
(* `public` is what _vis_is_public says, which counts pub(crate) too.      *)
(*                                                                         *)
(* The walk loops and recurses; here what is left to do is a stack of      *)
(* frames, the next one last, and a step is one declaration, child module  *)
(* or use of a module, or one call of _republish.                          *)
(***************************************************************************)
EXTENDS Integers, Sequences, FiniteSets, SequencesExt

CONSTANTS
    Root,      \* the name of the crate
    MaxDepth   \* SurfaceOptions::max_depth

VARIABLES
    crate,     \* the input
    frontier,  \* modules to walk, the next one last
    walked,    \* seen_modules
    calls,     \* pending frames, the next one last
    visited,   \* pairs of a module and an item of it
    entries    \* in the order they are found

svars == <<crate, frontier, walked, calls, visited, entries>>

Modules == DOMAIN crate

SurfaceInit(crates) ==
    /\ crate \in crates
    /\ frontier = << <<Root>> >>
    /\ walked = {} /\ calls = <<>> /\ visited = {} /\ entries = <<>>

(* _resolve_path: the module or item that a path means in a module, or     *)
(* <<>> when it leaves the crate.                                          *)
Supers(path) ==
    Cardinality({i \in DOMAIN path : \A j \in 1..i : path[j] = "super"})

ResolvePath(from, path) ==
    LET n    == Supers(path)
        rest == SubSeq(path, n + 1, Len(path))
    IN  CASE path[1] = "crate" -> <<Root>> \o Tail(path)
          [] path[1] = "self"  -> from \o Tail(path)
          [] path[1] = "super" -> IF n > Len(from) THEN <<>>
                                  ELSE SubSeq(from, 1, Len(from) - n) \o rest
          [] OTHER -> from \o path

LocalName(u) == IF u.alias # "" THEN u.alias ELSE Last(u.path)

(* _emit_decl, _emit_renamed: the first of a qualified path stays.         *)
Emit(es, path, source, glob) ==
    IF \E i \in DOMAIN es : es[i].path = path THEN es
    ELSE Append(es, [path |-> path, source |-> source, glob |-> glob])

(* Frames.  An item of a module is to be shown in another (Show); a use is *)
(* met behind a glob (Via), or where an item is looked for (Follow).       *)
(* within: the calls of _republish that a call is nested in.               *)
Decl(m, d)      == [op |-> "decl", from |-> m, decl |-> d]
Method(m, d, c) == [op |-> "method", from |-> m, decl |-> d, method |-> c]
Mod(m, c)       == [op |-> "mod", from |-> m, child |-> c]
Use(m, u)       == [op |-> "use", from |-> m, use |-> u]

Show(from, m, d) == [op |-> "show", from |-> from, module |-> m, decl |-> d]
Via(from, m, u)  == [op |-> "via", from |-> from, module |-> m, use |-> u]

Republish(from, m, item, alias, glob, within) ==
    [op |-> "republish", from |-> from, module |-> m, item |-> item, alias |-> alias,
     glob |-> glob, within |-> within]

Follow(c, u) == [op |-> "follow", from |-> c.from, call |-> c, use |-> u]

(* The first of a sequence comes on top of the others.                     *)
Push(frames, next) == frames \o Reverse(next)

Top       == Last(calls)
IsTop(op) == calls # <<>> /\ Top.op = op
Pop       == calls' = Front(calls)

-----------------------------------------------------------------------------
(* walk: the declarations of a module, its child modules, its uses.        *)
Parts(m) ==
    LET decls == crate[m].decls
        mods  == crate[m].mods
        uses  == crate[m].uses
    IN  [i \in DOMAIN decls |-> Decl(m, decls[i])] \o [i \in DOMAIN mods |-> Mod(m, mods[i])]
        \o [i \in DOMAIN uses |-> Use(m, uses[i])]

WalkModule ==
    /\ calls = <<>> /\ frontier # <<>>
    /\ LET m == Last(frontier)
       IN  /\ frontier' = Front(frontier) /\ walked' = walked \cup {m}
           /\ calls' = IF m \in walked \/ m \notin Modules THEN <<>> ELSE Push(<<>>, Parts(m))
    /\ UNCHANGED <<crate, visited, entries>>

(* (a): an impl of a foreign type shows its methods only.                  *)
EmitDecl ==
    /\ IsTop("decl")
    /\ LET m       == Top.from
           d       == Top.decl
           shown   == d.public /\ d.kind \in {"item", "type"}
           methods == [i \in DOMAIN d.methods |-> Method(m, d, d.methods[i])]
       IN  /\ entries' = IF shown THEN Emit(entries, Append(m, d.name), <<m, d.name>>, FALSE) ELSE entries
           /\ calls' = IF d.kind = "impl" \/ (d.kind = "type" /\ d.public)
                       THEN Push(Front(calls), methods) ELSE Front(calls)
    /\ UNCHANGED <<crate, frontier, walked, visited>>

EmitMethod ==
    /\ IsTop("method")
    /\ LET type == Top.decl.name
           name == Top.method.name
       IN  entries' = IF Top.method.public
                      THEN Emit(entries, Top.from \o <<type, name>>, <<Top.from, type, name>>, FALSE)
                      ELSE entries
    /\ Pop /\ UNCHANGED <<crate, frontier, walked, visited>>

(* (b)                                                                     *)
WalkChild ==
    /\ IsTop("mod")
    /\ frontier' = IF Top.child.public THEN Append(frontier, Append(Top.from, Top.child.name)) ELSE frontier
    /\ Pop /\ UNCHANGED <<crate, walked, visited, entries>>

(* (c), _resolve_use.                                                      *)
ResolveItem ==
    /\ IsTop("use") /\ ~Top.use.glob
    /\ LET full == ResolvePath(Top.from, Top.use.path)
           key  == <<Front(full), Last(full)>>
           next == Republish(Top.from, key[1], key[2], LocalName(Top.use), FALSE, {})
       IN  IF ~Top.use.public \/ full = <<>> \/ key \in visited THEN Pop /\ UNCHANGED visited
           ELSE calls' = Append(Front(calls), next) /\ visited' = visited \cup {key}
    /\ UNCHANGED <<crate, frontier, walked, entries>>

(* What a glob opens: the declarations of a module, and its uses.          *)
Shows(from, m) == [i \in DOMAIN crate[m].decls |-> Show(from, m, crate[m].decls[i])]
Vias(from, m)  == [i \in DOMAIN crate[m].uses |-> Via(from, m, crate[m].uses[i])]

ResolveGlob ==
    /\ IsTop("use") /\ Top.use.glob
    /\ LET m == ResolvePath(Top.from, Top.use.path)
       IN  calls' = IF ~Top.use.public \/ m \notin Modules THEN Front(calls)
                    ELSE Push(Front(calls), Shows(Top.from, m) \o Vias(Top.from, m))
    /\ UNCHANGED <<crate, frontier, walked, visited, entries>>

(* Mutant: private declarations are shown too.                             *)
IsShown_All(d) == d.kind # "namespace"

IsShown(d) == d.public /\ d.kind # "namespace"

(* A declaration is shown through a glob once in a walk.                   *)
ShowDecl ==
    /\ IsTop("show")
    /\ LET d   == Top.decl
           key == <<Top.module, d.name>>
       IN  IF ~IsShown(d) \/ key \in visited THEN UNCHANGED <<visited, entries>>
           ELSE /\ visited' = visited \cup {key}
                /\ entries' = Emit(entries, Append(Top.from, d.name), key, TRUE)
    /\ Pop /\ UNCHANGED <<crate, frontier, walked>>

(* _republish_via_use: a use of a module that a glob has opened.  The uses *)
(* behind a second glob are not followed.                                  *)
ViaItem ==
    /\ IsTop("via") /\ ~Top.use.glob
    /\ LET full == ResolvePath(Top.module, Top.use.path)
           next == Republish(Top.from, Front(full), Last(full), LocalName(Top.use), TRUE, {})
       IN  calls' = IF ~Top.use.public \/ MaxDepth = 0 \/ full = <<>> THEN Front(calls)
                    ELSE Append(Front(calls), next)
    /\ UNCHANGED <<crate, frontier, walked, visited, entries>>

ViaGlob ==
    /\ IsTop("via") /\ Top.use.glob
    /\ LET m == ResolvePath(Top.module, Top.use.path)
       IN  calls' = IF ~Top.use.public \/ MaxDepth = 0 \/ m \notin Modules THEN Front(calls)
                    ELSE Push(Front(calls), Shows(Top.from, m))
    /\ UNCHANGED <<crate, frontier, walked, visited, entries>>

(* _republish: a public declaration of the module ends the search; or else *)
(* every public use that may bring the item is followed, at any depth.     *)
RepublishItem ==
    /\ IsTop("republish")
    /\ LET m    == Top.module
           here == m \in Modules /\ \E d \in Range(crate[m].decls) : d.public /\ d.name = Top.item
           call == Top
       IN  /\ entries' = IF here THEN Emit(entries, Append(Top.from, Top.alias), <<m, Top.item>>, Top.glob)
                         ELSE entries
           /\ calls' = IF here \/ m \notin Modules THEN Front(calls)
                       ELSE Push(Front(calls), [i \in DOMAIN crate[m].uses |-> Follow(call, crate[m].uses[i])])
    /\ UNCHANGED <<crate, frontier, walked, visited>>

Brings(u, item) == u.glob \/ LocalName(u) = item

FollowUse ==
    /\ IsTop("follow")
    /\ LET c      == Top.call
           u      == Top.use
           full   == ResolvePath(c.module, u.path)
           within == c.within \cup {<<c.module, c.item>>}
           next   == IF u.glob THEN Republish(c.from, full, c.item, c.alias, TRUE, within)
                     ELSE Republish(c.from, Front(full), Last(full), c.alias, c.glob, within)
       IN  calls' = IF ~u.public \/ ~Brings(u, c.item) \/ full = <<>> THEN Front(calls)
                    ELSE Append(Front(calls), next)
    /\ UNCHANGED <<crate, frontier, walked, visited, entries>>

SurfaceNext ==
    \/ WalkModule \/ EmitDecl \/ EmitMethod \/ WalkChild
    \/ ResolveItem \/ ResolveGlob \/ ShowDecl \/ ViaItem \/ ViaGlob
    \/ RepublishItem \/ FollowUse

SurfaceDone == frontier = <<>> /\ calls = <<>>

(* surface/rust.rs:13 says that cycles are broken by a per-walk visited    *)
(* set keyed by module and item: no call of _republish is nested in one    *)
(* for the same item.                                                      *)
CyclesAreBroken == IsTop("republish") => <<Top.module, Top.item>> \notin Top.within
=============================================================================
